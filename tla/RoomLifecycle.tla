--------------------------- MODULE RoomLifecycle ---------------------------
(* One event room: the requests that create, start, stop, edit, cancel and    *)
(* delete it (room-crud and room-live controllers), each in the transaction   *)
(* that tenantContext.ts pins to it, the notices they send, and the poll that *)
(* announces rooms that never took place (eventExpiryNotifier.ts).            *)
(*                                                                            *)
(* Rows are independent, so one room suffices.  One member of its staff       *)
(* stands for all: the in-app notification is a row of the request's own      *)
(* transaction, the email leaves through another connection and stays sent.   *)
EXTENDS Naturals, FiniteSets

CONSTANTS Requests,           \* HTTP requests, one operation each
          Pollers,            \* server instances running the expiry poll
          MaxTime,            \* bound on the clock
          Lookback,           \* EVENT_EXPIRY_LOOKBACK_HOURS
          ServerStops,        \* whether a server may stop between answer and COMMIT
          PollsOutliveLock    \* whether a poll can outlast its Redis lock

ASSUME RoomAssumption == /\ MaxTime \in Nat /\ Lookback \in Nat
                         /\ ServerStops \in BOOLEAN
                         /\ PollsOutliveLock \in BOOLEAN

VARIABLES
    room,        \* the committed row of event_rooms
    lock,        \* the request whose transaction holds the row lock, at most one
    draft,       \* the row as that transaction has written it
    now,
    pc,          \* progress of a request; "committed" and "undone" are final
    op,          \* its operation
    poisoned,    \* a statement failed in its transaction: COMMIT will roll back
    posted,      \* it inserted the member's in-app notification
    told,        \* it emailed the member
    answered,    \* its success response reached the client
    pollPc,      \* progress of a server through the expiry poll
    pollLock,    \* the server that set lock:eventExpiryNotifier, at most one
    expiredTold, \* emails to the member that the event did not take place, up to 2
    unmarked     \* a poll that may have emailed someone ended without the marker

rowVars     == <<room, lock, draft>>
requestVars == <<pc, op, poisoned, posted, told, answered>>
pollVars    == <<pollPc, pollLock, expiredTold, unmarked>>
vars == <<rowVars, now, requestVars, pollVars>>

Times == 0..MaxTime
Rows == [status : {"absent", "scheduled", "live", "ended", "cancelled"},
         started : BOOLEAN,        \* actual_start is set
         end : Times,              \* scheduled_end
         deleted : BOOLEAN,
         marks : SUBSET {"started", "ended", "closed"}]   \* the ..._notified_at columns set
Open == {"audit", "assign", "claim", "fanout", "answer", "answered"}
Ops  == {"none", "create", "start", "stop", "patch", "cancel", "delete"}

\* The marker column an operation claims before it notifies.
Mark == [start |-> "started", stop |-> "ended", cancel |-> "closed"]
Notifying == DOMAIN Mark

Fresh(s, e) == [status |-> s, started |-> FALSE, end |-> e, deleted |-> FALSE, marks |-> {}]
NoRoom == Fresh("absent", 0)
Scheduled(e) == Fresh("scheduled", e)

Init ==
    /\ room \in {NoRoom} \cup {Scheduled(e) : e \in Times}
    /\ draft = NoRoom /\ lock = {} /\ now = 0
    /\ pc = [r \in Requests |-> "idle"]
    /\ op = [r \in Requests |-> "none"]
    /\ poisoned = [r \in Requests |-> FALSE]
    /\ posted = [r \in Requests |-> FALSE]
    /\ told = [r \in Requests |-> FALSE]
    /\ answered = [r \in Requests |-> FALSE]
    /\ pollPc = [p \in Pollers |-> "idle"]
    /\ pollLock = {} /\ expiredTold = 0 /\ unmarked = FALSE

TimePasses ==
    /\ now < MaxTime
    /\ now' = now + 1
    /\ UNCHANGED <<rowVars, requestVars, pollVars>>

-----------------------------------------------------------------------------
(* The write of each operation.  It takes the row lock; a request that waited *)
(* for the lock re-evaluates its WHERE clause on the row as committed.        *)

Write(r, o, row, next) ==
    /\ pc[r] = "idle" /\ lock = {}
    /\ lock' = {r} /\ draft' = row
    /\ pc' = [pc EXCEPT ![r] = next]
    /\ op' = [op EXCEPT ![r] = o]
    /\ UNCHANGED <<room, now, poisoned, posted, told, answered, pollVars>>

\* Mutant: an UPDATE without the deleted_at condition.
MutantVisible == room.status # "absent"

Visible == room.status # "absent" /\ ~room.deleted

Create(r) ==
    /\ room.status = "absent"
    /\ \E e \in Times : Write(r, "create", Scheduled(e), "audit")

Start(r) ==
    /\ Visible
    /\ Write(r, "start", [room EXCEPT !.status = "live", !.started = TRUE], "claim")

\* The activity quotas may refuse the request first.
Stop(r) ==
    /\ Visible
    /\ Write(r, "stop", [room EXCEPT !.status = "ended"], "claim")

\* updateRoom without a cancellation: any other status, any other schedule.
Patch(r) ==
    /\ Visible
    /\ \E s \in {"scheduled", "live", "ended", room.status}, e \in Times :
         Write(r, "patch", [room EXCEPT !.status = s, !.end = e,
                                        !.started = @ \/ s = "live"], "audit")

Cancel(r) ==
    /\ Visible
    /\ Write(r, "cancel", [room EXCEPT !.status = "cancelled"], "audit")

Delete(r) ==
    /\ Visible
    /\ Write(r, "delete", [room EXCEPT !.deleted = TRUE], "audit")

-----------------------------------------------------------------------------
(* The rest of the request, inside the same transaction.                      *)

\* recordAuditSafely: an INSERT whose failure is logged and swallowed, although it
\* aborts the transaction.
Audit(r) ==
    /\ pc[r] = "audit"
    /\ \E fails \in BOOLEAN : poisoned' = [poisoned EXCEPT ![r] = fails]
    /\ pc' = [pc EXCEPT ![r] = CASE op[r] = "cancel" -> "claim"
                                 [] op[r] = "create" -> "assign"
                                 [] OTHER            -> "answer"]
    /\ UNCHANGED <<rowVars, now, op, posted, told, answered, pollVars>>

\* A creator who is no admin is assigned to the room, which a failed transaction
\* cannot do.
Assign(r) ==
    /\ pc[r] = "assign"
    /\ \E admin \in BOOLEAN : admin \/ ~poisoned[r]
    /\ pc' = [pc EXCEPT ![r] = "answer"]
    /\ UNCHANGED <<rowVars, now, op, poisoned, posted, told, answered, pollVars>>

\* Mutant: notifies whether or not the marker was already set.
MutantClaim(r) ==
    /\ pc[r] = "claim" /\ ~poisoned[r]
    /\ draft' = [draft EXCEPT !.marks = @ \cup {Mark[op[r]]}]
    /\ pc' = [pc EXCEPT ![r] = "fanout"]
    /\ UNCHANGED <<room, lock, now, op, poisoned, posted, told, answered, pollVars>>

\* UPDATE ... WHERE marker IS NULL: who matches the row notifies.
Claim(r) ==
    /\ pc[r] = "claim" /\ ~poisoned[r]
    /\ draft' = [draft EXCEPT !.marks = @ \cup {Mark[op[r]]}]
    /\ pc' = [pc EXCEPT ![r] = IF Mark[op[r]] \in draft.marks THEN "answer" ELSE "fanout"]
    /\ UNCHANGED <<room, lock, now, op, poisoned, posted, told, answered, pollVars>>

\* Mutant: the fan-out is not awaited and its row misses the transaction.
MutantFanOut(r) ==
    /\ pc[r] = "fanout"
    /\ \E mailed \in BOOLEAN : told' = [told EXCEPT ![r] = mailed]
    /\ pc' = [pc EXCEPT ![r] = "answer"]
    /\ UNCHANGED <<rowVars, now, op, poisoned, posted, answered, pollVars>>

\* The awaited fan-out.  Every failure is swallowed; one of a statement aborts
\* the transaction, with or without the email on its way.
FanOut(r) ==
    /\ pc[r] = "fanout"
    /\ \E fails, mailed \in BOOLEAN :
         /\ posted' = [posted EXCEPT ![r] = ~fails]
         /\ poisoned' = [poisoned EXCEPT ![r] = fails]
         /\ told' = [told EXCEPT ![r] = mailed]
    /\ pc' = [pc EXCEPT ![r] = "answer"]
    /\ UNCHANGED <<rowVars, now, op, answered, pollVars>>

\* The response is sent; its "finish" event runs COMMIT afterwards.
Answer(r) ==
    /\ pc[r] = "answer"
    /\ answered' = [answered EXCEPT ![r] = TRUE]
    /\ pc' = [pc EXCEPT ![r] = "answered"]
    /\ UNCHANGED <<rowVars, now, op, poisoned, posted, told, pollVars>>

Commit(r) ==
    /\ pc[r] = "answered" /\ ~poisoned[r]
    /\ room' = draft /\ lock' = {} /\ draft' = NoRoom
    /\ pc' = [pc EXCEPT ![r] = "committed"]
    /\ UNCHANGED <<now, op, poisoned, posted, told, answered, pollVars>>

\* The transaction is rolled back: by a COMMIT after a failed statement, an error
\* that reaches the handler, the client going away, or the server stopping.
RollBack(r) ==
    /\ pc[r] \in Open
    /\ pc[r] = "answered" => poisoned[r] \/ ServerStops
    /\ lock' = {} /\ draft' = NoRoom
    /\ pc' = [pc EXCEPT ![r] = "undone"]
    /\ poisoned' = [poisoned EXCEPT ![r] = FALSE]
    /\ UNCHANGED <<room, now, op, posted, told, answered, pollVars>>

-----------------------------------------------------------------------------
(* The expiry poll.                                                           *)

GotoPoll(p, step) == pollPc' = [pollPc EXCEPT ![p] = step]

\* SET NX EX.
PollStart(p) ==
    /\ pollPc[p] = "idle" /\ pollLock = {}
    /\ pollLock' = {p}
    /\ GotoPoll(p, "select")
    /\ UNCHANGED <<rowVars, now, requestVars, expiredTold, unmarked>>

\* Mutant: the marker is not part of the poll's condition.
MutantExpired ==
    /\ Visible /\ room.status = "scheduled" /\ ~room.started
    /\ room.end < now /\ room.end + Lookback >= now

Expired ==
    /\ Visible /\ room.status = "scheduled" /\ ~room.started
    /\ "closed" \notin room.marks
    /\ room.end < now /\ room.end + Lookback >= now

PollSelect(p) ==
    /\ pollPc[p] = "select"
    /\ GotoPoll(p, IF Expired THEN "notify" ELSE "unlock")
    /\ UNCHANGED <<rowVars, now, requestVars, pollLock, expiredTold, unmarked>>

\* Notifies from the row as selected.  The marker follows if somebody's notice
\* succeeded (anyone) and the fan-out's own transaction did not throw.
PollNotify(p) ==
    /\ pollPc[p] = "notify"
    /\ \E mailed, anyone, throws \in BOOLEAN :
         /\ mailed => anyone
         /\ expiredTold' = IF mailed /\ expiredTold < 2 THEN expiredTold + 1 ELSE expiredTold
         /\ unmarked' = (unmarked \/ (anyone /\ throws))
         /\ GotoPoll(p, IF anyone /\ ~throws THEN "mark" ELSE "unlock")
    /\ UNCHANGED <<rowVars, now, requestVars, pollLock>>

\* UPDATE ... WHERE marker IS NULL: waits for a request that holds the row.
PollMark(p) ==
    /\ pollPc[p] = "mark" /\ lock = {}
    /\ room' = [room EXCEPT !.marks = @ \cup {"closed"}]
    /\ GotoPoll(p, "unlock")
    /\ UNCHANGED <<lock, draft, now, requestVars, pollLock, expiredTold, unmarked>>

PollMarkFails(p) ==
    /\ pollPc[p] = "mark"
    /\ unmarked' = TRUE
    /\ GotoPoll(p, "unlock")
    /\ UNCHANGED <<rowVars, now, requestVars, pollLock, expiredTold>>

\* DEL, whoever holds the lock; a failing DEL is ignored.
PollUnlock(p) ==
    /\ pollPc[p] = "unlock"
    /\ pollLock' \in {{}, pollLock}
    /\ GotoPoll(p, "idle")
    /\ UNCHANGED <<rowVars, now, requestVars, expiredTold, unmarked>>

PollStops(p) ==
    /\ pollPc[p] # "idle"
    /\ unmarked' = (unmarked \/ pollPc[p] = "mark")
    /\ GotoPoll(p, "idle")
    /\ UNCHANGED <<rowVars, now, requestVars, pollLock, expiredTold>>

\* Mutant: a lock set without an expiry.
MutantLockExpires == pollLock = {} /\ UNCHANGED vars

LockExpires ==
    /\ pollLock # {}
    /\ PollsOutliveLock \/ \A p \in pollLock : pollPc[p] = "idle"
    /\ pollLock' = {}
    /\ UNCHANGED <<rowVars, now, requestVars, pollPc, expiredTold, unmarked>>

-----------------------------------------------------------------------------
RequestStep(r) ==
    \/ Audit(r) \/ Assign(r) \/ Claim(r) \/ FanOut(r) \/ Answer(r) \/ Commit(r) \/ RollBack(r)

PollStep(p) == PollSelect(p) \/ PollNotify(p) \/ PollMark(p) \/ PollMarkFails(p) \/ PollUnlock(p)

Next ==
    \/ \E r \in Requests : \/ Create(r) \/ Start(r) \/ Stop(r) \/ Patch(r) \/ Cancel(r)
                           \/ Delete(r) \/ RequestStep(r)
    \/ \E p \in Pollers : PollStart(p) \/ PollStep(p) \/ PollStops(p)
    \/ LockExpires \/ TimePasses

Spec == Init /\ [][Next]_vars

\* Requests end, every server polls every five minutes, a lock expires, and polls
\* do not fail, nor their servers stop in mid-poll, for ever.
Fairness ==
    /\ \A r \in Requests : WF_vars(RequestStep(r))
    /\ \A p \in Pollers : WF_vars(PollStep(p))
    /\ WF_vars(\E p \in Pollers : PollStart(p)) /\ WF_vars(LockExpires)
    /\ SF_vars(\E p \in Pollers : PollSelect(p))
    /\ SF_vars(\E p \in Pollers : PollNotify(p) /\ pollPc'[p] = "mark")
    /\ SF_vars(\E p \in Pollers : PollMark(p))

FairSpec == Spec /\ Fairness
-----------------------------------------------------------------------------
(* Properties.                                                                *)

\* Types of the state.
TypeOK ==
    /\ room \in Rows /\ draft \in Rows
    /\ lock \subseteq Requests
    /\ now \in Times
    /\ pc \in [Requests -> {"idle", "committed", "undone"} \cup Open]
    /\ op \in [Requests -> Ops]
    /\ poisoned \in [Requests -> BOOLEAN] /\ posted \in [Requests -> BOOLEAN]
    /\ told \in [Requests -> BOOLEAN] /\ answered \in [Requests -> BOOLEAN]
    /\ pollPc \in [Pollers -> {"idle", "select", "notify", "mark", "unlock"}]
    /\ pollLock \subseteq Pollers
    /\ expiredTold \in 0..2 /\ unmarked \in BOOLEAN

\* Of the requests that emailed one kind of notice at most one stands: two starts,
\* stops or cancellations at once, or one after the other, email the member once,
\* and a second email needs the first request to have been rolled back.
OneStandingNotice ==
    \A r1, r2 \in Requests :
        /\ told[r1] /\ told[r2] /\ op[r1] = op[r2]
        /\ pc[r1] # "undone" /\ pc[r2] # "undone"
        => r1 = r2

\* The marker and the member's in-app notification stand or fall together: a room
\* is marked as announced exactly when a committed request posted the notification
\* (for the shared column, or the poll set it).
NoticeIffMarked ==
    \A o \in Notifying :
        LET announced == \E r \in Requests : op[r] = o /\ posted[r] /\ pc[r] = "committed" IN
        /\ announced => Mark[o] \in room.marks
        /\ o # "cancel" => (Mark[o] \in room.marks => announced)

\* The member is told a second time that the event did not take place only if a
\* poll that told somebody failed to record it.
ExpiryRetoldOnlyIfUnmarked == expiredTold = 2 => unmarked

\* Nothing about a deleted room changes any more, whatever requests were under way
\* when it was deleted; the poll may still set its own marker.
DeletedIsFrozen ==
    [][room.deleted => room' \in {room, [room EXCEPT !.marks = @ \cup {"closed"}]}]_vars

\* A room that never took place does not stay unannounced: it gets its marker, is
\* changed, or falls out of the poll's lookback.
ExpiredIsAnnounced == Expired ~> ~Expired
=============================================================================
