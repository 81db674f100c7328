------------------------ MODULE RoomLifecycle_proofs ------------------------
(* Type correctness of RoomLifecycle, and for every number of requests and    *)
(* servers: at most one standing notice, markers and in-app notices together, *)
(* deleted rooms frozen; and, when no poll outlasts its lock, no expiry told  *)
(* twice unless a poll failed to record it.                                   *)
EXTENDS RoomLifecycle, TLAPS

\* The row lock is held exactly by the request whose transaction is open, and a
\* locked row is not deleted.
Locked ==
    /\ \A r \in Requests : r \in lock <=> pc[r] \in Open
    /\ \A r1, r2 \in lock : r1 = r2
    /\ lock # {} => ~room.deleted /\ draft.status # "absent"

\* A room that does not exist yet has no markers, and no poll is about to add one.
Absent ==
    /\ room.status = "absent" => room.marks = {} /\ ~room.deleted
    /\ \A p \in Pollers : pollPc[p] \in {"notify", "mark"} => room.status # "absent"

Quiet(r) == ~posted[r] /\ ~told[r]

\* The request added its marker to its copy of the row, which lacked it.
Claimed(r) ==
    /\ op[r] \in Notifying /\ Mark[op[r]] \notin room.marks
    /\ draft.marks = room.marks \cup {Mark[op[r]]}

\* What a request has claimed and sent at each of its steps.
Progress(r) ==
    /\ pc[r] \in {"idle", "audit", "assign", "claim", "fanout"} => Quiet(r)
    /\ pc[r] \in {"audit", "assign", "claim"} => draft.marks = room.marks
    /\ pc[r] = "claim" => op[r] \in Notifying
    /\ pc[r] = "fanout" => Claimed(r)
    /\ pc[r] \in {"answer", "answered"} =>
         \/ Quiet(r) /\ draft.marks = room.marks
         \/ Claimed(r) /\ (posted[r] \/ poisoned[r])
    /\ pc[r] = "committed" /\ ~Quiet(r) => op[r] \in Notifying /\ Mark[op[r]] \in room.marks

Inv ==
    /\ TypeOK /\ Locked /\ Absent
    /\ \A r \in Requests : Progress(r)
    /\ OneStandingNotice /\ NoticeIffMarked

-----------------------------------------------------------------------------
LEMMA Marks ==
    /\ Notifying = {"start", "stop", "cancel"}
    /\ Mark["start"] = "started" /\ Mark["stop"] = "ended" /\ Mark["cancel"] = "closed"
    /\ \A o \in Notifying : Mark[o] \in {"started", "ended", "closed"}
    /\ \A o1, o2 \in Notifying : Mark[o1] = Mark[o2] => o1 = o2
  <1>1. Notifying = {"start", "stop", "cancel"}
    BY DEF Notifying, Mark
  <1>2. Mark["start"] = "started" /\ Mark["stop"] = "ended" /\ Mark["cancel"] = "closed"
    BY DEF Mark
  <1>3. \A o \in Notifying : Mark[o] \in {"started", "ended", "closed"}
    BY <1>1, <1>2
  <1>4. ASSUME NEW o1 \in Notifying, NEW o2 \in Notifying, Mark[o1] = Mark[o2] PROVE o1 = o2
    <2>1. CASE o1 = "start"
      BY <1>1, <1>2, <1>4, <2>1
    <2>2. CASE o1 = "stop"
      BY <1>1, <1>2, <1>4, <2>2
    <2>3. CASE o1 = "cancel"
      BY <1>1, <1>2, <1>4, <2>3
    <2> QED BY <1>1, <2>1, <2>2, <2>3
  <1> QED BY <1>1, <1>2, <1>3, <1>4

LEMMA NoRoomType ==
    /\ NoRoom \in Rows /\ NoRoom.marks = {} /\ ~NoRoom.deleted
    /\ \A e \in Times : /\ Scheduled(e) \in Rows /\ Scheduled(e).marks = {}
                         /\ ~Scheduled(e).deleted /\ Scheduled(e).status = "scheduled"
  BY RoomAssumption DEF NoRoom, Rows, Times, Scheduled, Fresh

LEMMA InitInv == Init => Inv
  <1> SUFFICES ASSUME Init PROVE Inv
    OBVIOUS
  <1>1. /\ room \in Rows /\ room.marks = {} /\ ~room.deleted
    <2>1. room = NoRoom \/ \E e \in Times : room = Scheduled(e)
      BY DEF Init
    <2> QED BY <2>1, NoRoomType
  <1>2. TypeOK
    <2>1. room \in Rows /\ draft \in Rows /\ lock \subseteq Requests
      BY <1>1, NoRoomType DEF Init
    <2>2. now \in Times
      BY RoomAssumption DEF Init, Times
    <2>3. /\ pc \in [Requests -> {"idle", "committed", "undone"} \cup Open]
          /\ op \in [Requests -> Ops]
          /\ poisoned \in [Requests -> BOOLEAN] /\ posted \in [Requests -> BOOLEAN]
          /\ told \in [Requests -> BOOLEAN] /\ answered \in [Requests -> BOOLEAN]
      BY DEF Init, Ops
    <2>4. /\ pollPc \in [Pollers -> {"idle", "select", "notify", "mark", "unlock"}]
          /\ pollLock \subseteq Pollers
      BY DEF Init
    <2>5. expiredTold \in 0..2
      BY DEF Init
    <2>6. unmarked \in BOOLEAN
      BY DEF Init
    <2> QED BY <2>1, <2>2, <2>3, <2>4, <2>5, <2>6 DEF TypeOK
  <1>3. Locked /\ Absent
    BY <1>1 DEF Init, Locked, Absent, Open
  <1>4. \A r \in Requests : Progress(r)
    BY DEF Init, Progress, Quiet
  <1>5. OneStandingNotice /\ NoticeIffMarked
    BY <1>1, Marks DEF Init, OneStandingNotice, NoticeIffMarked
  <1> QED BY <1>2, <1>3, <1>4, <1>5 DEF Inv

-----------------------------------------------------------------------------
(* The first write of a request.                                              *)

LEMMA WriteStep ==
    ASSUME Inv, NEW r \in Requests, NEW o \in Ops, NEW row \in Rows,
           NEW next \in {"audit", "claim"},
           Write(r, o, row, next),
           row.marks = room.marks, row.status # "absent", ~room.deleted,
           next = "claim" => o \in Notifying
    PROVE  Inv'
  <1> USE DEF Inv
  <1>1. TypeOK'
    BY DEF TypeOK, Write, Open, pollVars
  <1>2. Locked'
    BY DEF TypeOK, Locked, Write, Open
  <1>3. Absent'
    BY DEF Absent, Write, pollVars
  <1>4. ASSUME NEW q \in Requests PROVE Progress(q)'
    <2>1. q # r => pc[q] \notin Open /\ pc'[q] = pc[q] /\ op'[q] = op[q]
      BY DEF Locked, Write, TypeOK
    <2>2. CASE q # r
      BY <2>1, <2>2 DEF Progress, Quiet, Write, Open
    <2>3. CASE q = r
      BY <2>3 DEF Progress, Quiet, Write, TypeOK
    <2> QED BY <2>2, <2>3
  <1>5. ~told[r] /\ ~posted[r]
    BY DEF Progress, Quiet, Write
  <1>6. OneStandingNotice'
    BY <1>5 DEF OneStandingNotice, Write, TypeOK
  <1>7. NoticeIffMarked'
    BY <1>5 DEF NoticeIffMarked, Write, TypeOK
  <1> QED BY <1>1, <1>2, <1>3, <1>4, <1>6, <1>7

LEMMA BeginStep ==
    ASSUME Inv, NEW r \in Requests,
           Create(r) \/ Start(r) \/ Stop(r) \/ Patch(r) \/ Cancel(r) \/ Delete(r)
    PROVE  Inv'
  <1>1. room \in Rows /\ (room.status = "absent" => room.marks = {} /\ ~room.deleted)
    BY DEF Inv, TypeOK, Absent
  <1> USE DEF Ops, Rows
  <1>2. CASE Create(r)
    <2>1. PICK e \in Times : Write(r, "create", Scheduled(e), "audit")
      BY <1>2 DEF Create
    <2>2. room.marks = {} /\ ~room.deleted
      BY <1>1, <1>2 DEF Create
    <2>3. "create" \in Ops /\ "audit" # "claim"
      OBVIOUS
    <2> QED BY <2>1, <2>2, <2>3, NoRoomType, WriteStep
  <1>3. CASE Start(r)
    <2> DEFINE row == [room EXCEPT !.status = "live", !.started = TRUE]
    <2>1. row \in Rows /\ row.marks = room.marks /\ row.status # "absent" /\ ~room.deleted
      BY <1>1, <1>3 DEF Start, Visible
    <2>2. Write(r, "start", row, "claim")
      BY <1>3 DEF Start
    <2> HIDE DEF row
    <2> QED BY <2>1, <2>2, Marks, WriteStep
  <1>4. CASE Stop(r)
    <2> DEFINE row == [room EXCEPT !.status = "ended"]
    <2>1. row \in Rows /\ row.marks = room.marks /\ row.status # "absent" /\ ~room.deleted
      BY <1>1, <1>4 DEF Stop, Visible
    <2>2. Write(r, "stop", row, "claim")
      BY <1>4 DEF Stop
    <2> HIDE DEF row
    <2> QED BY <2>1, <2>2, Marks, WriteStep
  <1>5. CASE Patch(r)
    <2>1. PICK s \in {"scheduled", "live", "ended", room.status}, e \in Times :
            Write(r, "patch", [room EXCEPT !.status = s, !.end = e,
                                           !.started = @ \/ s = "live"], "audit")
      BY <1>5 DEF Patch
    <2> DEFINE row == [room EXCEPT !.status = s, !.end = e, !.started = @ \/ s = "live"]
    <2>2. row \in Rows /\ row.marks = room.marks /\ row.status # "absent" /\ ~room.deleted
      BY <1>1, <1>5 DEF Patch, Visible
    <2>3. Write(r, "patch", row, "audit")
      BY <2>1
    <2> HIDE DEF row
    <2> QED BY <2>2, <2>3, WriteStep
  <1>6. CASE Cancel(r)
    <2> DEFINE row == [room EXCEPT !.status = "cancelled"]
    <2>1. row \in Rows /\ row.marks = room.marks /\ row.status # "absent" /\ ~room.deleted
      BY <1>1, <1>6 DEF Cancel, Visible
    <2>2. Write(r, "cancel", row, "audit")
      BY <1>6 DEF Cancel
    <2> HIDE DEF row
    <2> QED BY <2>1, <2>2, WriteStep
  <1>7. CASE Delete(r)
    <2> DEFINE row == [room EXCEPT !.deleted = TRUE]
    <2>1. row \in Rows /\ row.marks = room.marks /\ row.status # "absent" /\ ~room.deleted
      BY <1>1, <1>7 DEF Delete, Visible
    <2>2. Write(r, "delete", row, "audit")
      BY <1>7 DEF Delete
    <2> HIDE DEF row
    <2> QED BY <2>1, <2>2, WriteStep
  <1> QED BY <1>2, <1>3, <1>4, <1>5, <1>6, <1>7
-----------------------------------------------------------------------------
(* The steps of an open transaction.                                          *)

\* Another request keeps its progress while the row and its copy stay.
LEMMA OthersProgress ==
    ASSUME Inv, NEW r \in Requests, NEW q \in Requests, q # r, pc[r] \in Open,
           pc'[q] = pc[q], op'[q] = op[q], poisoned'[q] = poisoned[q],
           posted'[q] = posted[q], told'[q] = told[q],
           room.marks \subseteq room'.marks
    PROVE  Progress(q)'
  <1>1. pc[q] \notin Open
    BY DEF Inv, Locked
  <1> QED BY <1>1 DEF Inv, Progress, Quiet, Open

LEMMA AuditStep ==
    ASSUME Inv, NEW r \in Requests, Audit(r) \/ Assign(r) \/ Answer(r)
    PROVE  Inv'
  <1> USE DEF Inv
  <1>1. /\ pc[r] \in Open /\ pc'[r] \in Open
        /\ pc' = [pc EXCEPT ![r] = pc'[r]]
        /\ UNCHANGED <<room, lock, draft, op, posted, told>>
        /\ \A q \in Requests : q # r => poisoned'[q] = poisoned[q]
    BY DEF TypeOK, Audit, Assign, Answer, Open, rowVars
  <1>2. TypeOK'
    <2>1. UNCHANGED <<now, pollVars>>
      BY DEF Audit, Assign, Answer
    <2>2. poisoned' \in [Requests -> BOOLEAN]
      BY DEF TypeOK, Audit, Assign, Answer
    <2>3. answered' \in [Requests -> BOOLEAN]
      BY DEF TypeOK, Audit, Assign, Answer
    <2>4. pc' \in [Requests -> {"idle", "committed", "undone"} \cup Open]
      BY <1>1 DEF TypeOK
    <2> QED BY <1>1, <2>1, <2>2, <2>3, <2>4 DEF TypeOK, pollVars
  <1>3. Locked' /\ Absent'
    BY <1>1 DEF TypeOK, Locked, Absent, Audit, Assign, Answer, Open, pollVars
  <1>4. ASSUME NEW q \in Requests PROVE Progress(q)'
    <2>1. CASE q # r
      BY <1>1, <2>1, OthersProgress DEF TypeOK
    <2>2. CASE q = r
      BY <2>2, <1>1, Marks DEF TypeOK, Progress, Quiet, Claimed, Audit, Assign, Answer, rowVars
    <2> QED BY <2>1, <2>2
  <1>5. OneStandingNotice' /\ NoticeIffMarked'
    BY <1>1 DEF TypeOK, OneStandingNotice, NoticeIffMarked, Open
  <1> QED BY <1>2, <1>3, <1>4, <1>5

LEMMA ClaimStep ==
    ASSUME Inv, NEW r \in Requests, Claim(r)
    PROVE  Inv'
  <1> USE DEF Inv
  <1>1. /\ pc[r] = "claim" /\ ~poisoned[r] /\ Quiet(r)
        /\ op[r] \in Notifying /\ draft.marks = room.marks
    BY DEF Claim, Progress
  <1>2. /\ draft'.marks = draft.marks \cup {Mark[op[r]]}
        /\ draft'.status = draft.status /\ draft' \in Rows
    BY <1>1, Marks DEF TypeOK, Claim, Rows
  <1>3. /\ pc' = [pc EXCEPT ![r] = pc'[r]] /\ pc'[r] \in Open
        /\ pc'[r] = IF Mark[op[r]] \in draft.marks THEN "answer" ELSE "fanout"
        /\ UNCHANGED <<room, lock, now, op, poisoned, posted, told, answered, pollVars>>
    BY DEF TypeOK, Claim, Open
  <1>4. TypeOK'
    BY <1>2, <1>3 DEF TypeOK, pollVars
  <1>5. Locked' /\ Absent'
    BY <1>1, <1>2, <1>3 DEF TypeOK, Locked, Absent, Open, pollVars
  <1>6. ASSUME NEW q \in Requests PROVE Progress(q)'
    <2>1. CASE q # r
      BY <1>1, <1>3, <2>1, OthersProgress DEF TypeOK, Open
    <2>2. CASE q = r
      BY <2>2, <1>1, <1>2, <1>3 DEF Progress, Quiet, Claimed
    <2> QED BY <2>1, <2>2
  <1>7. OneStandingNotice' /\ NoticeIffMarked'
    BY <1>1, <1>3 DEF TypeOK, OneStandingNotice, NoticeIffMarked, Open
  <1> QED BY <1>4, <1>5, <1>6, <1>7

LEMMA FanOutStep ==
    ASSUME Inv, NEW r \in Requests, FanOut(r)
    PROVE  Inv'
  <1> USE DEF Inv
  <1>1. pc[r] = "fanout" /\ Claimed(r) /\ Quiet(r)
    BY DEF FanOut, Progress
  <1>2. /\ pc' = [pc EXCEPT ![r] = "answer"]
        /\ UNCHANGED <<room, lock, draft, now, op, answered, pollVars>>
    BY DEF FanOut, rowVars
  <1>3. PICK fails \in BOOLEAN, mailed \in BOOLEAN :
          /\ posted' = [posted EXCEPT ![r] = ~fails]
          /\ poisoned' = [poisoned EXCEPT ![r] = fails]
          /\ told' = [told EXCEPT ![r] = mailed]
    BY DEF FanOut
  <1>4. TypeOK'
    <2>1. posted' \in [Requests -> BOOLEAN] /\ poisoned' \in [Requests -> BOOLEAN]
      BY <1>3 DEF TypeOK
    <2>2. told' \in [Requests -> BOOLEAN]
      BY <1>3 DEF TypeOK
    <2>3. pc' \in [Requests -> {"idle", "committed", "undone"} \cup Open]
      BY <1>2 DEF TypeOK, Open
    <2> QED BY <1>2, <2>1, <2>2, <2>3 DEF TypeOK, pollVars
  <1>5. Locked' /\ Absent'
    BY <1>1, <1>2 DEF TypeOK, Locked, Absent, Open, pollVars
  <1>6. ASSUME NEW q \in Requests PROVE Progress(q)'
    <2>1. CASE q # r
      BY <1>1, <1>2, <1>3, <2>1, OthersProgress DEF TypeOK, Open
    <2>2. CASE q = r
      <3>1. posted'[r] \/ poisoned'[r]
        BY <1>3 DEF TypeOK
      <3>2. Claimed(r)' /\ pc'[r] = "answer"
        BY <1>1, <1>2 DEF TypeOK, Claimed
      <3> QED BY <2>2, <3>1, <3>2 DEF Progress
    <2> QED BY <2>1, <2>2
  <1>7. ASSUME NEW q \in Requests, q # r, told[q], op[q] = op[r], pc[q] # "undone"
        PROVE  FALSE
    <2>1. pc[q] \notin Open
      BY <1>1, <1>7 DEF Locked, Open
    <2>2. pc[q] = "committed"
      BY <1>7, <2>1 DEF TypeOK, Progress, Quiet
    <2> QED BY <1>1, <1>7, <2>2 DEF Progress, Quiet, Claimed
  <1>8. OneStandingNotice'
    <2> SUFFICES ASSUME NEW r1 \in Requests, NEW r2 \in Requests,
                        told'[r1], told'[r2], op[r1] = op[r2],
                        pc'[r1] # "undone", pc'[r2] # "undone", r1 # r2
                 PROVE  FALSE
      BY <1>2 DEF OneStandingNotice
    <2>1. CASE r1 # r /\ r2 # r
      BY <1>2, <1>3, <2>1 DEF TypeOK, OneStandingNotice
    <2>2. CASE r1 = r
      BY <1>2, <1>3, <1>7, <2>2 DEF TypeOK
    <2>3. CASE r2 = r
      BY <1>2, <1>3, <1>7, <2>3 DEF TypeOK
    <2> QED BY <2>1, <2>2, <2>3
  <1>9. NoticeIffMarked'
    <2>1. \A q \in Requests : pc'[q] = "committed" <=> pc[q] = "committed"
      BY <1>1, <1>2 DEF TypeOK
    <2>2. \A q \in Requests : pc[q] = "committed" => posted'[q] = posted[q]
      BY <1>1, <1>3 DEF TypeOK
    <2> QED BY <1>2, <2>1, <2>2 DEF NoticeIffMarked
  <1> QED BY <1>4, <1>5, <1>6, <1>8, <1>9

LEMMA CommitStep ==
    ASSUME Inv, NEW r \in Requests, Commit(r)
    PROVE  Inv'
  <1> USE DEF Inv
  <1>1. /\ pc[r] = "answered" /\ ~poisoned[r]
        /\ lock' = {} /\ room' = draft /\ draft' = NoRoom
        /\ pc' = [pc EXCEPT ![r] = "committed"]
        /\ UNCHANGED <<now, op, poisoned, posted, told, answered, pollVars>>
    BY DEF Commit
  <1>2. \/ Quiet(r) /\ draft.marks = room.marks
        \/ Claimed(r) /\ posted[r]
    BY <1>1 DEF Progress
  <1>3. room.marks \subseteq room'.marks /\ draft.status # "absent"
    BY <1>1, <1>2 DEF Claimed, Locked, Open
  <1>4. \A q \in Requests : q # r => pc[q] \notin Open
    BY <1>1 DEF Locked, Open
  <1>5. TypeOK'
    BY <1>1, NoRoomType DEF TypeOK, pollVars
  <1>6. Locked'
    BY <1>1, <1>4 DEF TypeOK, Locked, Open
  <1>7. Absent'
    BY <1>1, <1>3 DEF Absent, pollVars
  <1>8. ASSUME NEW q \in Requests PROVE Progress(q)'
    <2>1. CASE q # r
      BY <1>1, <1>3, <2>1, OthersProgress DEF TypeOK, Open
    <2>2. CASE q = r
      BY <1>1, <1>2, <2>2 DEF TypeOK, Progress, Quiet, Claimed
    <2> QED BY <2>1, <2>2
  <1>9. OneStandingNotice'
    BY <1>1 DEF TypeOK, OneStandingNotice
  <1>10. NoticeIffMarked'
    <2> SUFFICES ASSUME NEW o \in Notifying
                 PROVE  LET announced == \E q \in Requests :
                              op[q] = o /\ posted[q] /\ pc'[q] = "committed" IN
                        /\ announced => Mark[o] \in draft.marks
                        /\ o # "cancel" => (Mark[o] \in draft.marks => announced)
      BY <1>1 DEF NoticeIffMarked
    <2>1. \A q \in Requests : pc'[q] = "committed" <=> q = r \/ pc[q] = "committed"
      BY <1>1 DEF TypeOK
    <2>2. ASSUME NEW q \in Requests, op[q] = o, posted[q], pc'[q] = "committed"
          PROVE  Mark[o] \in draft.marks
      <3>1. CASE q = r
        BY <1>2, <2>2, <3>1 DEF Quiet, Claimed
      <3>2. CASE q # r
        BY <1>1, <1>3, <2>1, <2>2, <3>2 DEF NoticeIffMarked
      <3> QED BY <3>1, <3>2
    <2>3. ASSUME o # "cancel", Mark[o] \in draft.marks
          PROVE  \E q \in Requests : op[q] = o /\ posted[q] /\ pc'[q] = "committed"
      <3>1. CASE Mark[o] \in room.marks
        BY <2>1, <2>3, <3>1 DEF NoticeIffMarked
      <3>2. CASE Mark[o] \notin room.marks
        <4>1. Claimed(r) /\ posted[r] /\ Mark[o] = Mark[op[r]]
          BY <1>2, <2>3, <3>2 DEF Claimed
        <4>2. op[r] = o
          BY <4>1, Marks DEF Claimed
        <4> QED BY <2>1, <4>1, <4>2
      <3> QED BY <3>1, <3>2
    <2> QED BY <2>2, <2>3
  <1> QED BY <1>5, <1>6, <1>7, <1>8, <1>9, <1>10

LEMMA RollBackStep ==
    ASSUME Inv, NEW r \in Requests, RollBack(r)
    PROVE  Inv'
  <1> USE DEF Inv
  <1>1. /\ pc[r] \in Open
        /\ lock' = {} /\ draft' = NoRoom
        /\ pc' = [pc EXCEPT ![r] = "undone"]
        /\ poisoned' = [poisoned EXCEPT ![r] = FALSE]
        /\ UNCHANGED <<room, now, op, posted, told, answered, pollVars>>
    BY DEF RollBack
  <1>2. \A q \in Requests : q # r => pc[q] \notin Open
    BY <1>1 DEF Locked
  <1>3. TypeOK'
    BY <1>1, NoRoomType DEF TypeOK, pollVars
  <1>4. Locked' /\ Absent'
    BY <1>1, <1>2 DEF TypeOK, Locked, Absent, Open, pollVars
  <1>5. ASSUME NEW q \in Requests PROVE Progress(q)'
    <2>1. CASE q # r
      BY <1>1, <2>1, OthersProgress DEF TypeOK
    <2>2. CASE q = r
      BY <1>1, <2>2 DEF TypeOK, Progress
    <2> QED BY <2>1, <2>2
  <1>6. OneStandingNotice' /\ NoticeIffMarked'
    BY <1>1 DEF TypeOK, OneStandingNotice, NoticeIffMarked, Open
  <1> QED BY <1>3, <1>4, <1>5, <1>6

-----------------------------------------------------------------------------
(* The poll, the clock and the Redis lock.                                    *)

\* The poll's marker is one the requests' notices do not depend on, and it waits
\* for the row lock, so no open transaction has a stale copy of the markers.
LEMMA PollMarkStep ==
    ASSUME Inv, NEW p \in Pollers, PollMark(p)
    PROVE  Inv'
  <1> USE DEF Inv
  <1>1. /\ pollPc[p] = "mark" /\ lock = {}
        /\ room' = [room EXCEPT !.marks = @ \cup {"closed"}]
        /\ pollPc' = [pollPc EXCEPT ![p] = "unlock"]
        /\ UNCHANGED <<lock, draft, now, requestVars, pollLock, expiredTold, unmarked>>
    BY DEF PollMark, GotoPoll
  <1>2. /\ room'.marks = room.marks \cup {"closed"}
        /\ room'.status = room.status /\ room'.status # "absent" /\ room' \in Rows
    BY <1>1 DEF TypeOK, Rows, Absent
  <1>3. TypeOK'
    BY <1>1, <1>2 DEF TypeOK, requestVars
  <1>4. Locked'
    BY <1>1 DEF Locked, requestVars
  <1>5. Absent'
    BY <1>2 DEF Absent
  <1>6. ASSUME NEW q \in Requests PROVE Progress(q)'
    BY <1>1, <1>2 DEF Progress, Quiet, Locked, Open, requestVars
  <1>7. OneStandingNotice'
    BY <1>1 DEF OneStandingNotice, requestVars
  <1>8. NoticeIffMarked'
    <2>1. ASSUME NEW o \in Notifying, o # "cancel" PROVE Mark[o] # "closed"
      BY <2>1, Marks
    <2>2. \A o \in Notifying : o # "cancel" => (Mark[o] \in room'.marks <=> Mark[o] \in room.marks)
      BY <1>2, <2>1
    <2> QED BY <1>1, <1>2, <2>2 DEF NoticeIffMarked, requestVars
  <1> QED BY <1>3, <1>4, <1>5, <1>6, <1>7, <1>8

\* A step that leaves the row and the requests alone keeps the invariant, if it
\* keeps the types and sends no poll after a room that does not exist.
LEMMA QuietStep ==
    ASSUME Inv, TypeOK', UNCHANGED <<rowVars, requestVars>>,
           \A p \in Pollers : pollPc'[p] \in {"notify", "mark"} => room.status # "absent"
    PROVE  Inv'
  <1> USE DEF Inv, rowVars, requestVars
  <1>1. Locked'
    BY DEF Locked
  <1>2. Absent'
    BY DEF Absent
  <1>3. \A r \in Requests : Progress(r)'
    BY DEF Progress, Quiet, Claimed
  <1>4. OneStandingNotice' /\ NoticeIffMarked'
    BY DEF OneStandingNotice, NoticeIffMarked
  <1> QED BY <1>1, <1>2, <1>3, <1>4

LEMMA PollStepKeeps ==
    ASSUME Inv, NEW p \in Pollers,
           PollStart(p) \/ PollSelect(p) \/ PollNotify(p) \/ PollMarkFails(p)
             \/ PollUnlock(p) \/ PollStops(p)
    PROVE  Inv'
  <1> DEFINE Places == {"idle", "select", "notify", "mark", "unlock"}
  <1>1. /\ UNCHANGED <<rowVars, now, requestVars>>
        /\ \E step \in Places : /\ pollPc' = [pollPc EXCEPT ![p] = step]
                                /\ step \in {"notify", "mark"} => room.status # "absent"
    BY DEF Inv, Absent, GotoPoll, PollStart, PollSelect, PollNotify, PollMarkFails,
           PollUnlock, PollStops, Expired, Visible
  <1>2. TypeOK'
    <2>1. pollPc' \in [Pollers -> Places]
      BY <1>1 DEF Inv, TypeOK
    <2>2. pollLock' \subseteq Pollers
      BY DEF Inv, TypeOK, PollStart, PollSelect, PollNotify, PollMarkFails, PollUnlock, PollStops
    <2>3. expiredTold' \in 0..2
      BY DEF Inv, TypeOK, PollStart, PollSelect, PollNotify, PollMarkFails, PollUnlock, PollStops
    <2>4. unmarked' \in BOOLEAN
      BY DEF Inv, TypeOK, PollStart, PollSelect, PollNotify, PollMarkFails, PollUnlock, PollStops
    <2> QED BY <1>1, <2>1, <2>2, <2>3, <2>4 DEF Inv, TypeOK, rowVars, requestVars
  <1>3. \A q \in Pollers : pollPc'[q] \in {"notify", "mark"} => room.status # "absent"
    BY <1>1 DEF Inv, TypeOK, Absent
  <1> QED BY <1>1, <1>2, <1>3, QuietStep

LEMMA IdleStep ==
    ASSUME Inv, LockExpires \/ TimePasses \/ UNCHANGED vars
    PROVE  Inv'
  <1>1. UNCHANGED <<rowVars, requestVars, pollPc>>
    BY DEF LockExpires, TimePasses, vars, pollVars
  <1>2. TypeOK'
    <2>1. now' \in Times
      BY RoomAssumption DEF Inv, TypeOK, Times, LockExpires, TimePasses, vars
    <2>2. pollLock' \subseteq Pollers /\ UNCHANGED <<expiredTold, unmarked>>
      BY DEF Inv, TypeOK, LockExpires, TimePasses, vars, pollVars
    <2> QED BY <1>1, <2>1, <2>2 DEF Inv, TypeOK, rowVars, requestVars
  <1> QED BY <1>1, <1>2, QuietStep DEF Inv, Absent

-----------------------------------------------------------------------------
LEMMA InvStep == Inv /\ [Next]_vars => Inv'
  <1> SUFFICES ASSUME Inv, [Next]_vars PROVE Inv'
    OBVIOUS
  <1>1. ASSUME NEW r \in Requests,
               Create(r) \/ Start(r) \/ Stop(r) \/ Patch(r) \/ Cancel(r) \/ Delete(r)
        PROVE  Inv'
    BY <1>1, BeginStep
  <1>2. ASSUME NEW r \in Requests, RequestStep(r) PROVE Inv'
    BY <1>2, AuditStep, ClaimStep, FanOutStep, CommitStep, RollBackStep DEF RequestStep
  <1>3. ASSUME NEW p \in Pollers, PollStart(p) \/ PollStep(p) \/ PollStops(p) PROVE Inv'
    BY <1>3, PollMarkStep, PollStepKeeps DEF PollStep
  <1>4. CASE LockExpires \/ TimePasses \/ UNCHANGED vars
    BY <1>4, IdleStep
  <1> QED BY <1>1, <1>2, <1>3, <1>4 DEF Next

LEMMA Invariant == Spec => []Inv
  BY InitInv, InvStep, PTL DEF Spec

\* Every state is well typed.
THEOREM TypeCorrect == Spec => []TypeOK
  <1>1. Inv => TypeOK
    BY DEF Inv
  <1> QED BY <1>1, Invariant, PTL

\* However many requests start, stop or cancel a room, and however they interleave
\* and fail: of those that emailed one kind of notice at most one is not rolled back.
THEOREM OneNotice == Spec => []OneStandingNotice
  <1>1. Inv => OneStandingNotice
    BY DEF Inv
  <1> QED BY <1>1, Invariant, PTL

\* A marker column is set exactly when the in-app notice it stands for was posted.
THEOREM MarkedAndPosted == Spec => []NoticeIffMarked
  <1>1. Inv => NoticeIffMarked
    BY DEF Inv
  <1> QED BY <1>1, Invariant, PTL

\* A deleted room stays as it was deleted: the row lock is taken on a visible room
\* and held until COMMIT, so no request that began earlier commits after deletion.
THEOREM DeletedFrozen == Spec => DeletedIsFrozen
  <1> DEFINE Frozen == room.deleted => room' \in {room, [room EXCEPT !.marks = @ \cup {"closed"}]}
  <1>1. Inv /\ [Next]_vars => [Frozen]_vars
    <2> SUFFICES ASSUME Inv, Next, room.deleted PROVE Frozen
      OBVIOUS
    <2>1. ASSUME NEW r \in Requests PROVE ~Commit(r)
      BY DEF Inv, Locked, Open, Commit
    <2>2. ASSUME NEW r \in Requests, RequestStep(r) PROVE room' = room
      BY <2>1, <2>2 DEF RequestStep, Audit, Assign, Claim, FanOut, Answer, RollBack, rowVars
    <2>3. ASSUME NEW r \in Requests,
                 Create(r) \/ Start(r) \/ Stop(r) \/ Patch(r) \/ Cancel(r) \/ Delete(r)
          PROVE  room' = room
      BY <2>3 DEF Create, Start, Stop, Patch, Cancel, Delete, Write
    <2>4. ASSUME NEW p \in Pollers, PollStart(p) \/ PollStep(p) \/ PollStops(p) PROVE Frozen
      BY <2>4 DEF PollStart, PollStep, PollStops, PollSelect, PollNotify, PollMark,
                  PollMarkFails, PollUnlock, rowVars
    <2>5. CASE LockExpires \/ TimePasses
      BY <2>5 DEF LockExpires, TimePasses, rowVars
    <2> QED BY <2>2, <2>3, <2>4, <2>5 DEF Next
  <1> QED BY <1>1, Invariant, PTL DEF Spec, DeletedIsFrozen

-----------------------------------------------------------------------------
(* The expiry poll, when no poll outlasts its Redis lock.                     *)

\* A poll under way holds the lock alone.  While no poll has failed to record
\* what it told, the member is told at most once, never before a poll that is
\* about to notify, and the marker is set or about to be.
AloneOnLock == \A p \in Pollers : pollPc[p] # "idle" => pollLock = {p}

Recorded ==
    /\ expiredTold <= 1
    /\ \A p \in Pollers : pollPc[p] = "notify" => expiredTold = 0
    /\ expiredTold > 0 =>
         "closed" \in room.marks \/ \E p \in Pollers : pollPc[p] = "mark"

PollInv == AloneOnLock /\ (unmarked \/ Recorded)

\* No step takes a marker away.
LEMMA MarksGrow ==
    ASSUME Inv, [Next]_vars
    PROVE  room.marks \subseteq room'.marks
  <1>1. ASSUME NEW r \in Requests, Commit(r) PROVE room.marks \subseteq room'.marks
    BY <1>1 DEF Inv, Commit, Progress, Claimed
  <1>2. ASSUME NEW r \in Requests, RequestStep(r), ~Commit(r) PROVE room' = room
    BY <1>2 DEF RequestStep, Audit, Assign, Claim, FanOut, Answer, RollBack, rowVars
  <1>3. ASSUME NEW r \in Requests,
               Create(r) \/ Start(r) \/ Stop(r) \/ Patch(r) \/ Cancel(r) \/ Delete(r)
        PROVE  room' = room
    BY <1>3 DEF Create, Start, Stop, Patch, Cancel, Delete, Write
  <1>4. ASSUME NEW p \in Pollers, PollMark(p) PROVE room.marks \subseteq room'.marks
    <2>1. room \in Rows /\ room' = [room EXCEPT !.marks = @ \cup {"closed"}]
      BY <1>4 DEF Inv, TypeOK, PollMark
    <2> QED BY <2>1 DEF Rows
  <1>5. ASSUME NEW p \in Pollers, PollStart(p) \/ PollStep(p) \/ PollStops(p), ~PollMark(p)
        PROVE  room' = room
    BY <1>5 DEF PollStart, PollStep, PollStops, PollSelect, PollNotify,
                PollMarkFails, PollUnlock, rowVars
  <1>6. CASE LockExpires \/ TimePasses \/ UNCHANGED vars
    BY <1>6 DEF LockExpires, TimePasses, vars, rowVars
  <1> QED BY <1>1, <1>2, <1>3, <1>4, <1>5, <1>6 DEF Next

\* A poll under way is the only one, and it is alone in moving.
LEMMA OnePoll ==
    ASSUME Inv, PollInv, NEW p \in Pollers, pollPc[p] # "idle"
    PROVE  pollLock = {p} /\ \A q \in Pollers : q # p => pollPc[q] = "idle"
  BY DEF PollInv, AloneOnLock

LEMMA PollSteps ==
    ASSUME Inv, PollInv, [Next]_vars, NEW p \in Pollers,
           PollStart(p) \/ PollStep(p) \/ PollStops(p)
    PROVE  PollInv'
  <1> USE DEF Inv, TypeOK
  <1>1. room.marks \subseteq room'.marks
    BY MarksGrow
  <1>2. CASE PollStart(p)
    <2>1. /\ \A q \in Pollers : pollPc[q] = "idle"
          /\ pollLock' = {p} /\ pollPc' = [pollPc EXCEPT ![p] = "select"]
          /\ UNCHANGED <<room, expiredTold, unmarked>>
      BY <1>2 DEF PollStart, GotoPoll, PollInv, AloneOnLock, rowVars
    <2> QED BY <2>1 DEF PollInv, AloneOnLock, Recorded
  <1>3. CASE PollSelect(p)
    <2>1. /\ pollPc[p] = "select" /\ UNCHANGED <<room, pollLock, expiredTold, unmarked>>
          /\ pollPc' = [pollPc EXCEPT ![p] = IF Expired THEN "notify" ELSE "unlock"]
      BY <1>3 DEF PollSelect, GotoPoll, rowVars
    <2>2. pollLock = {p} /\ \A q \in Pollers : q # p => pollPc[q] = "idle"
      BY <2>1, OnePoll
    <2>3. AloneOnLock'
      BY <2>1, <2>2 DEF AloneOnLock
    <2>4. ASSUME ~unmarked PROVE Recorded'
      <3>1. Expired => expiredTold = 0
        BY <2>1, <2>2, <2>4 DEF PollInv, Recorded, Expired
      <3>2. expiredTold <= 1 /\ (expiredTold > 0 => "closed" \in room.marks)
        BY <2>1, <2>2, <2>4 DEF PollInv, Recorded
      <3> QED BY <2>1, <2>2, <3>1, <3>2 DEF Recorded
    <2> QED BY <2>1, <2>3, <2>4 DEF PollInv
  <1>4. CASE PollNotify(p)
    <2>1. pollPc[p] = "notify" /\ UNCHANGED <<room, pollLock>>
      BY <1>4 DEF PollNotify, rowVars
    <2>2. PICK mailed, anyone, throws \in BOOLEAN :
            /\ mailed => anyone
            /\ expiredTold' = IF mailed /\ expiredTold < 2 THEN expiredTold + 1 ELSE expiredTold
            /\ unmarked' = (unmarked \/ (anyone /\ throws))
            /\ pollPc' = [pollPc EXCEPT ![p] = IF anyone /\ ~throws THEN "mark" ELSE "unlock"]
      BY <1>4 DEF PollNotify, GotoPoll
    <2>3. pollLock = {p} /\ \A q \in Pollers : q # p => pollPc[q] = "idle"
      BY <2>1, OnePoll
    <2>4. AloneOnLock'
      BY <2>1, <2>2, <2>3 DEF AloneOnLock
    <2>5. ASSUME ~unmarked' PROVE Recorded'
      <3>1. ~unmarked /\ ~(anyone /\ throws)
        BY <2>2, <2>5
      <3>2. expiredTold = 0
        BY <2>1, <3>1 DEF PollInv, Recorded
      <3>3. expiredTold' <= 1 /\ (expiredTold' > 0 => pollPc'[p] = "mark")
        BY <2>2, <3>1, <3>2
      <3>4. \A q \in Pollers : pollPc'[q] # "notify"
        BY <2>2, <2>3
      <3> QED BY <3>3, <3>4 DEF Recorded
    <2> QED BY <2>4, <2>5 DEF PollInv
  <1>5. CASE PollMark(p)
    <2>1. /\ pollPc[p] = "mark" /\ UNCHANGED <<pollLock, expiredTold, unmarked>>
          /\ pollPc' = [pollPc EXCEPT ![p] = "unlock"]
          /\ "closed" \in room'.marks
      BY <1>5 DEF PollMark, GotoPoll, Rows
    <2>2. pollLock = {p} /\ \A q \in Pollers : q # p => pollPc[q] = "idle"
      BY <2>1, OnePoll
    <2> QED BY <2>1, <2>2 DEF PollInv, AloneOnLock, Recorded
  <1>6. CASE PollMarkFails(p)
    <2>1. /\ pollPc[p] = "mark" /\ UNCHANGED pollLock /\ unmarked'
          /\ pollPc' = [pollPc EXCEPT ![p] = "unlock"]
      BY <1>6 DEF PollMarkFails, GotoPoll
    <2> QED BY <2>1 DEF PollInv, AloneOnLock
  <1>7. CASE PollUnlock(p) \/ PollStops(p)
    <2>1. /\ pollPc[p] # "idle" /\ UNCHANGED <<room, expiredTold>>
          /\ pollPc' = [pollPc EXCEPT ![p] = "idle"]
          /\ unmarked' = (unmarked \/ pollPc[p] = "mark")
      BY <1>7 DEF PollUnlock, PollStops, GotoPoll, rowVars
    <2>2. \A q \in Pollers : pollPc'[q] = "idle"
      BY <2>1, OnePoll
    <2>3. ASSUME ~unmarked' PROVE Recorded'
      <3>1. ~unmarked /\ \A q \in Pollers : pollPc[q] # "mark"
        BY <2>1, <2>3, OnePoll
      <3>2. expiredTold <= 1 /\ (expiredTold > 0 => "closed" \in room.marks)
        BY <3>1 DEF PollInv, Recorded
      <3> QED BY <2>1, <2>2, <3>2 DEF Recorded
    <2> QED BY <2>2, <2>3 DEF PollInv, AloneOnLock
  <1> QED BY <1>2, <1>3, <1>4, <1>5, <1>6, <1>7 DEF PollStep

LEMMA OtherSteps ==
    ASSUME Inv, PollInv, [Next]_vars, ~PollsOutliveLock,
           UNCHANGED pollVars \/ LockExpires
    PROVE  PollInv'
  <1>1. room.marks \subseteq room'.marks
    BY MarksGrow
  <1>2. CASE UNCHANGED pollVars
    BY <1>1, <1>2 DEF pollVars, PollInv, AloneOnLock, Recorded
  <1>3. CASE LockExpires
    <2>1. /\ \A p \in Pollers : pollPc[p] = "idle"
          /\ UNCHANGED <<pollPc, expiredTold, unmarked>>
      BY <1>3 DEF LockExpires, PollInv, AloneOnLock
    <2> QED BY <1>1, <2>1 DEF PollInv, AloneOnLock, Recorded
  <1> QED BY <1>2, <1>3

\* When a Redis lock outlives the poll that set it, the member is told a second
\* time that the event did not take place only if some poll that told somebody
\* threw, stopped, or failed to set the marker; whatever the requests do meanwhile.
THEOREM ToldOnceUnlessUnmarked ==
    ASSUME ~PollsOutliveLock
    PROVE  Spec => []ExpiryRetoldOnlyIfUnmarked
  <1>1. Init => PollInv
    BY DEF Init, PollInv, AloneOnLock, Recorded
  <1>2. Inv /\ PollInv /\ [Next]_vars => PollInv'
    <2> SUFFICES ASSUME Inv, PollInv, [Next]_vars PROVE PollInv'
      OBVIOUS
    <2>1. ASSUME NEW p \in Pollers, PollStart(p) \/ PollStep(p) \/ PollStops(p) PROVE PollInv'
      BY <2>1, PollSteps
    <2>2. ASSUME NEW r \in Requests,
                 Create(r) \/ Start(r) \/ Stop(r) \/ Patch(r) \/ Cancel(r) \/ Delete(r)
          PROVE  UNCHANGED pollVars
      BY <2>2 DEF Create, Start, Stop, Patch, Cancel, Delete, Write
    <2>3. ASSUME NEW r \in Requests, RequestStep(r) PROVE UNCHANGED pollVars
      BY <2>3 DEF RequestStep, Audit, Assign, Claim, FanOut, Answer, Commit, RollBack
    <2>4. ASSUME TimePasses \/ UNCHANGED vars PROVE UNCHANGED pollVars
      BY <2>4 DEF TimePasses, vars
    <2>5. UNCHANGED pollVars \/ LockExpires => PollInv'
      BY OtherSteps
    <2> QED BY <2>1, <2>2, <2>3, <2>4, <2>5 DEF Next
  <1>3. PollInv /\ Inv => ExpiryRetoldOnlyIfUnmarked
    BY DEF PollInv, Recorded, ExpiryRetoldOnlyIfUnmarked
  <1> QED BY <1>1, <1>2, <1>3, Invariant, PTL DEF Spec
=============================================================================
