------------------------ MODULE Attendance_proofs ------------------------
(* The invariants of Attendance hold for any number of pages, submissions,    *)
(* requests that end the room and form saves, and any windows.                *)
EXTENDS Attendance, TLAPS

Entered(q) == request[q].step \in {"checked", "answered", "committed"}

\* A time that an entry of the room, ended or cancelled, may bear.
InLimit(t) == t <= endedAt \/ t <= room.end + widest

\* What the clock, the room's end and the requests that read it say of each other.  A
\* request that read the room before its last end began before the COMMIT of that end.
TimeInv ==
    /\ room.status \in Final => room.end \in Times /\ room.window.after <= widest
    /\ \A q \in Requests :
         /\ request[q].begun <= now
         /\ room.status \in Final =>
              /\ request[q].step = "read" =>
                    \/ request[q].begun <= endedAt
                    \/ \A t \in request[q].open : t <= room.end + widest
              /\ Entered(q) => InLimit(request[q].begun)

\* A page waits for one request; it forgot every other one of its draft.
WaitInv ==
    \A d \in Drafts :
        /\ \A q1, q2 \in Requests :
             /\ request[q1].draft = d /\ ~request[q1].lost
             /\ request[q2].draft = d /\ ~request[q2].lost
             => q1 = q2
        /\ page[d] \notin {"waiting", "submitted"} =>
             \A q \in Requests : request[q].draft = d => request[q].lost

\* What an answer says of the transaction behind it.
AnswerInv ==
    \A q \in Requests : request[q].answered =>
        /\ request[q].step \in {"answered", "committed", "undone"}
        /\ request[q].step = "undone" => request[q].spoiled \/ ServerStops

\* A save inserts the version after the newest one, and alone.
SaveInv ==
    /\ Newest(forms) \in Nat
    /\ FormVersionsStand
    /\ \A e \in Editors :
         /\ save[e].step = "insert" => save[e].version <= Newest(forms) + 1
         /\ save[e].step \in {"inserted", "answered"} => save[e].version = Newest(forms) + 1
    /\ \A e1, e2 \in Editors :
         /\ save[e1].step \in {"inserted", "answered"}
         /\ save[e2].step \in {"inserted", "answered"}
         => e1 = e2

IInv == TypeOK /\ TimeInv /\ WaitInv /\ AnswerInv /\ SubmittedIsKept /\ SaveInv

-----------------------------------------------------------------------------
(* Which part of the state the steps of each part leave alone.                *)

LocalStep(d) == \/ Load(d) \/ FillIn(d) \/ Submit(d) \/ PhotoUploaded(d) \/ PhotoFails(d)
                \/ SavingFails(d) \/ SaveOffline(d)
FormStep(e) == SaveReadsLatest(e) \/ SaveStep(e)
NetStep(d, q) == Send(d, q) \/ HearSuccess(d, q) \/ HearError(d, q) \/ GiveUp(d, q)

LEMMA NextIs ==
  Next => \/ RoomStep
          \/ \E e \in Editors : FormStep(e)
          \/ \E d \in Drafts : LocalStep(d)
          \/ \E d \in Drafts, q \in Requests : NetStep(d, q)
          \/ \E q \in Requests : RequestStep(q)
          \/ Synchronise
BY DEF Next, FormStep, LocalStep, NetStep, PageStep

LEMMA RoomFrame == RoomStep => UNCHANGED <<formVars, pageVars>>
BY DEF RoomStep, TimePasses, StartOrReschedule, MoveWindow, ReadClock, CommitEnd, EndFails

LEMMA FormFrame ==
  ASSUME NEW e \in Editors, FormStep(e)
  PROVE  UNCHANGED <<now, roomVars, pageVars>>
BY DEF FormStep, SaveStep, SaveReadsLatest, SaveInserts, SaveFails, SaveAnswers, SaveCommits

LEMMA LocalFrame ==
  ASSUME NEW d \in Drafts, LocalStep(d)
  PROVE  UNCHANGED <<now, roomVars, formVars, request>>
BY DEF LocalStep, Load, FillIn, Submit, PhotoUploaded, PhotoFails, SavingFails, SaveOffline,
       pageVars

LEMMA NetFrame ==
  ASSUME NEW d \in Drafts, NEW q \in Requests, NetStep(d, q)
  PROVE  UNCHANGED <<now, roomVars, formVars, store>>
BY DEF NetStep, Send, HearSuccess, HearError, GiveUp

LEMMA RequestFrame ==
  ASSUME NEW q \in Requests, RequestStep(q)
  PROVE  UNCHANGED <<now, roomVars, formVars, page, store>>
BY DEF RequestStep, ReadRoom, CheckWindow, InsertAndAnswer, Commit, RollBack

LEMMA SyncFrame == Synchronise => UNCHANGED <<now, roomVars, formVars, page, request>>
BY DEF Synchronise

-----------------------------------------------------------------------------
\* The newest of the Kept newest versions is the last.
LEMMA NewestOfTop ==
  ASSUME NEW n \in Nat
  PROVE  Newest({v \in 1..n : v > n - Kept}) = n
<1> DEFINE T == {v \in 1..n : v > n - Kept}
<1>1. CASE n = 0
  <2>1. T = {}
    BY <1>1
  <2> QED BY <1>1, <2>1 DEF Newest
<1>2. CASE n > 0
  <2>1. n \in T /\ \A w \in T : w <= n
    BY <1>2, AttendanceAssumption
  <2>2. \A v \in T : (\A w \in T : w <= v) => v = n
    BY <2>1
  <2>3. Newest(T) = CHOOSE v \in T : \A w \in T : w <= v
    BY <2>1 DEF Newest
  <2> HIDE DEF T
  <2>4. \E v \in T : \A w \in T : w <= v
    BY <2>1
  <2>5. Newest(T) \in T /\ \A w \in T : w <= Newest(T)
    BY <2>3, <2>4
  <2>6. Newest(T) = n
    BY <2>5, <2>2
  <2> QED BY <2>6 DEF T
<1> QED BY <1>1, <1>2

RequestType ==
    [draft : Drafts \cup {Nobody}, step : {"idle", "committed", "undone"} \cup InTransaction,
     begun : Times, open : SUBSET Times, spoiled : BOOLEAN, answered : BOOLEAN, lost : BOOLEAN]

\* One request changes, within its type.
LEMMA RequestTyped ==
  ASSUME request \in [Requests -> RequestType], NEW q \in Requests, NEW r \in RequestType,
         request' = [request EXCEPT ![q] = r]
  PROVE  request' \in [Requests -> RequestType]
  OBVIOUS

\* The states a behaviour begins in.
LEMMA InitIInv == Init => IInv
<1> SUFFICES ASSUME Init PROVE IInv
  OBVIOUS
<1>1. TypeOK
  BY AttendanceAssumption DEF Init, TypeOK, Times, Rooms, Never, NoRequest, NoSave, Nobody,
     InTransaction
<1>2. TimeInv
  BY AttendanceAssumption DEF Init, TimeInv, NoRequest, Entered, Final
<1>3. WaitInv /\ AnswerInv /\ SubmittedIsKept
  BY AttendanceAssumption DEF Init, WaitInv, AnswerInv, SubmittedIsKept, NoRequest, Nobody
<1>4. SaveInv
  <2>1. \A n \in {0, 1} : {v \in 1..n : v > n - Kept} = (IF n = 0 THEN {} ELSE {1})
    BY AttendanceAssumption
  <2>2. Newest({}) = 0 /\ Newest({1}) = 1
    BY <2>1, NewestOfTop
  <2>3. forms = {v \in 1..Newest(forms) : v > Newest(forms) - Kept} /\ Newest(forms) \in Nat
    <3>1. CASE forms = {}
      BY <3>1, <2>1, <2>2
    <3>2. CASE forms = {1}
      BY <3>2, <2>1, <2>2
    <3> QED BY <3>1, <3>2 DEF Init
  <2> QED BY <2>3 DEF Init, SaveInv, FormVersionsStand, Standing, NoSave
<1> QED BY <1>1, <1>2, <1>3, <1>4 DEF IInv

-----------------------------------------------------------------------------
\* Every step keeps the types.
LEMMA TypeStep ==
  ASSUME TypeOK, SaveInv, Next
  PROVE  TypeOK'
<1> USE AttendanceAssumption DEF Times, Rooms, Never, Final, NoRequest, NoSave, Nobody,
        InTransaction, formVars, roomVars, pageVars
<1>r. request \in [Requests -> RequestType] /\ now \in Times /\ OpenTimes \subseteq Times
  BY DEF TypeOK, RequestType, OpenTimes
<1>1. CASE TimePasses
  BY <1>1, <1>r DEF TypeOK, TimePasses
<1>2. CASE StartOrReschedule
  BY <1>2, <1>r DEF TypeOK, StartOrReschedule
<1>3. CASE MoveWindow
  BY <1>3, <1>r DEF TypeOK, MoveWindow
<1>4. CASE \E x \in Enders : ReadClock(x)
  BY <1>4, <1>r DEF TypeOK, ReadClock
<1>5. CASE \E x \in Enders : CommitEnd(x)
  <2>1. PICK x \in Enders : CommitEnd(x)
    BY <1>5
  <2>2. ending[x] \in Times /\ ending' \in [Enders -> Times \cup {Never}]
    BY <2>1 DEF TypeOK, CommitEnd
  <2>3. PICK s \in Final : room' = [room EXCEPT !.status = s, !.end = ending[x]]
    BY <2>1 DEF CommitEnd
  <2>4. room' \in Rooms
    BY <2>2, <2>3 DEF TypeOK
  <2>5. widest' \in Nat
    BY <2>1 DEF TypeOK, CommitEnd
  <2> QED BY <2>1, <2>2, <2>4, <2>5, <1>r DEF TypeOK, CommitEnd
<1>6. CASE \E x \in Enders : EndFails(x)
  BY <1>6, <1>r DEF TypeOK, EndFails
<1>7. CASE \E e \in Editors : SaveReadsLatest(e)
  BY <1>7, <1>r DEF TypeOK, SaveReadsLatest, SaveInv
<1>8. CASE \E e \in Editors : SaveInserts(e)
  BY <1>8, <1>r DEF TypeOK, SaveInserts, SaveGoes
<1>9. CASE \E e \in Editors : SaveFails(e)
  BY <1>9, <1>r DEF TypeOK, SaveFails, SaveGoes
<1>10. CASE \E e \in Editors : SaveAnswers(e)
  BY <1>10, <1>r DEF TypeOK, SaveAnswers, SaveGoes
<1>11. CASE \E e \in Editors : SaveCommits(e)
  BY <1>11, <1>r DEF TypeOK, SaveCommits, SaveGoes, Stale
<1>12. CASE \E d \in Drafts : Load(d)
  BY <1>12, <1>r DEF TypeOK, Load, PageGoes
<1>13. CASE \E d \in Drafts : FillIn(d)
  BY <1>13, <1>r DEF TypeOK, FillIn, PageGoes
<1>14. CASE \E d \in Drafts : Submit(d)
  BY <1>14, <1>r DEF TypeOK, Submit, PageGoes
<1>15. CASE \E d \in Drafts : PhotoUploaded(d)
  BY <1>15, <1>r DEF TypeOK, PhotoUploaded, PageGoes
<1>16. CASE \E d \in Drafts : PhotoFails(d)
  BY <1>16, <1>r DEF TypeOK, PhotoFails, PageGoes
<1>17. CASE \E d \in Drafts : SavingFails(d)
  BY <1>17, <1>r DEF TypeOK, SavingFails, PageGoes
<1>18. CASE \E d \in Drafts : SaveOffline(d)
  BY <1>18, <1>r DEF TypeOK, SaveOffline, PageGoes, Keep
<1>19. CASE \E d \in Drafts, q \in Requests : HearSuccess(d, q)
  BY <1>19, <1>r DEF TypeOK, HearSuccess, PageGoes
<1>20. CASE \E d \in Drafts, q \in Requests : Send(d, q)
  <2>1. PICK d \in Drafts, q \in Requests : Send(d, q)
    BY <1>20
  <2> DEFINE r == [NoRequest EXCEPT !.draft = d, !.step = "begun", !.begun = now]
  <2>2. r \in RequestType
    BY <1>r DEF RequestType
  <2>3. request' = [request EXCEPT ![q] = r]
    BY <2>1, <1>r DEF Send, PageGoes, RequestType
  <2>4. request' \in [Requests -> RequestType]
    BY <1>r, <2>2, <2>3, RequestTyped
  <2> QED BY <2>1, <2>4 DEF TypeOK, RequestType, Send, PageGoes
<1>21. CASE \E d \in Drafts, q \in Requests : HearError(d, q)
  <2>1. PICK d \in Drafts, q \in Requests : HearError(d, q)
    BY <1>21
  <2> DEFINE r == [request[q] EXCEPT !.lost = TRUE]
  <2>2. r \in RequestType
    BY <1>r DEF RequestType
  <2>3. request' = [request EXCEPT ![q] = r]
    BY <2>1, <1>r DEF HearError, PageGoes, RequestType
  <2>4. request' \in [Requests -> RequestType]
    BY <1>r, <2>2, <2>3, RequestTyped
  <2> QED BY <2>1, <2>4 DEF TypeOK, RequestType, HearError, PageGoes
<1>22. CASE \E d \in Drafts, q \in Requests : GiveUp(d, q)
  <2>1. PICK d \in Drafts, q \in Requests : GiveUp(d, q)
    BY <1>22
  <2> DEFINE r == [request[q] EXCEPT !.lost = TRUE]
  <2>2. r \in RequestType
    BY <1>r DEF RequestType
  <2>3. request' = [request EXCEPT ![q] = r]
    BY <2>1, <1>r DEF GiveUp, PageGoes, RequestType
  <2>4. request' \in [Requests -> RequestType]
    BY <1>r, <2>2, <2>3, RequestTyped
  <2> QED BY <2>1, <2>4 DEF TypeOK, RequestType, GiveUp, PageGoes
<1>23. CASE \E q \in Requests : ReadRoom(q)
  <2>1. PICK q \in Requests : ReadRoom(q)
    BY <1>23
  <2> DEFINE r == [request[q] EXCEPT !.step = "read", !.open = OpenTimes]
  <2>2. r \in RequestType
    BY <1>r DEF RequestType
  <2>3. request' = [request EXCEPT ![q] = r]
    BY <2>1, <1>r DEF ReadRoom, RequestType
  <2>4. request' \in [Requests -> RequestType]
    BY <1>r, <2>2, <2>3, RequestTyped
  <2> QED BY <2>1, <2>4 DEF TypeOK, RequestType, ReadRoom
<1>24. CASE \E q \in Requests : CheckWindow(q)
  <2>1. PICK q \in Requests : CheckWindow(q)
    BY <1>24
  <2> DEFINE r == [request[q] EXCEPT !.step = "checked", !.open = {}]
  <2>2. r \in RequestType
    BY <1>r DEF RequestType
  <2>3. request' = [request EXCEPT ![q] = r]
    BY <2>1, <1>r DEF CheckWindow, RequestType
  <2>4. request' \in [Requests -> RequestType]
    BY <1>r, <2>2, <2>3, RequestTyped
  <2> QED BY <2>1, <2>4 DEF TypeOK, RequestType, CheckWindow
<1>25. CASE \E q \in Requests : Commit(q)
  <2>1. PICK q \in Requests : Commit(q)
    BY <1>25
  <2> DEFINE r == [request[q] EXCEPT !.step = "committed"]
  <2>2. r \in RequestType
    BY <1>r DEF RequestType
  <2>3. request' = [request EXCEPT ![q] = r]
    BY <2>1, <1>r DEF Commit, RequestGoes, RequestType
  <2>4. request' \in [Requests -> RequestType]
    BY <1>r, <2>2, <2>3, RequestTyped
  <2> QED BY <2>1, <2>4 DEF TypeOK, RequestType, Commit, RequestGoes
<1>26. CASE \E q \in Requests : RollBack(q)
  <2>1. PICK q \in Requests : RollBack(q)
    BY <1>26
  <2> DEFINE r == [request[q] EXCEPT !.step = "undone", !.begun = 0, !.open = {}]
  <2>2. r \in RequestType
    <3>1. 0 \in Times
      OBVIOUS
    <3> QED BY <1>r, <3>1 DEF RequestType
  <2>3. request' = [request EXCEPT ![q] = r]
    BY <2>1, <1>r DEF RollBack, RequestType
  <2>4. request' \in [Requests -> RequestType]
    BY <1>r, <2>2, <2>3, RequestTyped
  <2> QED BY <2>1, <2>4 DEF TypeOK, RequestType, RollBack
<1>27. CASE \E q \in Requests : InsertAndAnswer(q)
  <2>1. PICK q \in Requests : InsertAndAnswer(q)
    BY <1>27
  <2>2. PICK b \in BOOLEAN :
          request' = [request EXCEPT ![q].step = "answered", ![q].spoiled = b,
                                     ![q].answered = TRUE]
    BY <2>1 DEF InsertAndAnswer
  <2> DEFINE r == [request[q] EXCEPT !.step = "answered", !.spoiled = b, !.answered = TRUE]
  <2>3. r \in RequestType
    BY <1>r DEF RequestType
  <2>4. request' = [request EXCEPT ![q] = r]
    BY <2>2, <1>r DEF RequestType
  <2>5. request' \in [Requests -> RequestType]
    BY <1>r, <2>3, <2>4, RequestTyped
  <2> QED BY <2>1, <2>5 DEF TypeOK, RequestType, InsertAndAnswer
<1>28. CASE Synchronise
  <2>1. Unsynced \subseteq Drafts
    BY DEF Unsynced
  <2>2. PICK posted \in SUBSET Unsynced :
          /\ synced' = synced \cup {d \in posted : InWindow(room, now)}
          /\ store' = [d \in Drafts |-> IF d \in posted THEN "true" ELSE store[d]]
    BY <1>28 DEF Synchronise
  <2> QED BY <1>28, <2>1, <2>2 DEF TypeOK, Synchronise
<1> QED
  BY <1>1, <1>2, <1>3, <1>4, <1>5, <1>6, <1>7, <1>8, <1>9, <1>10, <1>11, <1>12, <1>13, <1>14,
     <1>15, <1>16, <1>17, <1>18, <1>19, <1>20, <1>21, <1>22, <1>23, <1>24, <1>25, <1>26, <1>27, <1>28
     DEF Next, RoomStep, SaveStep, RequestStep, PageStep

\* Every step keeps the times.
LEMMA TimeStep ==
  ASSUME TypeOK, TimeInv, Next
  PROVE  TimeInv'
<1> USE AttendanceAssumption DEF Times, Rooms, Never, Final, NoRequest, InTransaction, Entered,
        InLimit, roomVars, pageVars
<1>1. CASE UNCHANGED <<now, roomVars, request>>
  BY <1>1 DEF TimeInv
<1>2. CASE RoomStep
  <2>1. request' = request
    BY <1>2, RoomFrame
  <2>2. CASE TimePasses
    BY <2>1, <2>2 DEF TimeInv, TypeOK, TimePasses
  <2>3. CASE StartOrReschedule
    BY <2>1, <2>3 DEF TimeInv, TypeOK, StartOrReschedule
  <2>4. CASE MoveWindow
    <3>1. room.window.after \in Nat /\ room'.window.after \in Nat
      BY <2>4 DEF TypeOK, MoveWindow
    <3>2. /\ room'.status = room.status /\ room'.end = room.end /\ endedAt' = endedAt /\ now' = now
          /\ room.status \in Final => widest' >= widest /\ widest' >= room'.window.after
      BY <2>4, <3>1 DEF TypeOK, MoveWindow
    <3>3. widest \in Nat /\ widest' \in Nat /\ room.end \in Int
      BY <2>4, <3>1 DEF TypeOK, MoveWindow
    <3> QED BY <2>1, <3>1, <3>2, <3>3 DEF TimeInv, TypeOK
  <2>5. CASE \E x \in Enders : ReadClock(x) \/ EndFails(x)
    BY <2>1, <2>5 DEF TimeInv, TypeOK, ReadClock, EndFails
  <2>6. CASE \E x \in Enders : CommitEnd(x)
    BY <2>1, <2>6 DEF TimeInv, TypeOK, CommitEnd
  <2> QED BY <1>2, <2>2, <2>3, <2>4, <2>5, <2>6 DEF RoomStep
<1>3. CASE \E d \in Drafts, q \in Requests : NetStep(d, q)
  <2>1. CASE \E d \in Drafts, q \in Requests : Send(d, q)
    BY <2>1 DEF TimeInv, TypeOK, Send
  <2>2. CASE \E d \in Drafts, q \in Requests : HearSuccess(d, q)
    BY <2>2 DEF TimeInv, HearSuccess
  <2>3. CASE \E d \in Drafts, q \in Requests : HearError(d, q) \/ GiveUp(d, q)
    BY <2>3 DEF TimeInv, TypeOK, HearError, GiveUp
  <2> QED BY <1>3, <2>1, <2>2, <2>3 DEF NetStep
<1>4. CASE \E q \in Requests : ReadRoom(q)
  <2>1. ASSUME room.status \in Final, TimeInv, NEW t \in OpenTimes
        PROVE  t <= room.end + widest
    <3>1. t \in Nat /\ t <= room.end + room.window.after
      BY <2>1 DEF OpenTimes, InWindow
    <3>2. room.end \in Int /\ room.window.after \in Nat /\ widest \in Nat
      BY DEF TypeOK
    <3> QED BY <2>1, <3>1, <3>2 DEF TimeInv
  <2> QED BY <1>4, <2>1 DEF TimeInv, TypeOK, ReadRoom
<1>5. CASE \E q \in Requests : CheckWindow(q)
  BY <1>5 DEF TimeInv, TypeOK, CheckWindow
<1>6. CASE \E q \in Requests : InsertAndAnswer(q)
  BY <1>6 DEF TimeInv, TypeOK, InsertAndAnswer
<1>7. CASE \E q \in Requests : Commit(q)
  BY <1>7 DEF TimeInv, TypeOK, Commit, RequestGoes
<1>8. CASE \E q \in Requests : RollBack(q)
  BY <1>8 DEF TimeInv, TypeOK, RollBack
<1> QED
  BY <1>1, <1>2, <1>3, <1>4, <1>5, <1>6, <1>7, <1>8, NextIs, FormFrame, LocalFrame, SyncFrame
     DEF RequestStep

\* Every step keeps what pages wait for.
LEMMA WaitStep ==
  ASSUME TypeOK, WaitInv, Next
  PROVE  WaitInv'
<1> USE DEF NoRequest, Nobody, InTransaction, pageVars
<1>1. CASE UNCHANGED <<page, request>>
  BY <1>1 DEF WaitInv
<1>2. CASE \E d \in Drafts : LocalStep(d)
  BY <1>2, LocalFrame
     DEF WaitInv, TypeOK, LocalStep, Load, FillIn, Submit, PhotoUploaded, PhotoFails, SavingFails,
         SaveOffline, PageGoes, MayEdit, MaySubmit
<1>3. CASE \E d \in Drafts, q \in Requests : NetStep(d, q)
  <2>1. CASE \E d \in Drafts, q \in Requests : Send(d, q)
    BY <2>1 DEF WaitInv, TypeOK, Send, PageGoes
  <2>2. CASE \E d \in Drafts, q \in Requests : HearSuccess(d, q)
    BY <2>2 DEF WaitInv, TypeOK, HearSuccess, PageGoes
  <2>3. ASSUME NEW d \in Drafts, NEW q \in Requests, HearError(d, q) \/ GiveUp(d, q)
        PROVE  WaitInv'
    <3>1. /\ page[d] = "waiting" /\ request[q].draft = d /\ ~request[q].lost
          /\ \A f \in Drafts : page'[f] = IF f = d THEN "ready" ELSE page[f]
          /\ request' = [request EXCEPT ![q].lost = TRUE]
      BY <2>3 DEF TypeOK, HearError, GiveUp, PageGoes
    <3>2. \A p \in Requests : /\ request'[p].draft = request[p].draft
                              /\ request'[p].lost = IF p = q THEN TRUE ELSE request[p].lost
      BY <3>1 DEF TypeOK
    <3>3. \A p \in Requests : request[p].draft = d /\ p # q => request[p].lost
      BY <3>1 DEF WaitInv
    <3>4. \A p \in Requests : request'[p].draft = d => request'[p].lost
      BY <3>2, <3>3
    <3>5. \A p \in Requests : request[p].lost \in BOOLEAN /\ (request[p].lost => request'[p].lost)
      BY <3>2 DEF TypeOK
    <3>6. \A f \in Drafts : page'[f] \notin {"waiting", "submitted"} =>
                              \A p \in Requests : request'[p].draft = f => request'[p].lost
      <4> SUFFICES ASSUME NEW f \in Drafts, page'[f] \notin {"waiting", "submitted"},
                          NEW p \in Requests, request'[p].draft = f
                   PROVE  request'[p].lost
        OBVIOUS
      <4>1. CASE f = d
        BY <4>1, <3>4
      <4>2. CASE f # d
        BY <4>2, <3>1, <3>2, <3>5 DEF WaitInv
      <4> QED BY <4>1, <4>2
    <3>7. \A f \in Drafts : \A q1, q2 \in Requests :
             /\ request'[q1].draft = f /\ ~request'[q1].lost
             /\ request'[q2].draft = f /\ ~request'[q2].lost
             => q1 = q2
      <4> SUFFICES ASSUME NEW f \in Drafts, NEW q1 \in Requests, NEW q2 \in Requests,
                          request'[q1].draft = f, ~request'[q1].lost,
                          request'[q2].draft = f, ~request'[q2].lost
                   PROVE  q1 = q2
        OBVIOUS
      <4>1. request[q1].draft = f /\ request[q2].draft = f
        BY <3>2
      <4>2. ~request[q1].lost /\ ~request[q2].lost
        BY <3>5
      <4> QED BY <4>1, <4>2 DEF WaitInv
    <3> QED BY <3>6, <3>7 DEF WaitInv
  <2> QED BY <1>3, <2>1, <2>2, <2>3 DEF NetStep
<1>4. CASE \E q \in Requests : RequestStep(q)
  <2>1. \A q \in Requests : request'[q].draft = request[q].draft /\ request'[q].lost = request[q].lost
    <3> PICK q \in Requests : RequestStep(q)
      BY <1>4
    <3>1. CASE ReadRoom(q)
      BY <3>1 DEF TypeOK, ReadRoom
    <3>2. CASE CheckWindow(q)
      BY <3>2 DEF TypeOK, CheckWindow
    <3>3. CASE InsertAndAnswer(q)
      BY <3>3 DEF TypeOK, InsertAndAnswer
    <3>4. CASE Commit(q)
      BY <3>4 DEF TypeOK, Commit, RequestGoes
    <3>5. CASE RollBack(q)
      BY <3>5 DEF TypeOK, RollBack
    <3> QED BY <3>1, <3>2, <3>3, <3>4, <3>5 DEF RequestStep
  <2> QED BY <1>4, <2>1, RequestFrame DEF WaitInv
<1> QED
  BY <1>1, <1>2, <1>3, <1>4, NextIs, RoomFrame, FormFrame, SyncFrame

\* Every step keeps what answers say.
LEMMA AnswerStep ==
  ASSUME TypeOK, AnswerInv, Next
  PROVE  AnswerInv'
<1> USE DEF NoRequest, Nobody, InTransaction, pageVars
<1>1. CASE UNCHANGED request
  BY <1>1 DEF AnswerInv
<1>2. CASE \E d \in Drafts, q \in Requests : NetStep(d, q)
  <2>1. CASE \E d \in Drafts, q \in Requests : Send(d, q)
    BY <2>1 DEF AnswerInv, TypeOK, Send
  <2>2. CASE \E d \in Drafts, q \in Requests : HearSuccess(d, q)
    BY <2>2 DEF AnswerInv, HearSuccess
  <2>3. CASE \E d \in Drafts, q \in Requests : HearError(d, q)
    BY <2>3 DEF AnswerInv, TypeOK, HearError
  <2>4. CASE \E d \in Drafts, q \in Requests : GiveUp(d, q)
    BY <2>4 DEF AnswerInv, TypeOK, GiveUp
  <2> QED BY <1>2, <2>1, <2>2, <2>3, <2>4 DEF NetStep
<1>3. CASE \E q \in Requests : ReadRoom(q) \/ CheckWindow(q)
  BY <1>3 DEF AnswerInv, TypeOK, ReadRoom, CheckWindow
<1>4. CASE \E q \in Requests : InsertAndAnswer(q)
  BY <1>4 DEF AnswerInv, TypeOK, InsertAndAnswer
<1>5. CASE \E q \in Requests : Commit(q) \/ RollBack(q)
  BY <1>5 DEF AnswerInv, TypeOK, Commit, RollBack, RequestGoes
<1> QED
  BY <1>1, <1>2, <1>3, <1>4, <1>5, NextIs, RoomFrame, FormFrame, LocalFrame, SyncFrame
     DEF RequestStep

\* Every step keeps what is submitted.
LEMMA SubmittedStep ==
  ASSUME TypeOK, AnswerInv, SubmittedIsKept, Next
  PROVE  SubmittedIsKept'
<1> USE DEF NoRequest, Nobody, InTransaction, pageVars
<1>1. CASE UNCHANGED <<page, store, request>>
  BY <1>1 DEF SubmittedIsKept
<1>2. CASE \E d \in Drafts : SaveOffline(d)
  BY <1>2 DEF SubmittedIsKept, TypeOK, SaveOffline, PageGoes, Keep
<1>3. CASE \E d \in Drafts : LocalStep(d) /\ ~SaveOffline(d)
  BY <1>3 DEF SubmittedIsKept, TypeOK, LocalStep, Load, FillIn, Submit, PhotoUploaded, PhotoFails,
              SavingFails, PageGoes, MayEdit, MaySubmit
<1>4. CASE \E d \in Drafts, q \in Requests : NetStep(d, q)
  <2>1. CASE \E d \in Drafts, q \in Requests : Send(d, q)
    BY <2>1 DEF SubmittedIsKept, AnswerInv, TypeOK, Send, PageGoes
  <2>2. CASE \E d \in Drafts, q \in Requests : HearSuccess(d, q)
    BY <2>2 DEF SubmittedIsKept, AnswerInv, TypeOK, HearSuccess, PageGoes
  <2>3. CASE \E d \in Drafts, q \in Requests : HearError(d, q) \/ GiveUp(d, q)
    BY <2>3 DEF SubmittedIsKept, TypeOK, HearError, GiveUp, PageGoes
  <2> QED BY <1>4, <2>1, <2>2, <2>3 DEF NetStep
<1>5. CASE \E q \in Requests : ReadRoom(q) \/ CheckWindow(q)
  BY <1>5 DEF SubmittedIsKept, AnswerInv, TypeOK, ReadRoom, CheckWindow
<1>6. CASE \E q \in Requests : InsertAndAnswer(q)
  BY <1>6 DEF SubmittedIsKept, AnswerInv, TypeOK, InsertAndAnswer
<1>7. CASE \E q \in Requests : Commit(q)
  BY <1>7 DEF SubmittedIsKept, TypeOK, Commit, RequestGoes
<1>9. CASE \E q \in Requests : RollBack(q)
  <2>1. PICK q \in Requests : RollBack(q)
    BY <1>9
  <2>2. /\ \A p \in Requests \ {q} : request'[p] = request[p]
        /\ request'[q].draft = request[q].draft /\ request'[q].answered = request[q].answered
        /\ request'[q].spoiled = request[q].spoiled
    BY <2>1 DEF TypeOK, RollBack
  <2>3. request[q].answered => request[q].spoiled \/ ServerStops
    BY <2>1 DEF RollBack, AnswerInv
  <2>4. page' = page /\ store' = store
    BY <2>1 DEF RollBack
  <2> QED BY <2>2, <2>3, <2>4 DEF SubmittedIsKept
<1>8. CASE Synchronise
  <2>1. \A d \in Drafts : store[d] # "none" => store'[d] # "none"
    BY <1>8 DEF Synchronise
  <2> QED BY <1>8, <2>1, SyncFrame DEF SubmittedIsKept
<1> QED
  BY <1>1, <1>2, <1>3, <1>4, <1>5, <1>6, <1>7, <1>8, <1>9, NextIs, RoomFrame, FormFrame
     DEF RequestStep

\* Every step keeps the form versions.
LEMMA SaveStepInv ==
  ASSUME TypeOK, SaveInv, Next
  PROVE  SaveInv'
<1> USE AttendanceAssumption DEF NoSave, formVars
<1>1. CASE UNCHANGED formVars
  BY <1>1 DEF SaveInv, FormVersionsStand, Standing
<1>2. CASE \E e \in Editors : SaveReadsLatest(e)
  BY <1>2, NewestOfTop
     DEF SaveInv, FormVersionsStand, Standing, TypeOK, VersionFree, SaveReadsLatest, Newest
<1>3. CASE \E e \in Editors : SaveInserts(e)
  BY <1>3, NewestOfTop
     DEF SaveInv, FormVersionsStand, Standing, TypeOK, VersionFree, SaveInserts, SaveGoes
<1>4. CASE \E e \in Editors : SaveFails(e)
  BY <1>4, NewestOfTop
     DEF SaveInv, FormVersionsStand, Standing, TypeOK, VersionFree, SaveFails, SaveGoes
<1>5. CASE \E e \in Editors : SaveAnswers(e)
  BY <1>5, NewestOfTop
     DEF SaveInv, FormVersionsStand, Standing, TypeOK, VersionFree, SaveAnswers, SaveGoes
<1>8. CASE \E e \in Editors : SaveCommits(e)
  <2>1. PICK e \in Editors : SaveCommits(e)
    BY <1>8
  <2> DEFINE n == Newest(forms)
  <2>2. n \in Nat /\ save[e].version = n + 1 /\ forms = {v \in 1..n : v > n - Kept}
    BY <2>1 DEF SaveCommits, SaveInv, FormVersionsStand
  <2>3. forms' = (forms \cup {n + 1}) \ {w \in forms : w < n + 1 - (Kept - 1)}
    BY <2>1, <2>2 DEF SaveCommits, Stale
  <2> HIDE DEF n
  <2>4. forms' = {v \in 1..(n + 1) : v > n + 1 - Kept}
    <3>1. \A v : v \in forms' <=> v \in {w \in 1..(n + 1) : w > n + 1 - Kept}
      BY <2>2, <2>3
    <3> QED BY <3>1
  <2>5. Newest(forms)' = n + 1
    <3>1. Newest({v \in 1..(n + 1) : v > n + 1 - Kept}) = n + 1
      BY <2>2, NewestOfTop
    <3>2. Newest(forms)' = Newest(forms')
      BY DEF Newest
    <3> QED BY <3>1, <3>2, <2>4
  <2>6. /\ save'[e].step = "committed" /\ save'[e].version = n + 1
        /\ \A f \in Editors : f # e => save'[f] = save[f]
    BY <2>1, <2>2 DEF SaveCommits, SaveGoes, TypeOK
  <2>7. \A f \in Editors : f # e => save[f].step \notin {"inserted", "answered"}
    BY <2>1 DEF SaveCommits, SaveInv
  <2>8. \A f \in Editors : save[f].version \in Nat
    BY DEF TypeOK
  <2>9. \A f \in Editors : save[f].step = "committed" => save[f].version <= n
    BY DEF SaveInv, FormVersionsStand, Standing, n
  <2>10. \A f \in Editors : save[f].step = "insert" => save[f].version <= n + 1
    BY DEF SaveInv, n
  <2>11. FormVersionsStand'
    <3>1. forms' = {v \in 1..Newest(forms') : v > Newest(forms') - Kept}
      <4> DEFINE m == Newest(forms')
      <4>1. m = n + 1
        BY <2>5
      <4> HIDE DEF m
      <4>2. forms' = {v \in 1..m : v > m - Kept}
        <5>1. \A v : v \in forms' <=> v \in {w \in 1..m : w > m - Kept}
          BY <2>4, <4>1, <2>2, AttendanceAssumption
        <5> QED BY <5>1
      <4> QED BY <4>2 DEF m
    <3>2. \A f \in Editors : save'[f].step = "committed" => save'[f].version <= n + 1
      BY <2>2, <2>6, <2>8, <2>9
    <3>3. \A f, g \in Editors :
            /\ save'[f].step = "committed" /\ save'[g].step = "committed"
            /\ save'[f].version = save'[g].version
            => f = g
      <4>1. \A f, g \in Editors :
              /\ save[f].step = "committed" /\ save[g].step = "committed"
              /\ save[f].version = save[g].version
              => f = g
        BY DEF SaveInv, FormVersionsStand, Standing
      <4> QED BY <4>1, <2>2, <2>6, <2>8, <2>9
    <3> QED BY <3>1, <3>2, <3>3, <2>5 DEF FormVersionsStand, Standing
  <2>12. \A f \in Editors : save'[f].step = "insert" => save'[f].version <= n + 2
    BY <2>2, <2>6, <2>8, <2>10
  <2>13. \A f \in Editors : save'[f].step \notin {"inserted", "answered"}
    BY <2>6, <2>7
  <2> QED BY <2>2, <2>5, <2>11, <2>12, <2>13 DEF SaveInv
<1> QED
  BY <1>1, <1>2, <1>3, <1>4, <1>5, <1>8, NextIs, RoomFrame, LocalFrame, NetFrame, RequestFrame,
     SyncFrame DEF FormStep, SaveStep

\* The inductive invariant holds in every reachable state.
LEMMA Invariance == Spec => []IInv
<1>1. IInv /\ [Next]_vars => IInv'
  <2> SUFFICES ASSUME IInv, [Next]_vars PROVE IInv'
    OBVIOUS
  <2>1. CASE Next
    BY <2>1, TypeStep, TimeStep, WaitStep, AnswerStep, SubmittedStep, SaveStepInv DEF IInv
  <2>2. CASE UNCHANGED vars
    BY <2>2 DEF IInv, TypeOK, TimeInv, Entered, InLimit, WaitInv, AnswerInv, SubmittedIsKept,
       SaveInv, FormVersionsStand, Standing, vars, roomVars, formVars, pageVars
  <2> QED BY <2>1, <2>2
<1> QED BY InitIInv, <1>1, PTL DEF Spec

\* Every variable keeps its type, whatever is submitted and saved at once.
THEOREM TypeCorrect == Spec => []TypeOK
<1>1. IInv => TypeOK
  BY DEF IInv
<1> QED BY Invariance, <1>1, PTL

\* No entry of an ended or cancelled room bears a time after both the COMMIT of its end
\* and the widest late window it had since, for every way to move the window, a late
\* window of no minutes included.
THEOREM InTime == Spec => []EntriesInTime
<1>1. IInv => EntriesInTime
  BY DEF IInv, TimeInv, Entered, InLimit, EntriesInTime, Entries
<1> QED BY Invariance, <1>1, PTL

\* What a page shows as submitted is kept somewhere, but for a swallowed audit failure
\* or a server that stops before the COMMIT.
THEOREM Submitted == Spec => []SubmittedIsKept
<1>1. IInv => SubmittedIsKept
  BY DEF IInv
<1> QED BY Invariance, <1>1, PTL

\* A filled-in form becomes two entries only through a lost answer.
THEOREM Duplicates == Spec => []DuplicateNeedsLostAnswer
<1>1. IInv => DuplicateNeedsLostAnswer
  BY DEF IInv, WaitInv, DuplicateNeedsLostAnswer, Entries
<1> QED BY Invariance, <1>1, PTL

\* Concurrent saves neither share a version nor lose one.
THEOREM FormVersions == Spec => []FormVersionsStand
<1>1. IInv => FormVersionsStand
  BY DEF IInv, SaveInv
<1> QED BY Invariance, <1>1, PTL
=============================================================================
