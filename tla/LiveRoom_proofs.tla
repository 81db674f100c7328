------------------------- MODULE LiveRoom_proofs -------------------------
(* The invariants of LiveRoom hold for any number of pages, requests and      *)
(* notices.                                                                   *)
EXTENDS LiveRoom, TLAPS

\* A page only knows, and only stops, recordings whose start was answered.
Known(e) ==
    e = Earlier \/ /\ e \in Requests /\ request[e].kind = "recording_started"
                   /\ request[e].step \in {"answered", "committed", "undone"}

RecordingInv ==
    /\ \A p \in Pages : page[p].recording # None => Known(page[p].recording)
    /\ \A r \in Requests :
         /\ request[r].kind = "recording_paused" =>
               /\ Known(request[r].target)
               /\ request[r].step \in {"called", "written", "answered"} =>
                     egress[request[r].target] = "stopped"
         /\ request[r].kind # "recording_started" => egress[r] = None /\ row[r] = None
         /\ request[r].kind = "recording_started" =>
               /\ request[r].step = "begun" => egress[r] = None
               /\ request[r].step # "committed" => row[r] = None
         /\ request[r].step = "idle" => request[r].kind = None

\* A user's timer and a free notice say nothing else.
LeaveInv ==
    /\ EveryLeaverIsReported
    /\ \A p \in Pages : timer[p] \in {"left", None}
    /\ \A n \in Notices : notice[n].step = "none" => notice[n].topic = None

IInv == TypeOK /\ CompletedHasStopped /\ RecordingInv /\ LeaveInv

-----------------------------------------------------------------------------
RequestType ==
    [page : Pages \cup {None}, kind : Kinds \cup {None}, target : Egresses \cup {None},
     heard : BOOLEAN,
     step : {"idle", "begun", "called", "written", "answered", "committed", "undone"}]

NoticeType ==
    [topic : Topics \cup {None}, kind : Kinds \cup {"left", None},
     step : {"none", "begun", "inserted", "published", "spoiled", "committed", "undone"}]

\* One request goes on, within its type.
LEMMA RequestGoes ==
  ASSUME request \in [Requests -> RequestType], NEW r \in Requests,
         NEW s \in {"begun", "called", "written", "answered", "committed", "undone"}, Goes(r, s)
  PROVE  request' \in [Requests -> RequestType]
<1>1. request[r] \in RequestType
  OBVIOUS
<1>2. [request[r] EXCEPT !.step = s] \in RequestType
  BY <1>1 DEF RequestType
<1>3. request' = [request EXCEPT ![r] = [request[r] EXCEPT !.step = s]]
  BY DEF Goes
<1> QED BY <1>2, <1>3

\* One notice goes on, within its type.
LEMMA NoticeStepTyped ==
  ASSUME notice \in [Notices -> NoticeType], NEW n \in Notices,
         NEW s \in {"inserted", "published", "spoiled", "committed", "undone"}, NoticeGoes(n, s)
  PROVE  notice' \in [Notices -> NoticeType]
<1>1. notice[n] \in NoticeType
  OBVIOUS
<1>2. [notice[n] EXCEPT !.step = s] \in NoticeType
  BY <1>1 DEF NoticeType
<1>3. notice' = [notice EXCEPT ![n] = [notice[n] EXCEPT !.step = s]]
  BY DEF NoticeGoes
<1> QED BY <1>2, <1>3

\* The states a behaviour begins in.
LEMMA InitIInv == Init => IInv
<1> SUFFICES ASSUME Init PROVE IInv
  OBVIOUS
<1>1. TypeOK
  <2>1. NoRequest \in RequestType /\ NoNotice \in NoticeType
    BY DEF NoRequest, NoNotice, RequestType, NoticeType, None
  <2>2. request \in [Requests -> RequestType] /\ notice \in [Notices -> NoticeType]
    BY <2>1 DEF Init
  <2>3. /\ egress \in [Egresses -> {None, "running", "stopped"}]
        /\ row \in [Egresses -> {None, "pending", "completed"}]
        /\ page \in [Pages -> [status : {"scheduled", "live", "ended"},
                               recording : Egresses \cup {None}]]
    BY DEF Init, Egresses, None
  <2>4. timer \in [Topics -> Kinds \cup {"left", None}] /\ stops \in 0..MaxStops
    BY LiveAssumption DEF Init
  <2>5. /\ history \in [step : {"closed", "idle", "read", "done"}, data : SUBSET Notices]
        /\ resync \in [step : {"idle", "asked", "read"}, data : SUBSET Notices]
    BY DEF Init, NoFetch
  <2> QED BY <2>2, <2>3, <2>4, <2>5 DEF Init, TypeOK, RequestType, NoticeType
<1>2. CompletedHasStopped /\ RecordingInv
  BY LiveAssumption DEF Init, CompletedHasStopped, RecordingInv, Known, NoRequest, None, Earlier,
     Egresses
<1>3. LeaveInv
  BY LiveAssumption DEF Init, LeaveInv, EveryLeaverIsReported, NoNotice, None, Topics
<1> QED BY <1>1, <1>2, <1>3 DEF IInv

\* Every step keeps the types.
LEMMA TypeStep ==
  ASSUME TypeOK, Next
  PROVE  TypeOK'
<1> USE LiveAssumption DEF None, Earlier, Egresses, Topics, Kinds, Recordings, NoFetch, roomVars,
        leaveVars, feedVars
<1>1. CASE \E p \in Pages, r \in Requests, kind \in Kinds : Press(p, r, kind)
  BY <1>1 DEF TypeOK, Press, Offered
<1>2. CASE \E p \in Pages, r \in Requests : Hear(p, r)
  <2>1. PICK p \in Pages, r \in Requests : Hear(p, r)
    BY <1>2
  <2>2. request[r] \in RequestType
    BY DEF TypeOK, RequestType
  <2>3. [request[r] EXCEPT !.heard = TRUE] \in RequestType
    BY <2>2 DEF RequestType
  <2>4. request' = [request EXCEPT ![r] = [request[r] EXCEPT !.heard = TRUE]]
    BY <2>1 DEF Hear
  <2>5. request' \in [Requests -> RequestType]
    BY <2>3, <2>4 DEF TypeOK, RequestType
  <2>6. page' \in [Pages -> [status : {"scheduled", "live", "ended"},
                            recording : Egresses \cup {None}]]
    <3> DEFINE PageType == [status : {"scheduled", "live", "ended"},
                            recording : Egresses \cup {None}]
    <3>1. page \in [Pages -> PageType] /\ page[p] \in PageType
      BY DEF TypeOK
    <3>2. CASE request[r].step = "undone"
      BY <2>1, <3>1, <3>2 DEF Hear
    <3>3. CASE request[r].step # "undone" /\ request[r].kind \in {"live", "ended"}
      <4>1. [page[p] EXCEPT !.status = request[r].kind] \in PageType
        BY <3>1, <3>3
      <4>2. page' = [page EXCEPT ![p] = [page[p] EXCEPT !.status = request[r].kind]]
        BY <2>1, <3>3 DEF Hear
      <4> QED BY <3>1, <4>1, <4>2
    <3>4. CASE request[r].step # "undone" /\ request[r].kind = "recording_started"
      <4>1. [page[p] EXCEPT !.recording = r] \in PageType
        BY <3>1
      <4>2. page' = [page EXCEPT ![p] = [page[p] EXCEPT !.recording = r]]
        BY <2>1, <3>4 DEF Hear
      <4> QED BY <3>1, <4>1, <4>2
    <3>5. CASE /\ request[r].step # "undone"
               /\ request[r].kind \notin {"live", "ended", "recording_started"}
      <4>1. [page[p] EXCEPT !.recording = None] \in PageType
        BY <3>1
      <4>2. page' = [page EXCEPT ![p] = [page[p] EXCEPT !.recording = None]]
        BY <2>1, <3>5 DEF Hear
      <4> QED BY <3>1, <4>1, <4>2
    <3> QED BY <3>2, <3>3, <3>4, <3>5
  <2> QED BY <2>1, <2>5, <2>6 DEF TypeOK, RequestType, Hear
<1>3. CASE \E r \in Requests : SetStatus(r)
  <2>1. PICK r \in Requests : SetStatus(r)
    BY <1>3
  <2>2. request' \in [Requests -> RequestType]
    BY <2>1, RequestGoes DEF TypeOK, RequestType, SetStatus
  <2> QED BY <2>1, <2>2 DEF TypeOK, RequestType, SetStatus, Debounce
<1>4. CASE \E r \in Requests : StartEgress(r)
  <2>1. PICK r \in Requests : StartEgress(r)
    BY <1>4
  <2>2. request' \in [Requests -> RequestType]
    BY <2>1, RequestGoes DEF TypeOK, RequestType, StartEgress
  <2> QED BY <2>1, <2>2 DEF TypeOK, RequestType, StartEgress
<1>5. CASE \E r \in Requests : StopEgress(r)
  <2>1. PICK r \in Requests : StopEgress(r)
    BY <1>5
  <2>2. request' \in [Requests -> RequestType]
    BY <2>1, RequestGoes DEF TypeOK, RequestType, StopEgress
  <2> QED BY <2>1, <2>2 DEF TypeOK, RequestType, StopEgress
<1>6. CASE \E r \in Requests : WriteRecording(r)
  <2>1. PICK r \in Requests : WriteRecording(r)
    BY <1>6
  <2>2. request' \in [Requests -> RequestType]
    BY <2>1, RequestGoes DEF TypeOK, RequestType, WriteRecording
  <2> QED BY <2>1, <2>2 DEF TypeOK, RequestType, WriteRecording, Debounce
<1>7. CASE \E r \in Requests : Answer(r)
  <2>1. PICK r \in Requests : Answer(r)
    BY <1>7
  <2>2. request' \in [Requests -> RequestType]
    BY <2>1, RequestGoes DEF TypeOK, RequestType, Answer
  <2> QED BY <2>1, <2>2 DEF TypeOK, RequestType, Answer
<1>8. CASE \E r \in Requests : Commit(r)
  <2>1. PICK r \in Requests : Commit(r)
    BY <1>8
  <2>2. request' \in [Requests -> RequestType]
    BY <2>1, RequestGoes DEF TypeOK, RequestType, Commit
  <2> QED BY <2>1, <2>2 DEF TypeOK, RequestType, Commit
<1>9. CASE \E r \in Requests : Undo(r)
  <2>1. PICK r \in Requests : Undo(r)
    BY <1>9
  <2>2. request' \in [Requests -> RequestType]
    BY <2>1, RequestGoes DEF TypeOK, RequestType, Undo
  <2> QED BY <2>1, <2>2 DEF TypeOK, RequestType, Undo
<1>10. CASE \E e \in Egresses : EgressEnds(e)
  BY <1>10 DEF TypeOK, EgressEnds
<1>11. CASE \E p \in Pages : Enter(p)
  BY <1>11 DEF TypeOK, Enter
<1>12. CASE \E p \in Pages : Remember(p)
  BY <1>12 DEF TypeOK, Remember
<1>13. CASE \E p \in Pages : Leave(p)
  BY <1>13 DEF TypeOK, Leave, Left, Debounce
<1>14. CASE \E p \in Pages : Logout(p)
  BY <1>14 DEF TypeOK, Logout, Left, Debounce
<1>15. CASE \E t \in Topics, n \in Notices : Fire(t, n)
  BY <1>15 DEF TypeOK, Fire, Debounce
<1>16. CASE \E n \in Notices : InsertNotice(n)
  <2>1. PICK n \in Notices : InsertNotice(n)
    BY <1>16
  <2>2. notice' \in [Notices -> NoticeType]
    BY <2>1, NoticeStepTyped DEF TypeOK, NoticeType, InsertNotice
  <2> QED BY <2>1, <2>2 DEF TypeOK, NoticeType, InsertNotice
<1>17. CASE \E n \in Notices : Publish(n)
  <2>1. PICK n \in Notices : Publish(n)
    BY <1>17
  <2>2. notice' \in [Notices -> NoticeType]
    BY <2>1, NoticeStepTyped DEF TypeOK, NoticeType, Publish
  <2> QED BY <2>1, <2>2 DEF TypeOK, NoticeType, Publish
<1>18. CASE \E n \in Notices : CommitNotice(n)
  <2>1. PICK n \in Notices : CommitNotice(n)
    BY <1>18
  <2>2. notice' \in [Notices -> NoticeType]
    BY <2>1, NoticeStepTyped DEF TypeOK, NoticeType, CommitNotice
  <2> QED BY <2>1, <2>2 DEF TypeOK, NoticeType, CommitNotice
<1>19. CASE \E n \in Notices : UndoNotice(n)
  <2>1. PICK n \in Notices : UndoNotice(n)
    BY <1>19
  <2>2. notice' \in [Notices -> NoticeType]
    BY <2>1, NoticeStepTyped DEF TypeOK, NoticeType, UndoNotice
  <2> QED BY <2>1, <2>2 DEF TypeOK, NoticeType, UndoNotice
<1>20. CASE ServerStops
  <2>1. request' \in [Requests -> RequestType]
    <3>1. \A r \in Requests : [request[r] EXCEPT !.step = "undone"] \in RequestType
      <4> SUFFICES ASSUME NEW r \in Requests PROVE [request[r] EXCEPT !.step = "undone"] \in RequestType
        OBVIOUS
      <4>1. request[r] \in RequestType
        BY DEF TypeOK, RequestType
      <4> QED BY <4>1 DEF RequestType
    <3> QED BY <1>20, <3>1 DEF TypeOK, RequestType, ServerStops
  <2>2. notice' \in [Notices -> NoticeType]
    <3>1. \A n \in Notices : [notice[n] EXCEPT !.step = "undone"] \in NoticeType
      <4> SUFFICES ASSUME NEW n \in Notices PROVE [notice[n] EXCEPT !.step = "undone"] \in NoticeType
        OBVIOUS
      <4>1. notice[n] \in NoticeType
        BY DEF TypeOK, NoticeType
      <4> QED BY <4>1 DEF NoticeType
    <3> QED BY <1>20, <3>1 DEF TypeOK, NoticeType, ServerStops
  <2>3. timer' \in [Topics -> Kinds \cup {"left", None}] /\ stops' \in 0..MaxStops
    BY <1>20 DEF TypeOK, ServerStops
  <2>4. joining' \subseteq Pages /\ stream' \in {"open", "closed"}
    BY <1>20 DEF ServerStops
  <2> QED BY <1>20, <2>1, <2>2, <2>3, <2>4 DEF TypeOK, RequestType, NoticeType, ServerStops
<1>21. CASE ReadHistory
  BY <1>21 DEF TypeOK, ReadHistory, Committed
<1>22. CASE HistoryArrives
  BY <1>22 DEF TypeOK, HistoryArrives
<1>23. CASE OpenStream
  BY <1>23 DEF TypeOK, OpenStream, StartResync
<1>24. CASE DropStream
  BY <1>24 DEF TypeOK, DropStream
<1>25. CASE Online
  BY <1>25 DEF TypeOK, Online, StartResync
<1>26. CASE ReadResync
  BY <1>26 DEF TypeOK, ReadResync, Committed
<1>27. CASE ResyncArrives
  BY <1>27 DEF TypeOK, ResyncArrives
<1>28. CASE ResyncFails
  BY <1>28 DEF TypeOK, ResyncFails
<1> QED
  BY <1>1, <1>2, <1>3, <1>4, <1>5, <1>6, <1>7, <1>8, <1>9, <1>10, <1>11, <1>12,
     <1>13, <1>14, <1>15, <1>16, <1>17, <1>18, <1>19, <1>20, <1>21, <1>22,
     <1>23, <1>24, <1>25, <1>26, <1>27, <1>28
  DEF Next, RequestStep, NoticeStep

\* Every step keeps what rows and egresses say of each other.
LEMMA RecordingStep ==
  ASSUME TypeOK, CompletedHasStopped, RecordingInv, Next
  PROVE  (CompletedHasStopped /\ RecordingInv)'
<1> USE LiveAssumption DEF None, Earlier, Egresses, Kinds, Recordings, NoFetch, roomVars, leaveVars, feedVars
<1>1. CASE \E p \in Pages, r \in Requests, kind \in Kinds : Press(p, r, kind)
  BY <1>1 DEF TypeOK, CompletedHasStopped, RecordingInv, Known, Press, Offered
<1>2. CASE \E p \in Pages, r \in Requests : Hear(p, r)
  BY <1>2 DEF TypeOK, CompletedHasStopped, RecordingInv, Known, Hear
<1>3. CASE \E r \in Requests : SetStatus(r)
  BY <1>3 DEF TypeOK, CompletedHasStopped, RecordingInv, Known, SetStatus, Goes, Debounce
<1>4. CASE \E r \in Requests : StartEgress(r)
  BY <1>4 DEF TypeOK, CompletedHasStopped, RecordingInv, Known, StartEgress, Goes
<1>5. CASE \E r \in Requests : StopEgress(r)
  BY <1>5 DEF TypeOK, CompletedHasStopped, RecordingInv, Known, StopEgress, Goes
<1>6. CASE \E r \in Requests : WriteRecording(r)
  BY <1>6 DEF TypeOK, CompletedHasStopped, RecordingInv, Known, WriteRecording, Goes, Debounce
<1>7. CASE \E r \in Requests : Answer(r)
  BY <1>7 DEF TypeOK, CompletedHasStopped, RecordingInv, Known, Answer, Goes
<1>8. CASE \E r \in Requests : Commit(r)
  BY <1>8 DEF TypeOK, CompletedHasStopped, RecordingInv, Known, Commit, Goes
<1>9. CASE \E r \in Requests : Undo(r)
  BY <1>9 DEF TypeOK, CompletedHasStopped, RecordingInv, Known, Undo, Goes
<1>10. CASE \E e \in Egresses : EgressEnds(e)
  BY <1>10 DEF TypeOK, CompletedHasStopped, RecordingInv, Known, EgressEnds
<1>11. CASE \E p \in Pages : Enter(p)
  BY <1>11 DEF CompletedHasStopped, RecordingInv, Known, Enter
<1>12. CASE \E p \in Pages : Remember(p)
  BY <1>12 DEF CompletedHasStopped, RecordingInv, Known, Remember
<1>13. CASE \E p \in Pages : Leave(p)
  BY <1>13 DEF CompletedHasStopped, RecordingInv, Known, Leave
<1>14. CASE \E p \in Pages : Logout(p)
  BY <1>14 DEF CompletedHasStopped, RecordingInv, Known, Logout
<1>15. CASE \E t \in Topics, n \in Notices : Fire(t, n)
  BY <1>15 DEF CompletedHasStopped, RecordingInv, Known, Fire
<1>16. CASE \E n \in Notices : InsertNotice(n)
  BY <1>16 DEF CompletedHasStopped, RecordingInv, Known, InsertNotice
<1>17. CASE \E n \in Notices : Publish(n)
  BY <1>17 DEF CompletedHasStopped, RecordingInv, Known, Publish
<1>18. CASE \E n \in Notices : CommitNotice(n)
  BY <1>18 DEF CompletedHasStopped, RecordingInv, Known, CommitNotice
<1>19. CASE \E n \in Notices : UndoNotice(n)
  BY <1>19 DEF CompletedHasStopped, RecordingInv, Known, UndoNotice
<1>20. CASE ServerStops
  BY <1>20 DEF TypeOK, CompletedHasStopped, RecordingInv, Known, ServerStops
<1>21. CASE ReadHistory
  BY <1>21 DEF CompletedHasStopped, RecordingInv, Known, ReadHistory
<1>22. CASE HistoryArrives
  BY <1>22 DEF CompletedHasStopped, RecordingInv, Known, HistoryArrives
<1>23. CASE OpenStream
  BY <1>23 DEF CompletedHasStopped, RecordingInv, Known, OpenStream
<1>24. CASE DropStream
  BY <1>24 DEF CompletedHasStopped, RecordingInv, Known, DropStream
<1>25. CASE Online
  BY <1>25 DEF CompletedHasStopped, RecordingInv, Known, Online
<1>26. CASE ReadResync
  BY <1>26 DEF CompletedHasStopped, RecordingInv, Known, ReadResync
<1>27. CASE ResyncArrives
  BY <1>27 DEF CompletedHasStopped, RecordingInv, Known, ResyncArrives
<1>28. CASE ResyncFails
  BY <1>28 DEF CompletedHasStopped, RecordingInv, Known, ResyncFails
<1> QED
  BY <1>1, <1>2, <1>3, <1>4, <1>5, <1>6, <1>7, <1>8, <1>9, <1>10, <1>11, <1>12,
     <1>13, <1>14, <1>15, <1>16, <1>17, <1>18, <1>19, <1>20, <1>21, <1>22,
     <1>23, <1>24, <1>25, <1>26, <1>27, <1>28
  DEF Next, RequestStep, NoticeStep

\* Every step keeps what timers and notices say of users who left.
LEMMA LeaveStep ==
  ASSUME TypeOK, LeaveInv, Next
  PROVE  LeaveInv'
<1> USE LiveAssumption DEF None, Topics, Kinds, Recordings, NoFetch, roomVars, leaveVars, feedVars
<1>1. CASE \E p \in Pages, r \in Requests, kind \in Kinds : Press(p, r, kind)
  BY <1>1 DEF LeaveInv, EveryLeaverIsReported, Press
<1>2. CASE \E p \in Pages, r \in Requests : Hear(p, r)
  BY <1>2 DEF LeaveInv, EveryLeaverIsReported, Hear
<1>3. CASE \E r \in Requests : SetStatus(r)
  BY <1>3 DEF TypeOK, LeaveInv, EveryLeaverIsReported, SetStatus, Goes, Debounce
<1>4. CASE \E r \in Requests : StartEgress(r)
  BY <1>4 DEF LeaveInv, EveryLeaverIsReported, StartEgress
<1>5. CASE \E r \in Requests : StopEgress(r)
  BY <1>5 DEF LeaveInv, EveryLeaverIsReported, StopEgress
<1>6. CASE \E r \in Requests : WriteRecording(r)
  BY <1>6 DEF TypeOK, LeaveInv, EveryLeaverIsReported, WriteRecording, Goes, Debounce
<1>7. CASE \E r \in Requests : Answer(r)
  BY <1>7 DEF LeaveInv, EveryLeaverIsReported, Answer
<1>8. CASE \E r \in Requests : Commit(r)
  BY <1>8 DEF LeaveInv, EveryLeaverIsReported, Commit
<1>9. CASE \E r \in Requests : Undo(r)
  BY <1>9 DEF LeaveInv, EveryLeaverIsReported, Undo
<1>10. CASE \E e \in Egresses : EgressEnds(e)
  BY <1>10 DEF LeaveInv, EveryLeaverIsReported, EgressEnds
<1>11. CASE \E p \in Pages : Enter(p)
  BY <1>11 DEF TypeOK, LeaveInv, EveryLeaverIsReported, Enter
<1>12. CASE \E p \in Pages : Remember(p)
  BY <1>12 DEF TypeOK, LeaveInv, EveryLeaverIsReported, Remember
<1>13. CASE \E p \in Pages : Leave(p)
  BY <1>13 DEF TypeOK, LeaveInv, EveryLeaverIsReported, Leave, Left, Debounce
<1>14. CASE \E p \in Pages : Logout(p)
  BY <1>14 DEF TypeOK, LeaveInv, EveryLeaverIsReported, Logout, Left, Debounce
<1>15. CASE \E t \in Topics, n \in Notices : Fire(t, n)
  BY <1>15 DEF TypeOK, LeaveInv, EveryLeaverIsReported, Fire, Debounce
<1>16. CASE \E n \in Notices : InsertNotice(n)
  BY <1>16 DEF TypeOK, LeaveInv, EveryLeaverIsReported, InsertNotice, NoticeGoes
<1>17. CASE \E n \in Notices : Publish(n)
  BY <1>17 DEF TypeOK, LeaveInv, EveryLeaverIsReported, Publish, NoticeGoes
<1>18. CASE \E n \in Notices : CommitNotice(n)
  BY <1>18 DEF TypeOK, LeaveInv, EveryLeaverIsReported, CommitNotice, NoticeGoes
<1>19. CASE \E n \in Notices : UndoNotice(n)
  BY <1>19 DEF TypeOK, LeaveInv, EveryLeaverIsReported, UndoNotice, NoticeGoes
<1>20. CASE ServerStops
  BY <1>20 DEF TypeOK, LeaveInv, EveryLeaverIsReported, ServerStops
<1>21. CASE ReadHistory
  BY <1>21 DEF LeaveInv, EveryLeaverIsReported, ReadHistory
<1>22. CASE HistoryArrives
  BY <1>22 DEF LeaveInv, EveryLeaverIsReported, HistoryArrives
<1>23. CASE OpenStream
  BY <1>23 DEF LeaveInv, EveryLeaverIsReported, OpenStream
<1>24. CASE DropStream
  BY <1>24 DEF LeaveInv, EveryLeaverIsReported, DropStream
<1>25. CASE Online
  BY <1>25 DEF LeaveInv, EveryLeaverIsReported, Online
<1>26. CASE ReadResync
  BY <1>26 DEF LeaveInv, EveryLeaverIsReported, ReadResync
<1>27. CASE ResyncArrives
  BY <1>27 DEF LeaveInv, EveryLeaverIsReported, ResyncArrives
<1>28. CASE ResyncFails
  BY <1>28 DEF LeaveInv, EveryLeaverIsReported, ResyncFails
<1> QED
  BY <1>1, <1>2, <1>3, <1>4, <1>5, <1>6, <1>7, <1>8, <1>9, <1>10, <1>11, <1>12,
     <1>13, <1>14, <1>15, <1>16, <1>17, <1>18, <1>19, <1>20, <1>21, <1>22,
     <1>23, <1>24, <1>25, <1>26, <1>27, <1>28
  DEF Next, RequestStep, NoticeStep

\* The inductive invariant holds in every reachable state.
LEMMA Invariance == Spec => []IInv
<1>1. IInv /\ [Next]_vars => IInv'
  <2> SUFFICES ASSUME IInv, [Next]_vars PROVE IInv'
    OBVIOUS
  <2>1. CASE Next
    BY <2>1, TypeStep, RecordingStep, LeaveStep DEF IInv
  <2>2. CASE UNCHANGED vars
    BY <2>2 DEF IInv, TypeOK, CompletedHasStopped, RecordingInv, Known, LeaveInv,
       EveryLeaverIsReported, vars, roomVars, leaveVars, feedVars
  <2> QED BY <2>1, <2>2
<1> QED BY InitIInv, <1>1, PTL DEF Spec

\* Every variable keeps its type.
THEOREM TypeCorrect == Spec => []TypeOK
<1>1. IInv => TypeOK
  BY DEF IInv
<1> QED BY Invariance, <1>1, PTL

\* A recording shown as completed runs no longer, and one that runs is accounted for.
THEOREM CompletedStopped == Spec => []CompletedHasStopped
<1>1. IInv => CompletedHasStopped
  BY DEF IInv
<1> QED BY Invariance, <1>1, PTL

\* Whoever left the room is in a pending timer or a notice, unless the server stopped.
THEOREM LeaversReported == Spec => []EveryLeaverIsReported
<1>1. IInv => EveryLeaverIsReported
  BY DEF IInv, LeaveInv
<1> QED BY Invariance, <1>1, PTL
=============================================================================
