------------------------------ MODULE LiveRoom ------------------------------
(* A room while it is broadcast: the pages that start, stop and record it     *)
(* (RoomLive.tsx, room-live.controller.ts, room-recording.controller.ts,      *)
(* livekit.provider.ts), the debounced notices that tell its staff            *)
(* (event-stream-notification.service.ts, user-left-notification.service.ts), *)
(* and the way of a notice to the page of a staff member who watches them     *)
(* (notification.service.ts, the event stream, useNotifications.ts).          *)
(*                                                                            *)
(* A request's writes stand once its transaction commits, after the response; *)
(* what it did at LiveKit and to the timers stands at once.                   *)
EXTENDS Integers, FiniteSets

CONSTANTS Pages,            \* live pages of a room's publishers, each a user
          Requests,         \* requests the pages send; one starts at most one egress
          Notices,          \* notice rows for the watching staff member
          MaxStops,         \* bound on the server's restarts
          Apart             \* bound: in a behaviour either pages send requests, or users
                            \* come and go while the staff member watches

ASSUME LiveAssumption ==
    /\ MaxStops \in Nat /\ Apart \in BOOLEAN
    /\ {"none", "state", "earlier"} \cap (Pages \cup Requests) = {}

None == "none"
Kinds == {"live", "ended", "recording_started", "recording_paused"}
Recordings == {"recording_started", "recording_paused"}
Earlier == "earlier"                    \* a recording made before the pages loaded
Egresses == Requests \cup {Earlier}
Topics == {"state"} \cup Pages          \* the keys of the debounced timers

VARIABLES
    status,     \* event_rooms.status as committed
    request,    \* progress of the pages' requests
    egress,     \* LiveKit: the egress each request started
    row,        \* room_recordings: the committed row of each egress
    page,       \* what each page knows: the room's status and its active recording
    user,       \* whether the page's user is in the room
    active,     \* Redis: users with an active-room key
    joining,    \* rememberActiveRoom writes still under way
    timer,      \* the server's pending debounced tasks
    notice,     \* the notice rows and the tasks that write them
    stops,      \* restarts so far
    shown,      \* useNotifications: the notices in the list
    history,    \* the initial fetch, with what it has read
    resync,     \* the single resync in flight, with what it has read
    stream,     \* the EventSource
    opened      \* hasOpened

roomVars == <<status, request, egress, row, page>>
leaveVars == <<user, active, joining>>
feedVars == <<shown, history, resync, stream, opened>>
vars == <<roomVars, leaveVars, timer, notice, stops, feedVars>>

NoRequest == [page |-> None, kind |-> None, target |-> None, step |-> "idle", heard |-> FALSE]
NoNotice == [topic |-> None, kind |-> None, step |-> "none"]
NoFetch == [step |-> "idle", data |-> {}]

Watching == history.step # "closed"

Init ==
    /\ history \in {NoFetch, [step |-> "closed", data |-> {}]}
    /\ status \in {"scheduled", "live"}
    /\ request = [r \in Requests |-> NoRequest]
    /\ \E recording \in {None, Earlier} :
         /\ egress = [e \in Egresses |-> IF e = recording THEN "running" ELSE None]
         /\ row = [e \in Egresses |-> IF e = recording THEN "pending" ELSE None]
         /\ page = [p \in Pages |-> [status |-> status, recording |-> recording]]
         /\ recording # None => status = "live"
         /\ Apart /\ Watching => status = "scheduled"
    /\ user = [p \in Pages |-> "outside"]
    /\ active = {} /\ joining = {}
    /\ timer = [t \in Topics |-> None]
    /\ notice = [n \in Notices |-> NoNotice]
    /\ stops = 0
    /\ shown = {}
    /\ resync = NoFetch
    /\ stream = "closed" /\ opened = FALSE

-----------------------------------------------------------------------------
(* Requests of the live pages.                                                *)

Goes(r, step) == request' = [request EXCEPT ![r].step = step]

\* debounceByKey: the task pending under the key is replaced.
Debounce(key, task) == timer' = [timer EXCEPT ![key] = task]

\* actionBusy and recordBusy: one request of a kind's group at a time.
Busy(p, kind) ==
    \E r \in Requests : /\ request[r].page = p /\ ~request[r].heard
                        /\ kind \in Recordings <=> request[r].kind \in Recordings

\* The buttons a publisher is shown.
Offered(p) ==
    IF page[p].status = "live"
    THEN {"ended", IF page[p].recording = None THEN "recording_started" ELSE "recording_paused"}
    ELSE {"live"}

\* handleStart, handleStop, handleStartRecording, handleStopRecording.
Press(p, r, kind) ==
    /\ Apart => ~Watching
    /\ request[r].step = "idle" /\ kind \in Offered(p) /\ ~Busy(p, kind)
    /\ request' = [request EXCEPT ![r] = [page |-> p, kind |-> kind, heard |-> FALSE,
                       target |-> IF kind = "recording_paused" THEN page[p].recording ELSE r,
                       step |-> "begun"]]
    /\ UNCHANGED <<status, egress, row, page, leaveVars, timer, notice, stops, feedVars>>

\* startLive and stopLive: the UPDATE, then the debounced notice.
SetStatus(r) ==
    /\ request[r].step = "begun" /\ request[r].kind \in {"live", "ended"}
    /\ Goes(r, "written")
    /\ Debounce("state", request[r].kind)
    /\ UNCHANGED <<status, egress, row, page, leaveVars, notice, stops, feedVars>>

\* startRecording: the egress runs before its row is inserted.
StartEgress(r) ==
    /\ request[r].step = "begun" /\ request[r].kind = "recording_started"
    /\ egress' = [egress EXCEPT ![r] = "running"]
    /\ Goes(r, "called")
    /\ UNCHANGED <<status, row, page, leaveVars, timer, notice, stops, feedVars>>

\* Mutant: the recording is completed although stopEgress failed.
MutantStopEgress(r) ==
    /\ request[r].step = "begun" /\ request[r].kind = "recording_paused"
    /\ \E e \in {egress[request[r].target], "stopped"} :
         egress' = [egress EXCEPT ![request[r].target] = e]
    /\ Goes(r, "called")
    /\ UNCHANGED <<status, row, page, leaveVars, timer, notice, stops, feedVars>>

\* stopRecording: LiveKit refuses to stop an egress that is over.
StopEgress(r) ==
    /\ request[r].step = "begun" /\ request[r].kind = "recording_paused"
    /\ egress[request[r].target] = "running"
    /\ egress' = [egress EXCEPT ![request[r].target] = "stopped"]
    /\ Goes(r, "called")
    /\ UNCHANGED <<status, row, page, leaveVars, timer, notice, stops, feedVars>>

\* The INSERT or UPDATE of the row, then the debounced notice.
WriteRecording(r) ==
    /\ request[r].step = "called"
    /\ Goes(r, "written")
    /\ Debounce("state", request[r].kind)
    /\ UNCHANGED <<status, egress, row, page, leaveVars, notice, stops, feedVars>>

Answer(r) ==
    /\ request[r].step = "written"
    /\ Goes(r, "answered")
    /\ UNCHANGED <<status, egress, row, page, leaveVars, timer, notice, stops, feedVars>>

Commit(r) ==
    /\ request[r].step = "answered"
    /\ Goes(r, "committed")
    /\ status' = IF request[r].kind \in {"live", "ended"} THEN request[r].kind ELSE status
    /\ row' = CASE request[r].kind = "recording_started" -> [row EXCEPT ![r] = "pending"]
                [] request[r].kind = "recording_paused" /\ row[request[r].target] # None ->
                       [row EXCEPT ![request[r].target] = "completed"]
                [] OTHER -> row
    /\ UNCHANGED <<egress, page, leaveVars, timer, notice, stops, feedVars>>

\* A statement or a call fails, the client goes, a swallowed failure undoes it.
Undo(r) ==
    /\ request[r].step \in {"begun", "called", "written", "answered"}
    /\ Goes(r, "undone")
    /\ UNCHANGED <<status, egress, row, page, leaveVars, timer, notice, stops, feedVars>>

\* The page hears the response: setRoom, setActiveRecording, or an error.
Hear(p, r) ==
    /\ request[r].page = p /\ ~request[r].heard
    /\ request[r].step \in {"answered", "committed", "undone"}
    /\ request' = [request EXCEPT ![r].heard = TRUE]
    /\ page' = IF request[r].step = "undone" THEN page
               ELSE CASE request[r].kind \in {"live", "ended"} ->
                           [page EXCEPT ![p].status = request[r].kind]
                      [] request[r].kind = "recording_started" -> [page EXCEPT ![p].recording = r]
                      [] OTHER -> [page EXCEPT ![p].recording = None]
    /\ UNCHANGED <<status, egress, row, leaveVars, timer, notice, stops, feedVars>>

\* LiveKit ends an egress by itself once nobody is left in the room.
EgressEnds(e) ==
    /\ egress[e] = "running"
    /\ egress' = [egress EXCEPT ![e] = "stopped"]
    /\ UNCHANGED <<status, request, row, page, leaveVars, timer, notice, stops, feedVars>>

-----------------------------------------------------------------------------
(* Users who come and go.                                                     *)

\* getLiveToken: the active-room key is written without waiting for it.
Enter(p) ==
    /\ user[p] = "outside" /\ (Apart => Watching)
    /\ user' = [user EXCEPT ![p] = "inside"]
    /\ joining' = joining \cup {p}
    /\ UNCHANGED <<roomVars, active, timer, notice, stops, feedVars>>

\* Redis may be down: then there is no key.
Remember(p) ==
    /\ p \in joining /\ joining' = joining \ {p}
    /\ active' \in {active, active \cup {p}}
    /\ UNCHANGED <<roomVars, user, timer, notice, stops, feedVars>>

\* Mutant: one timer for all who leave the room.
MutantLeft(p) == Debounce("state", "left")

\* notifyUserLeftEvent
Left(p) == Debounce(p, "left")

\* onDisconnected and leaveRoom.
Leave(p) ==
    /\ user[p] = "inside"
    /\ user' = [user EXCEPT ![p] = "left"]
    /\ active' = active \ {p}
    /\ Left(p)
    /\ UNCHANGED <<roomVars, joining, notice, stops, feedVars>>

\* logoutSession with an active-room key.  It is the only sign of a user whose tab
\* was closed, and it comes once more if the key was written after the leave.
Logout(p) ==
    /\ user[p] \in {"inside", "left"} /\ p \in active
    /\ user' = [user EXCEPT ![p] = "left"]
    /\ active' = active \ {p}
    /\ Left(p)
    /\ UNCHANGED <<roomVars, joining, notice, stops, feedVars>>

-----------------------------------------------------------------------------
(* Notices.                                                                   *)

NoticeGoes(n, step) == notice' = [notice EXCEPT ![n].step = step]

\* A timer fires: the fan-out opens a transaction of its own.
Fire(t, n) ==
    /\ timer[t] # None /\ notice[n].step = "none"
    /\ notice' = [notice EXCEPT ![n] = [topic |-> t, kind |-> timer[t], step |-> "begun"]]
    /\ Debounce(t, None)
    /\ UNCHANGED <<roomVars, leaveVars, stops, feedVars>>

\* createNotification: the row is inserted ...
InsertNotice(n) ==
    /\ notice[n].step = "begun"
    /\ NoticeGoes(n, "inserted")
    /\ UNCHANGED <<roomVars, leaveVars, timer, stops, feedVars>>

\* ... published, before it is committed, to the streams open now, unless Redis
\* fails; and its delivery is recorded, which may undo the transaction.
Publish(n) ==
    /\ notice[n].step = "inserted"
    /\ shown' \in {shown, IF stream = "open" THEN shown \cup {n} ELSE shown}
    /\ \E step \in {"published", "spoiled"} : NoticeGoes(n, step)
    /\ UNCHANGED <<roomVars, leaveVars, timer, stops, history, resync, stream, opened>>

CommitNotice(n) ==
    /\ notice[n].step = "published"
    /\ NoticeGoes(n, "committed")
    /\ UNCHANGED <<roomVars, leaveVars, timer, stops, feedVars>>

\* A statement of the fan-out fails, or did.
UndoNotice(n) ==
    /\ notice[n].step \in {"begun", "inserted", "spoiled"}
    /\ NoticeGoes(n, "undone")
    /\ UNCHANGED <<roomVars, leaveVars, timer, stops, feedVars>>

\* The server stops: its timers, requests and open transactions are gone.
ServerStops ==
    /\ stops < MaxStops /\ stops' = stops + 1
    /\ timer' = [t \in Topics |-> None]
    /\ request' = [r \in Requests |->
                     IF request[r].step \in {"begun", "called", "written", "answered"}
                     THEN [request[r] EXCEPT !.step = "undone"] ELSE request[r]]
    /\ notice' = [n \in Notices |->
                    IF notice[n].step \in {"begun", "inserted", "published", "spoiled"}
                    THEN [notice[n] EXCEPT !.step = "undone"] ELSE notice[n]]
    /\ joining' = {} /\ stream' = "closed"
    /\ UNCHANGED <<status, egress, row, page, user, active, shown, history, resync, opened>>

-----------------------------------------------------------------------------
(* The staff member's page.                                                   *)

Committed == {n \in Notices : notice[n].step = "committed"}

\* The mount effect asks for the history; the server reads it.
ReadHistory ==
    /\ history.step = "idle"
    /\ history' = [step |-> "read", data |-> Committed]
    /\ UNCHANGED <<roomVars, leaveVars, timer, notice, stops, shown, resync, stream, opened>>

\* Its response replaces the list; an error leaves it as it is.
HistoryArrives ==
    /\ history.step = "read"
    /\ shown' \in {history.data, shown}
    /\ history' = [step |-> "done", data |-> {}]
    /\ UNCHANGED <<roomVars, leaveVars, timer, notice, stops, resync, stream, opened>>

\* resync: nothing while another one is in flight.
StartResync == resync' = IF resync.step = "idle" THEN [resync EXCEPT !.step = "asked"] ELSE resync

\* Mutant: a stream that opens again asks for nothing.
MutantOpenStream ==
    /\ Watching /\ stream = "closed" /\ stream' = "open"
    /\ opened' = TRUE
    /\ UNCHANGED <<roomVars, leaveVars, timer, notice, stops, shown, history, resync>>

\* onopen: every open after the first resyncs.
OpenStream ==
    /\ Watching /\ stream = "closed" /\ stream' = "open"
    /\ opened' = TRUE
    /\ IF opened THEN StartResync ELSE UNCHANGED resync
    /\ UNCHANGED <<roomVars, leaveVars, timer, notice, stops, shown, history>>

\* A proxy's timeout, a device that sleeps.
DropStream ==
    /\ stream = "open" /\ stream' = "closed"
    /\ UNCHANGED <<roomVars, leaveVars, timer, notice, stops, shown, history, resync, opened>>

\* The browser's "online" event.
Online ==
    /\ Watching /\ resync.step = "idle" /\ StartResync
    /\ UNCHANGED <<roomVars, leaveVars, timer, notice, stops, shown, history, stream, opened>>

ReadResync ==
    /\ resync.step = "asked"
    /\ resync' = [step |-> "read", data |-> Committed]
    /\ UNCHANGED <<roomVars, leaveVars, timer, notice, stops, shown, history, stream, opened>>

\* mergeById
ResyncArrives ==
    /\ resync.step = "read"
    /\ shown' = shown \cup resync.data
    /\ resync' = NoFetch
    /\ UNCHANGED <<roomVars, leaveVars, timer, notice, stops, history, stream, opened>>

ResyncFails ==
    /\ resync.step # "idle"
    /\ resync' = NoFetch
    /\ UNCHANGED <<roomVars, leaveVars, timer, notice, stops, shown, history, stream, opened>>

-----------------------------------------------------------------------------
RequestStep(r) == \/ SetStatus(r) \/ StartEgress(r) \/ StopEgress(r) \/ WriteRecording(r)
                  \/ Answer(r) \/ Commit(r) \/ Undo(r)

NoticeStep(n) == InsertNotice(n) \/ Publish(n) \/ CommitNotice(n) \/ UndoNotice(n)

Next ==
    \/ \E p \in Pages, r \in Requests :
          Hear(p, r) \/ \E kind \in Kinds : Press(p, r, kind)
    \/ \E r \in Requests : RequestStep(r)
    \/ \E e \in Egresses : EgressEnds(e)
    \/ \E p \in Pages : Enter(p) \/ Remember(p) \/ Leave(p) \/ Logout(p)
    \/ \E t \in Topics, n \in Notices : Fire(t, n)
    \/ \E n \in Notices : NoticeStep(n)
    \/ ServerStops
    \/ ReadHistory \/ HistoryArrives \/ OpenStream \/ DropStream \/ Online
    \/ ReadResync \/ ResyncArrives \/ ResyncFails

Spec == Init /\ [][Next]_vars

\* No stream stays up for ever, EventSource opens it again, requests end, and not
\* every resync fails.
FairSpec ==
    /\ Spec
    /\ SF_vars(DropStream) /\ WF_vars(OpenStream)
    /\ WF_vars(ReadHistory) /\ WF_vars(HistoryArrives)
    /\ SF_vars(ReadResync) /\ SF_vars(ResyncArrives)

-----------------------------------------------------------------------------
(* Properties.                                                                *)

\* Types of the state.
TypeOK ==
    /\ status \in {"scheduled", "live", "ended"}
    /\ request \in [Requests -> [page : Pages \cup {None}, kind : Kinds \cup {None},
                                 target : Egresses \cup {None}, heard : BOOLEAN,
                                 step : {"idle", "begun", "called", "written", "answered",
                                         "committed", "undone"}]]
    /\ egress \in [Egresses -> {None, "running", "stopped"}]
    /\ row \in [Egresses -> {None, "pending", "completed"}]
    /\ page \in [Pages -> [status : {"scheduled", "live", "ended"},
                           recording : Egresses \cup {None}]]
    /\ user \in [Pages -> {"outside", "inside", "left"}]
    /\ active \subseteq Pages /\ joining \subseteq Pages
    /\ timer \in [Topics -> Kinds \cup {"left", None}]
    /\ notice \in [Notices -> [topic : Topics \cup {None}, kind : Kinds \cup {"left", None},
                               step : {"none", "begun", "inserted", "published", "spoiled",
                                       "committed", "undone"}]]
    /\ stops \in 0..MaxStops
    /\ shown \subseteq Notices
    /\ history \in [step : {"closed", "idle", "read", "done"}, data : SUBSET Notices]
    /\ resync \in [step : {"idle", "asked", "read"}, data : SUBSET Notices]
    /\ stream \in {"open", "closed"} /\ opened \in BOOLEAN

\* A recording that is shown as completed no longer runs at LiveKit, and one that
\* still runs has its row, or a request under way that inserts it, or one that was
\* undone after the egress started.
CompletedHasStopped ==
    /\ \A e \in Egresses : row[e] = "completed" => egress[e] = "stopped"
    /\ \A r \in Requests : egress[r] = "running" =>
         row[r] = "pending" \/ request[r].step \in {"called", "written", "answered", "undone"}

\* "Two different people leaving inside the same window" are both reported: whoever
\* left is in a pending timer or a notice, whatever else was debounced since, unless
\* the server stopped.
EveryLeaverIsReported ==
    \A p \in Pages : user[p] = "left" =>
        \/ timer[p] = "left" \/ stops > 0
        \/ \E n \in Notices : notice[n].topic = p

\* However publishing, streams, restarts and resyncs interleave: a committed notice is
\* in the list of a watching page in the end.
EveryNoticeIsShown ==
    \A n \in Notices : notice[n].step = "committed" /\ Watching ~> n \in shown
=============================================================================
