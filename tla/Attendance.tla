----------------------------- MODULE Attendance -----------------------------
(* One event's attendance: the versions of its form (form.service.ts), the    *)
(* volunteers' pages that load the form and submit entries (Attendance.tsx),  *)
(* the requests that check the window and insert them (attendance.service.ts) *)
(* and the entries a page keeps in the browser while it is offline (db.ts,    *)
(* useNetwork.ts).                                                            *)
(*                                                                            *)
(* A page holds one filled-in form at a time: its draft.  Requests run in the *)
(* transaction that tenantContext.ts commits after their response.            *)
EXTENDS Integers

CONSTANTS Drafts,         \* filled-in forms, each the content of one page
          Requests,       \* POST /rooms/:id/attendance
          Editors,        \* PUT /rooms/:id/form
          Enders,         \* stopLive, and updateRoom to "ended" or "cancelled"
          MaxTime,        \* bound on the clock
          Windows,        \* what updateRoom may set: opens (scheduled_start less
                          \* attendance_window_before), closes (scheduled_end) and
                          \* after (attendance_window_after)
          Kept,           \* form versions kept, 10
          ServerStops     \* whether a server may stop between answer and COMMIT

ASSUME AttendanceAssumption ==
    /\ MaxTime \in Nat
    /\ Windows # {} /\ Windows \subseteq [opens : Int, closes : Int, after : Nat]
    /\ Kept \in Nat \ {0}
    /\ ServerStops \in BOOLEAN
    /\ "nobody" \notin Drafts

VARIABLES
    now,
    room,       \* the committed columns of event_rooms that the window rule reads
    ending,     \* requests that end the room: the actual_end they will commit
    endedAt,    \* history, while the room is ended or cancelled: when that committed
    widest,     \* ... and the widest late window it has had since
    forms,      \* form versions with deleted_at null
    save,       \* progress of a form save, with the version it inserts
    page,       \* what a page is doing with its draft
    open,       \* the times at which a page, by the room it loaded, takes the form
    posting,    \* drafts whose submission posts: isOnline was true at the click
    store,      \* the browser's IndexedDB record of a draft: its synced field, or "none"
    request,    \* the progress of a submission
    synced      \* drafts whose entry was recorded by the offline synchronisation

roomVars == <<room, ending, endedAt, widest>>
formVars == <<forms, save>>
pageVars == <<page, open, posting, store, request, synced>>
vars == <<now, roomVars, formVars, pageVars>>

Times == 0..MaxTime
Never == -1                    \* actual_end is null
Final == {"ended", "cancelled"}
Rooms == [status : {"scheduled", "live"} \cup Final, end : Times \cup {Never}, window : Windows]

Nobody == "nobody"
NoRequest == [draft |-> Nobody, step |-> "idle", begun |-> 0, open |-> {},
              spoiled |-> FALSE, answered |-> FALSE, lost |-> FALSE]
NoSave == [step |-> "idle", version |-> 0]

InTransaction == {"begun", "read", "checked", "answered"}

Init ==
    /\ now = 0
    /\ room \in [status : {"scheduled"}, end : {Never}, window : Windows]
    /\ ending = [x \in Enders |-> Never] /\ endedAt = 0 /\ widest = 0
    /\ forms \in {{}, {1}}
    /\ save = [e \in Editors |-> NoSave]
    /\ page = [d \in Drafts |-> "away"]
    /\ open = [d \in Drafts |-> {}]
    /\ posting = {}
    /\ store = [d \in Drafts |-> "none"]
    /\ request = [q \in Requests |-> NoRequest]
    /\ synced = {}

-----------------------------------------------------------------------------
(* The room, as the requests of RoomLifecycle commit it.                      *)

TimePasses ==
    /\ now < MaxTime
    /\ now' = now + 1
    /\ UNCHANGED <<roomVars, formVars, pageVars>>

\* startLive, and updateRoom to "live" or "scheduled": actual_end stays as it was.
StartOrReschedule ==
    /\ \E s \in {"live", "scheduled"} : room' = [room EXCEPT !.status = s]
    /\ endedAt' = 0 /\ widest' = 0
    /\ UNCHANGED <<now, ending, formVars, pageVars>>

\* updateRoom may move the schedule and the attendance window at any time.
MoveWindow ==
    /\ \E w \in Windows :
         /\ room' = [room EXCEPT !.window = w]
         /\ widest' = IF room.status \in Final /\ w.after > widest THEN w.after ELSE widest
    /\ UNCHANGED <<now, ending, endedAt, formVars, pageVars>>

\* stopLive and updateRoom take actual_end from the clock before their UPDATE, which
\* may wait for the row; the fan-out and the response come before the COMMIT.
ReadClock(x) ==
    /\ ending[x] = Never
    /\ ending' = [ending EXCEPT ![x] = now]
    /\ UNCHANGED <<now, room, endedAt, widest, formVars, pageVars>>

CommitEnd(x) ==
    /\ ending[x] # Never
    /\ \E s \in Final : room' = [room EXCEPT !.status = s, !.end = ending[x]]
    /\ ending' = [ending EXCEPT ![x] = Never]
    /\ endedAt' = now /\ widest' = room.window.after
    /\ UNCHANGED <<now, formVars, pageVars>>

EndFails(x) ==
    /\ ending[x] # Never
    /\ ending' = [ending EXCEPT ![x] = Never]
    /\ UNCHANGED <<now, room, endedAt, widest, formVars, pageVars>>

\* Mutant: an ended room takes entries without a limit.
MutantInWindow(r, t) ==
    \/ r.status = "live" /\ (r.end = Never \/ t <= r.end + r.window.after)
    \/ r.status = "ended" /\ r.end # Never
    \/ r.status = "scheduled" /\ r.window.opens <= t /\ t <= r.window.closes

\* isWithinAttendanceWindow.  A live room with an actual_end is one that was
\* ended before and started again.
InWindow(r, t) ==
    \/ r.status = "live" /\ (r.end = Never \/ t <= r.end + r.window.after)
    \/ r.status = "ended" /\ r.end # Never /\ t <= r.end + r.window.after
    \/ r.status = "scheduled" /\ r.window.opens <= t /\ t <= r.window.closes

\* What a reader of the room learns from it: when, by the rule, it takes entries.
OpenTimes == {t \in Times : InWindow(room, t)}

-----------------------------------------------------------------------------
(* Form versions.                                                             *)

Newest(vs) == IF vs = {} THEN 0 ELSE CHOOSE v \in vs : \A w \in vs : w <= v

SaveGoes(e, step) == save' = [save EXCEPT ![e].step = step]

\* Forms are saved in behaviours of their own: a submission accepts every version
\* of its room, so nothing it or the room does depends on them.
Untouched == /\ now = 0 /\ room.status = "scheduled" /\ room.end = Never
             /\ \A x \in Enders : ending[x] = Never
             /\ \A d \in Drafts : page[d] = "away"
NoSaves == \A e \in Editors : save[e].step = "idle"

SaveReadsLatest(e) ==
    /\ save[e].step = "idle" /\ Untouched
    /\ save' = [save EXCEPT ![e] = [step |-> "insert", version |-> Newest(forms) + 1]]
    /\ UNCHANGED <<now, roomVars, forms, pageVars>>

\* Mutant: no unique index on room and version.
MutantVersionFree(v) == TRUE

\* form_definitions_room_version_unique: an INSERT waits for the transaction that
\* inserted the same version, and fails once that one commits.
VersionFree(v) ==
    /\ v > Newest(forms)
    /\ \A e \in Editors : save[e].step \in {"inserted", "answered"} => save[e].version # v

SaveInserts(e) ==
    /\ save[e].step = "insert" /\ VersionFree(save[e].version)
    /\ SaveGoes(e, "inserted")
    /\ UNCHANGED <<now, roomVars, forms, pageVars>>

\* The duplicate version, an INSERT that fails, an audit entry that does: nothing
\* of the transaction stands.
SaveFails(e) ==
    /\ save[e].step \in {"insert", "inserted", "answered"}
    /\ SaveGoes(e, "undone")
    /\ UNCHANGED <<now, roomVars, forms, pageVars>>

SaveAnswers(e) ==
    /\ save[e].step = "inserted"
    /\ SaveGoes(e, "answered")
    /\ UNCHANGED <<now, roomVars, forms, pageVars>>

\* The versions the save soft-deletes.
Stale(v) == {w \in forms : w < v - (Kept - 1)}

SaveCommits(e) ==
    /\ save[e].step = "answered"
    /\ forms' = (forms \cup {save[e].version}) \ Stale(save[e].version)
    /\ SaveGoes(e, "committed")
    /\ UNCHANGED <<now, roomVars, pageVars>>

-----------------------------------------------------------------------------
(* The page.                                                                  *)

PageGoes(d, step) == page' = [page EXCEPT ![d] = step]

\* The load effect: the latest form and the room.  Without a form there is nothing
\* to fill in.
Load(d) ==
    /\ page[d] = "away"
    /\ forms # {}
    /\ PageGoes(d, "empty")
    /\ open' = [open EXCEPT ![d] = OpenTimes]
    /\ UNCHANGED <<now, roomVars, formVars, posting, store, request, synced>>

\* windowCheck repeats the server's rule on the room as the page loaded it, once.
WindowCheck(d) == now \in open[d]

\* The fields are disabled while submitting.
MayEdit(d) == page[d] \in {"empty", "ready"} /\ WindowCheck(d)

\* Mutant: the button is not disabled while a submission is under way.
MutantMaySubmit(d) == page[d] \in {"ready", "waiting"} /\ WindowCheck(d)

\* The submit button; the browser insists on the required fields.
MaySubmit(d) == page[d] = "ready" /\ WindowCheck(d)

FillIn(d) ==
    /\ MayEdit(d) /\ page[d] = "empty"
    /\ PageGoes(d, "ready")
    /\ UNCHANGED <<now, roomVars, formVars, open, posting, store, request, synced>>

\* onSubmit, up to its first await: a photo is uploaded first, online or not.  Photos
\* are taken (or fail to be), retaken and removed at any time, and the network comes
\* and goes, so a click finds either or neither; what follows goes by the photo and
\* the isOnline of the click, whatever they are by then.
Submit(d) ==
    /\ MaySubmit(d)
    /\ \E step \in {"photo", "saving"} : PageGoes(d, step)
    /\ posting' \in {posting \cup {d}, posting \ {d}}
    /\ UNCHANGED <<now, roomVars, formVars, open, store, request, synced>>

\* compressImage, the presigned URL and the upload.
PhotoUploaded(d) ==
    /\ page[d] = "photo"
    /\ PageGoes(d, "saving")
    /\ UNCHANGED <<now, roomVars, formVars, open, posting, store, request, synced>>

\* Any of the three throws: an error is shown, the form stays filled in.
PhotoFails(d) ==
    /\ page[d] = "photo"
    /\ PageGoes(d, "ready")
    /\ posting' = posting \ {d}
    /\ UNCHANGED <<now, roomVars, formVars, open, store, request, synced>>

\* The request reaches the server, whose transaction begins now: submitted_at.
Send(d, q) ==
    /\ page[d] = "saving" /\ d \in posting
    /\ request[q].step = "idle"
    /\ request' = [request EXCEPT ![q] = [NoRequest EXCEPT !.draft = d, !.step = "begun",
                                                           !.begun = now]]
    /\ PageGoes(d, "waiting")
    /\ posting' = posting \ {d}
    /\ UNCHANGED <<now, roomVars, formVars, open, store, synced>>

\* Mutant: the page reports success without keeping the entry.
MutantKeep(d) == store' = store

\* db.attendance.add.
Keep(d) == store' = [store EXCEPT ![d] = "false"]

\* The request does not get through, or db.attendance.add throws: an error is shown,
\* the form stays filled in.
SavingFails(d) ==
    /\ page[d] = "saving"
    /\ PageGoes(d, "ready")
    /\ posting' = posting \ {d}
    /\ UNCHANGED <<now, roomVars, formVars, open, store, request, synced>>

\* The page was offline at the click, whatever it is by now: the entry is kept in the
\* browser and the form is reset.
SaveOffline(d) ==
    /\ page[d] = "saving" /\ d \notin posting
    /\ Keep(d)
    /\ PageGoes(d, "submitted")
    /\ UNCHANGED <<now, roomVars, formVars, open, posting, request, synced>>

\* 201: the page shows "Submitted at" and resets the form.
HearSuccess(d, q) ==
    /\ page[d] = "waiting" /\ request[q].draft = d /\ ~request[q].lost
    /\ request[q].answered
    /\ PageGoes(d, "submitted")
    /\ UNCHANGED <<now, roomVars, formVars, open, posting, store, request, synced>>

\* An error response: it is shown, the form stays filled in.
HearError(d, q) ==
    /\ page[d] = "waiting" /\ request[q].draft = d /\ ~request[q].lost
    /\ request[q].step = "undone" /\ ~request[q].answered
    /\ request' = [request EXCEPT ![q].lost = TRUE]
    /\ PageGoes(d, "ready")
    /\ UNCHANGED <<now, roomVars, formVars, open, posting, store, synced>>

\* The request times out or the connection breaks: whatever the server answers is
\* lost, and the form stays filled in.
GiveUp(d, q) ==
    /\ page[d] = "waiting" /\ request[q].draft = d /\ ~request[q].lost
    /\ request' = [request EXCEPT ![q].lost = TRUE]
    /\ PageGoes(d, "ready")
    /\ UNCHANGED <<now, roomVars, formVars, open, posting, store, synced>>

-----------------------------------------------------------------------------
(* The request.                                                               *)

RequestGoes(q, step) == request' = [request EXCEPT ![q].step = step]

\* submitAttendance reads the room, checks the access to it, and only then compares
\* it with the clock.
ReadRoom(q) ==
    /\ request[q].step = "begun"
    /\ request' = [request EXCEPT ![q].step = "read", ![q].open = OpenTimes]
    /\ UNCHANGED <<now, roomVars, formVars, page, open, posting, store, synced>>

CheckWindow(q) ==
    /\ request[q].step = "read" /\ now \in request[q].open
    /\ request' = [request EXCEPT ![q].step = "checked", ![q].open = {}]
    /\ UNCHANGED <<now, roomVars, formVars, page, open, posting, store, synced>>

\* The form belongs to the room and the data validates against its fields; then the
\* INSERT, recordAuditSafely, whose own failing INSERT is swallowed and aborts the
\* transaction, and the response.
InsertAndAnswer(q) ==
    /\ request[q].step = "checked"
    /\ \E fails \in BOOLEAN :
         request' = [request EXCEPT ![q].step = "answered", ![q].spoiled = fails,
                                    ![q].answered = TRUE]
    /\ UNCHANGED <<now, roomVars, formVars, page, open, posting, store, synced>>

Commit(q) ==
    /\ request[q].step = "answered" /\ ~request[q].spoiled
    /\ RequestGoes(q, "committed")
    /\ UNCHANGED <<now, roomVars, formVars, page, open, posting, store, synced>>

\* Refused by the window or the validation, failed, given up by the client, or
\* committed after a failed statement.
RollBack(q) ==
    /\ request[q].step \in InTransaction
    /\ request[q].step = "answered" => request[q].spoiled \/ ServerStops
    /\ request' = [request EXCEPT ![q].step = "undone", ![q].begun = 0, ![q].open = {}]
    /\ UNCHANGED <<now, roomVars, formVars, page, open, posting, store, synced>>

-----------------------------------------------------------------------------
(* Coming online again.                                                      *)

\* Which values IndexedDB indexes: a record whose synced field is a boolean is not
\* in the index on synced.
IsKey(value) == value \notin {"false", "true"}

\* db.attendance.where("synced").equals(0).
Unsynced == {d \in Drafts : IsKey(store[d]) /\ store[d] = "0"}

\* The "online" event, or a page that opens online, runs syncOfflineData: it posts what
\* the query returns one after the other, and any post may fail.  The query returns
\* nothing, since entries are kept with synced false.
Synchronise ==
    /\ \E posted \in SUBSET Unsynced :
         /\ synced' = synced \cup {d \in posted : InWindow(room, now)}
         /\ store' = [d \in Drafts |-> IF d \in posted THEN "true" ELSE store[d]]
    /\ UNCHANGED <<now, roomVars, formVars, page, open, posting, request>>

-----------------------------------------------------------------------------
SaveStep(e) == SaveInserts(e) \/ SaveFails(e) \/ SaveAnswers(e) \/ SaveCommits(e)

RequestStep(q) == \/ ReadRoom(q) \/ CheckWindow(q) \/ InsertAndAnswer(q)
                  \/ Commit(q) \/ RollBack(q)

PageStep(d) ==
    \/ PhotoUploaded(d) \/ PhotoFails(d) \/ SavingFails(d) \/ SaveOffline(d)
    \/ \E q \in Requests : Send(d, q) \/ HearSuccess(d, q) \/ HearError(d, q) \/ GiveUp(d, q)

RoomStep == \/ TimePasses \/ StartOrReschedule \/ MoveWindow
            \/ \E x \in Enders : ReadClock(x) \/ CommitEnd(x) \/ EndFails(x)

Next ==
    \/ \E e \in Editors : SaveReadsLatest(e) \/ SaveStep(e)
    \/ /\ NoSaves
       /\ \/ RoomStep
          \/ \E d \in Drafts : Load(d) \/ FillIn(d) \/ Submit(d) \/ PageStep(d)
          \/ \E q \in Requests : RequestStep(q)
          \/ Synchronise

Spec == Init /\ [][Next]_vars

-----------------------------------------------------------------------------
(* Properties.                                                                *)

\* Types of the state.
TypeOK ==
    /\ now \in Times
    /\ room \in Rooms
    /\ ending \in [Enders -> Times \cup {Never}]
    /\ endedAt \in Times /\ widest \in Nat
    /\ forms \subseteq Nat
    /\ save \in [Editors -> [step : {"idle", "insert", "inserted", "answered", "committed",
                                     "undone"},
                             version : Nat]]
    /\ page \in [Drafts -> {"away", "empty", "ready", "photo", "saving", "waiting", "submitted"}]
    /\ open \in [Drafts -> SUBSET Times]
    /\ posting \subseteq Drafts
    /\ store \in [Drafts -> {"none", "false", "true"}]
    /\ request \in [Requests -> [draft : Drafts \cup {Nobody},
                                 step : {"idle", "committed", "undone"} \cup InTransaction,
                                 begun : Times, open : SUBSET Times, spoiled : BOOLEAN, answered : BOOLEAN,
                                 lost : BOOLEAN]]
    /\ synced \subseteq Drafts

Entries(d) == {q \in Requests : request[q].draft = d /\ request[q].step = "committed"}

\* However often the room is started, ended and moved, and whatever was under way
\* when it ended: no entry of an ended or cancelled room bears a time after both the
\* COMMIT of its end, which the people outside know of, and the late window counted
\* from the end it recorded, the widest it was given since.  (Between the reading of
\* the clock and the COMMIT the room still takes entries, however narrow the window.)
EntriesInTime ==
    room.status \in Final =>
        \A d \in Drafts : \A q \in Entries(d) :
            request[q].begun <= endedAt \/ request[q].begun <= room.end + widest

\* A page that says "Submitted" has its entry in the browser, in the database, or in
\* a transaction that will be committed.  A swallowed audit failure takes the entry
\* back, and so does a server that stops between its answer and the COMMIT
\* (ServerStops, FALSE in the run): those are the only ways to lose it.
SubmittedIsKept ==
    \A d \in Drafts : page[d] = "submitted" =>
        \/ store[d] # "none"
        \/ \E q \in Requests : /\ request[q].draft = d /\ request[q].answered
                               /\ \/ request[q].step \in {"answered", "committed"}
                                  \/ request[q].spoiled \/ ServerStops

\* One filled-in form becomes two entries only through an answer that was lost: the
\* volunteer who saw no success submits again, and no key tells the server.
DuplicateNeedsLostAnswer ==
    \A d \in Drafts : \A q1, q2 \in Entries(d) :
        q1 # q2 => request[q1].lost \/ request[q2].lost

Standing == {e \in Editors : save[e].step = "committed"}

\* Concurrent saves of the form: no two that stand share a version, none stands above
\* the version the pages load, and exactly the newest versions are kept.
FormVersionsStand ==
    /\ forms = {v \in 1..Newest(forms) : v > Newest(forms) - Kept}
    /\ \A e \in Standing : save[e].version <= Newest(forms)
    /\ \A e1, e2 \in Standing : save[e1].version = save[e2].version => e1 = e2
=============================================================================
