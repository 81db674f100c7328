# Eventclick: a verification project

Eventclick is a platform for running events: an Express server with PostgreSQL
(row-level security per organisation), Redis, two SQS queues with dead-letter
queues, an email provider (Resend), LiveKit, and a React client. This project
models the parts whose correctness depends on interleavings, failures and
retries, checks them with TLC on small instances, and proves their main
invariants with TLAPS for every size of instance.

Paths below are relative to `src/packages/server/src/` unless they say otherwise;
`client/` stands for `src/packages/client/src/`.

## 1. Inventory

### How the parts interact

    browser --HTTP--> controllers --(one transaction per request)--> PostgreSQL
      ^                   |  in-app notification: row of the same transaction
      |                   |  email: email_deliveries row (other connection) + SQS message
      |                   |  PDF report: SQS message; its row is the worker's
      |                   |  LiveKit: egresses of recordings
      |                   |  Redis: session and user caches, active rooms, poll locks
      +-- event stream <--+  Redis pub/sub: a notice is published when it is inserted
    poll jobs and purges (every server, timers of its own) --> notices, S3 buckets
    debounced timers (memory of one server) --> notices
    SQS email queue --> email worker --> provider        (worker.ts, second half)
    SQS PDF queue   --> PDF worker   --> S3, notice, email (worker.ts, first half)
    both DLQs       --> drain, every five minutes         (dlq-consumer.ts)

Server processes share nothing but PostgreSQL, Redis, the queues and the buckets;
within a process handlers interleave at every `await`. A browser tab has one thread,
and its requests' answers arrive in any order.

### Components, their state, what is hard, and what makes them correct

| Component | State | Operations | Hard | Correct when | Module |
|---|---|---|---|---|---|
| Email delivery | `email_deliveries` (status, `send_epoch`, `claimed_until`), queue messages, provider's idempotency keys | dispatch, enqueue or inline send, claim, send, record, release, requeue | at-least-once queue, crash after the provider accepted, sends that outlive the lease | no delivery forgotten, one email per epoch, attempts exclude each other | `EmailDelivery` |
| PDF jobs | `pdf_jobs` (status, attempts, `updated_at`), messages and their visibility | enqueue, claim, heartbeat, render, complete, announce, count a failure | lost heartbeats, duplicates, crash between claim and completion | no stranded job, failed exactly when told, completed stays completed | `PdfJobs` |
| DLQ drain | DLQ messages | settle a message against its row, delete it | races a late handler, crash between the two | every message ends in a settled row | both of these |
| Room lifecycle | `event_rooms` (status, marker columns, soft delete), the request's transaction, its notices | create, start, stop, edit, cancel, delete | concurrent requests, swallowed statement failures, response before COMMIT | one notice of a kind stands, marker iff notice, deleted is deleted | `RoomLifecycle` |
| Event expiry poll | Redis lock, the marker column | lock, SELECT, notify, mark, unlock | stale SELECT, a stop before the marker | retold only after a failed marker, always announced in the end | `RoomLifecycle` |
| Request transactions | pool connections, AsyncLocalStorage binding | BEGIN, COMMIT on `finish`, ROLLBACK on `close`, `authDb`, background contexts | a handler that outlives its connection, pool exhaustion, clients that leave early | connections are exclusive, released once, and come back | `TenantContext` |
| Accounts and sessions | `users`, `sessions`, single-use tokens, three kinds of Redis copies | register, invite, sign in, refresh, log out, verify, reset, change, delete | concurrent rotation, copies filled after a write, two uses of a link at once | only verified accounts sign in, alarms are true, a link works once, copies are stale only by a write | `Identity` |
| Attendance | form versions, entries, the page's draft, the browser's IndexedDB | load, fill in, submit, save offline, save the form | window that moves with `actual_end` and with `updateRoom`, lost answers, going offline, three editors | no late entry, nothing reported submitted is gone, versions unique | `Attendance` |
| Live room | room status, egresses and recording rows, active rooms, debounced timers | start, stop, record, enter, leave, log out | LiveKit is outside the transaction, timers die with the process | completed recordings have stopped, leavers are reported | `LiveRoom` |
| In-app notifications | notice rows, pub/sub, the page's list | insert, publish, load, resync | publish before COMMIT, a stream that drops, answers that overtake each other | committed notices are shown in the end | `LiveRoom` |
| Retention purges | `audit_logs`, four data tables, two buckets, legal holds | archive then delete, object then row, receipts | a stop between the two, overlapping passes, holds set meanwhile, cascades | nothing deleted without its copy, holds protect, receipts count once | `Retention` |
| Web client | token, status, user, page, loads, requests in flight | routing, refresh, each page's loads and controls | answers out of order, expiring tokens, others' writes | offered controls are granted, settled pages are current, the tab comes to rest | `ConsolePages`, `Console` |
| Share links | the token in the address, the room's status | read the room, join it | the room is cancelled between the reading and the join | a join is refused only to a page that could not know | `ConsolePages`, `Console` |
| Access, assignments, organisation administration | role permissions, assignments | grant, revoke, create and delete users | pages and guards that disagree | as the web client | `ConsolePages` |
| Attendance window poll | two markers, a closing time | as the expiry poll | as the expiry poll | each marker's notice once | - |
| Presence, push, viewer tokens, ops console, report rendering | mostly single statements | | little concurrency | - | - |

`PROJECT.json` lists each with its sources and status, and, under `hazards`, the
lines where something can go wrong that a test would hardly reach.

## 2. Modules

| Module | Lines | Models |
|---|---|---|
| `EmailPromise` | 48 | abstract: what a delivery row and its emails may do, without queue, workers, leases |
| `EmailDelivery` | 458 | the email subsystem with both queues and the provider |
| `PdfJobs` | 403 | the PDF job subsystem |
| `RoomLifecycle` | 342 | requests on a room, their transactions, and the expiry poll |
| `TenantContext` | 289 | pinned connections of requests and background jobs |
| `Identity` | 547 | one account, its sessions and links, and the copies in Redis |
| `Attendance` | 436 | the form, the pages that fill it in, their entries |
| `LiveRoom` | 407 | broadcast, recordings, debounced notices, the way of a notice to a page |
| `Retention` | 336 | both purges |
| `ConsolePages` | 422 | no state: what roles may do, what pages load and offer, what the API grants |
| `Console` | 638 | one browser tab: session, routing, loads, requests, others' writes |

`X_proofs` holds the theorems of `X`, `WebRequests_proofs` those of `TenantContext` and `Console`
(the server's and the browser's end of a request; to be extended together, `TenantContext` has the names
`TCInit`, `TCNext`, `TCSpec` and `TCTypeOK`);
`MCX` holds definitions that only a run of `X` needs: symmetry sets
(`MCEmailDelivery`, `MCRoomLifecycle`, `MCIdentity`), the owners of rows and the jobs of the
timers (`MCRetention`), accounts and entry pages (`MCConsole`).

Operators named `Mutant...` are altered copies of an operation, with a bug one
could plausibly write; nothing uses them in a run. Each property of a run has one
that breaks it (`mutants` in `PROJECT.json`), which shows that the property depends
on the code it is about.

How they compose. `TenantContext` is the transaction every request module relies
on: `RoomLifecycle`, `Attendance` and `LiveRoom` each take from it that a request's
writes are private until COMMIT, that COMMIT follows the response, and that a
statement that failed turns COMMIT into ROLLBACK. The room's status is an input of
`Attendance` (`StartOrReschedule`, `MoveWindow`, `ReadClock`, `CommitEnd`) and of `Console` (`OthersWrite`), which change
it as `RoomLifecycle`'s committed requests do. The notices of `LiveRoom` are rows like those
`RoomLifecycle` posts. `Console` extends `ConsolePages`.

### EmailDelivery

One action per statement that `attemptEmailDelivery` awaits, because other
processes run in between: the claiming UPDATE (`Claim`, `ClaimMatchesNoRow`), the
SELECT after it (`LookTerminal`, `LookDeferred`), the provider's call
(`ProviderAccepts`, which may lose its response, `ProviderRefuses`), and the
write that ends the attempt (`RecordSent`, `RecordRejected`, `Release`, or their
failures). `Crash` may come between any two. `MarkFailed` is shared by
`RecordRejected` and the drain, as in the code. What the caller does with an
outcome is part of the action: `Throw` keeps the message, `DeleteMessage`
follows `settled`.

A message is identified by row and send epoch, since one is sent for each; its
body holds only the row, so an old message can act on a requeued row, as it can
in the code. Clocks are abstracted: the lease and the requeue guard ("attempted
within the last 120 s") are set by the same UPDATE and have the same length, so a
Boolean `recent` stands for both; it turns false at any moment, or, when
`SendsMayOutliveLease` is FALSE, only once no attempt on the row is open. A hidden message
may reappear at any moment, which covers every backoff, deferral and visibility
timeout. `orphans` remembers sends that nothing retries (a failed enqueue, a
failed inline attempt), the gap the code assigns to a planned outbox sweeper.

`EmailPromise` is the abstract specification: `status`, `sendEpoch` and `inbox`
have the same names; `INSTANCE EmailPromise WITH` maps them, and the other
variables are hidden.

### PdfJobs

Time is counted in heartbeats (60 s), because the correctness of the claim rests
on comparing durations: the stale threshold (render timeout plus 60 s, 3 ticks)
and the visibility timeout (300 s, 5 ticks), renewed by the heartbeat. `Tick`
ages rows and hidden messages. `claimPdfJob` is two steps, the SELECT
(`ClaimRead`, with `decidePdfJobClaim` as `Decide`) and the write conditional on
what was read (`ClaimInsert`, `ClaimUpdate`, `Abandon`, `ClaimLost`), since its
transaction takes no lock in between. The catch path is two steps as well
(`CatchRead`, `RecordFailure`), and its write is unconditional, as in the code.
Abandoning and draining write the row and the requester's notice in one
background transaction; `createNotification` swallows a failure of its
`notification_deliveries` INSERT, so the transaction may be rolled back with nobody
throwing (`UndoneUnseen`), and the caller deletes the message. The history variable
`undone` marks the job, and is cleared by the next write of the row.
`DuplicateReceives` switches the queue's anomalies on: a message delivered while
hidden, heartbeats lost, a delete slower than the visibility timeout.

### RoomLifecycle

One room, with all requests on it. A request's first write takes the row lock
(`lock`) and makes a private copy of the row (`draft`); `Commit` publishes it.
After the write come the audit entry (`Audit`), for create the self-assignment
(`Assign`), the marker claim (`Claim`), the fan-out (`FanOut`), the response
(`Answer`), and only then COMMIT, which is how `tenantContext.ts` works (COMMIT
on the response's `finish` event). A statement that fails and is swallowed
poisons the transaction: PostgreSQL turns its COMMIT into a ROLLBACK. The in-app
notice (`posted`) is a row of the transaction; the email (`told`) is not.

The poll takes its Redis lock, selects, notifies from what it selected, and sets
the marker with its own guarded UPDATE; each is an action, and a server can stop
between any two.

Abstractions: one member of the staff stands for all, with all channels on; a
room's descriptive columns, the quota check before an end, and the attendance
markers are left out; the fallback handlers write none of the modelled columns;
a client's disconnect is a rollback that ends the request (what the handler does
after it is in `TenantContext`).

### TenantContext

A request's way from `setTenantContext` to `cleanup`, and a background job's through
`runInBackgroundTenantContext`. `owner` says who pinned a connection, `tx` whose BEGIN
is in force on it, `store` which connection the handler's statements go to
(AsyncLocalStorage): after a client left, the last two can differ, and `Statement` then
sets `strayed`. `CallAuthDb`, `Borrow` and `Return` are a statement on `authDb`, which without
`AUTH_DATABASE_URL` takes a second connection of the same pool; `AcquireTimesOut` and
`BorrowTimesOut` are `connectionTimeoutMillis`. `LeaveEarly` is a client that leaves before the
listeners are added: nothing then ends the transaction but `IdleInTransaction`,
PostgreSQL's `idle_in_transaction_session_timeout`.

### Identity

One account, since accounts share no state. A request is a `kind` and a step `pc`; each
`await` on PostgreSQL or Redis is a step, and the loop of the code's helpers (`findUserByEmail`,
`findUserById`, `findSessionByToken`) is shared by all kinds (`EmailKeyHit`, `UserKeyHit`, `SelectUser`,
`FillUser`; `PresentToken`, `SelectSession`, `FillSession`). A copy in Redis may expire at any moment, and
every Redis call may be skipped (`redisClient.isOpen`). `lock` and `draft` are the row
as an open transaction wrote it (profile edit, deletion). The names of people are 0 and 1,
passwords are numbers, 0 for a null hash; what the emails say and how hashes are
computed is left out. `Rotate` and `Retire` are the two statements of a rotation, in the
order of the code (successor first), and `ReuseDetected` the alarm that revokes the family.
History: `wins` counts what each link let through.

### Attendance

A page holds one filled-in form at a time, its draft, and checks the window itself
(`WindowCheck`) by the room it loaded, kept as the times at which that room takes the form
(`open`, `OpenTimes`); the server reads the room again (`ReadRoom`) and then the clock
(`CheckWindow`), and the entry bears the time at which its transaction began (`begun`), as
PostgreSQL's `now()` does. `InWindow` is `isWithinAttendanceWindow`, for all statuses.
The room's schedule and window may be moved at any time (`MoveWindow`), and an end is two steps:
`ReadClock` takes `actual_end` before the `UPDATE`, `CommitEnd` makes it known after the fan-out and the
response. `endedAt` and `widest` are history: when the standing end was committed, and the widest late window since.
Whether a click posts or keeps the entry in the browser goes by the `isOnline` its handler closed over
(`posting`, chosen at `Submit`), whatever the network does during the upload; so a page that went offline
posts and fails (`SavingFails`), as one does whose IndexedDB throws, and one that came back keeps the entry locally.
Photos are taken, lost and removed at any time, so a click finds one or none.
An answer can be lost (`GiveUp`): the page then offers the form again. `SaveOffline` writes
IndexedDB, and `Unsynced` evaluates the query of `client/hooks/useNetwork.ts` with IndexedDB's keys,
where a Boolean is no key; `synced` would hold what the synchronisation recorded. A form
save is `SELECT` of the newest version, `INSERT` of the next under the unique
index, deletion of the versions no longer kept, and COMMIT after the answer.

### LiveRoom

Three things in one module because they meet in it. The publishers' pages: one
button press is a request (`Press`), its statements are actions, and what it did at LiveKit
(`StartEgress`, `StopEgress`) stands although the transaction may not. The debounced
notices: `timer` is the memory of one server, replaced per key; `Remember` is the write of the
active-room key the handler does not await, so that a logout may come first; `Fire` starts a
notice's transaction, and a restart (`ServerStops`) loses timers and open transactions.
The watching page: `useNotifications` with its initial load, its stream and the one
resync in flight; `Publish` comes before `CommitNotice`, so a page can be told of a notice no
query returns yet.

### Retention

A pass fixes its cutoff and its holds when it begins (`Begin`), then reads a batch,
copies it to the archive or deletes its objects, and deletes the rows in another
transaction, which counts what it deleted. Two timers may run passes of one job at
once. `Archive` uploads organisation by organisation, `DeleteObjects` deletes any subset of
the keys it is given (the API reports errors per key), `Cascade` is the foreign key from photos to
submissions, `WriteReceipts` comes after the last batch. Meanwhile rows grow old, holds are set and lifted,
and requests upload and submit photos. `GrowsOld` and `ToggleHold` are limited to rows the
behaviour's job sweeps (`Watched`): the rest cannot change anything here.

### ConsolePages and Console

`ConsolePages` is a table in operators: for each page its route's guard, its reads, the
controls it offers to a role with what it has read, and for each control what the API
demands and does. `Console` is the tab: `ProtectedRoute` and `AuthRoute`, the refresh shared by all
requests that met a 401 (`refreshOnce`, `doRefresh`), the boot effect of `useAuth`, loads and their answers,
requests of controls and what the page does with answers and errors. One room and one
managed member stand for all of them. A page's controls are offered once its loads have ended; the requests
of one load are served in one step and answered in another; React renders a redirect before
the tab takes another event (`Render` before anything `Steady`). The live page loads in sequence, the room, then
the activities, then the streaming token (`Follows`, `Then`): when one fails, what came before it stays on the page with its
controls, beside the error, and the rest is not asked for (`Fail`). A field of a form shows what was typed from the press on
(`Typed`) and keeps it when the save fails (`Unsaved`). The shared page offers to join whatever the status; the API
refuses it for a cancelled room, which `ServeWrite` records with a reason of its own. The answer to a profile's save is the
whole user, which the client merges (`updateUser`), read on a second connection before the save commits (`early` in `Grant`).

Four pieces of history say what a page could know. `moved` marks a read that the server has changed, or
may have, without the page being told: others wrote it, an answer was lost or refused, the page that
wrote was left, or the client never folds that write back (`Unheard`). An answer under way keeps in `since` what
changed after it was given (`Becomes`, `Overtaken`), and passes it on to `moved` when it arrives (`Told`). `stale` says
that the page was opened by a link that could be out of date, `blind` that a control was pressed on a page that
was `Behind`, or that the room was taken away after the press (`TakenFrom`: from a member by the end of the access,
from a guest by the room's cancellation); `as` is the role a request was sent with.
`RoleGaps` names the controls that are known to be offered to roles the API or the
route refuses (section 6); anything else refused for its role violates `OfferedIsGranted`.

## 3. Runs

| Run | Shows | Instance |
|---|---|---|
| `email_queue` | `NoLostDelivery`; `AtMostOneEmailPerEpoch`; implements `EmailPromise` (`KeepsPromise`) | 1 row, 2 workers, 1 requeue, 2 receives, with and without a queue, sends may outlive leases |
| `email_lease` | `NoConcurrentSends`; `EveryDeliverySettles` | 1 row, 2 workers, 1 requeue, 1 receive, sends end within leases, fairness |
| `pdf_single` | `NoStrandedJob`, `RedeliveryFindsStale`, `FailureToldIffFailed`, `EveryJobEnds` | 1 job, 2 handlers, 3 attempts, 4 receives, real durations, fairness |
| `pdf_at_least_once` | `FailedIsTold`; `OnlyCatchUndoesCompletion` | 1 job, 2 handlers, 3 receives, all queue anomalies |
| `room_requests` | `OneStandingNotice`; `NoticeIffMarked`; `DeletedIsFrozen` | 2 requests of any kind, 1 polling server, 2 times |
| `room_expiry` | `ExpiryRetoldOnlyIfUnmarked`; `ExpiredIsAnnounced` | 1 request, 2 polling servers, 4 times, lookback 1, fairness |
| `tenant` | `ConnectionsAreExclusive`, `ReleasedOnce`, `OnlyAbandonedHandlersStray`; `NestedWaitEnds`, `ConnectionsComeBack` | 2 requests and a background job, 2 connections in one shared pool, fairness |
| `identity` | `OnlyVerifiedSignIn`, `AlarmIsTrue`, `LinkUsedOnce`, `OnlyWritesMakeStale` | 2 requests at once, 3 in all, 3 refresh tokens, 1 link, 1 password |
| `attendance` | `EntriesInTime`, `SubmittedIsKept`, `DuplicateNeedsLostAnswer`, `FormVersionsStand` | 1 draft, 2 requests, 1 end at a time, 3 editors, 3 times, 2 windows (one without a late part), 2 versions kept |
| `live` | `CompletedHasStopped`, `EveryLeaverIsReported`; `EveryNoticeIsShown` | 2 pages, 2 requests, 1 notice, 1 restart, fairness |
| `retention` | `NothingUncopied`, `CountedOnce`, `OrphansAreCascaded`, `HoldsProtect` | 3 audit rows, 2 photos, 2 submissions, 2 organisations, 2 overlapping passes of either job, batches of 2, 1 stop |
| `console` | `OfferedIsGranted`, `SettledIsCurrent`, `ComesToRest`, types | an account of each role and one not yet onboarded, 6 entry pages, 3 facts changed by others, 3 choices, fairness |

### Bounds, and why they are enough

Rows, jobs, rooms and accounts do not interact in the code (each statement names one id, and
the batches treat their rows one by one), so one of each suffices; the proofs cover
any number. Two workers, handlers, requests or passes give every race of a late and a new
attempt. One requeue gives two epochs, hence an old message acting on a new epoch.
`MaxReceives` only has to let a message be redelivered and redriven. The PDF
durations are the code's, in heartbeats (in `pdf_at_least_once` shorter ones, as the
anomalies make durations irrelevant). `MaxTime` in `room_expiry` lets a room
expire, be polled twice, and fall out of the lookback. The notice counters and
`attempts` are bounded by the numbers of attempts; `expiredTold` counts to 2, all its
property asks.

- `tenant`: two connections are the smallest pool in which two requests can pin
  everything and both wait for a second connection; the job makes a third to queue.
- `identity`: `MaxSent` = 3 gives two requests that race and one that meets what they
  left; three tokens allow a sign-in, a rotation, and a second rotation of either. `MaxPassword`
  = 1 tells a null hash from a set one.
- `attendance`: `MaxTime` = 2 lets the clock move between an end's reading of it and its COMMIT, and once more
  before an entry begins; the two windows differ in their opening and in whether there is a late part, and the room
  switches between them at any time. Two requests of one draft are a
  submission and its retry. Three editors are an established version, a save and its
  racing save, with `Kept` = 2 so that old versions do get deleted. Form saves happen in behaviours of
  their own (`Untouched`, `NoSaves`): a submission accepts every version of its room, so saves and entries share only the form's id.
  `ServerStops` is FALSE: with it a stop between answer and COMMIT undoes anything, a case the proof includes.
- `live`: `Apart` separates behaviours in which pages send requests from those in which
  users come and go while a staff member watches, as the two parts meet only in the topic of
  a notice; the proofs assume nothing of it. With one notice the single-flight
  resync is met at every point of the notice's life.
- `retention`: three rows with batches of two make a full and a short batch; the third row
  belongs to the other organisation, so that one can be held. `MCTimers` gives both passes the same job,
  as the two jobs share no rows. One photo is uploaded and submitted during the run.
- `console`: `MaxChoices` bounds how often the user, others, time or the network act;
  the tab's and server's own steps are not bounded. Three suffice for a page change, a
  request on it and one disturbance of that request. The entry pages are the ones outside the dashboard that differ in their
  guard, the dashboard, from which all others are one choice away, and the form builder, so that a save there and
  two disturbances fit. Others cancel the room, revoke the assignment and save the form; what they may
  do to preferences and team is left to the proofs, which assume nothing of `Others` but types and that no one's role changes.

`CHECK_DEADLOCK FALSE` is set where the system may come to rest: every message
gone and every row final, every request over and the clock or `MaxSent` at its
bound. In `PdfJobs` and `Retention` there is always a step.

Symmetry (workers, rows; requests, pollers; requests, tokens, links) is used in runs without
liveness properties only. Each module's `TypeOK` is proved; a run checks `Console`'s
as well, whose records of requests and answers are the richest.

## 4. Fairness

`EmailDelivery`: a handler that started takes its next step (or crashes), the
queue keeps offering a message until it is deleted (strong, since a message is
hidden again and again), the drain runs every five minutes, and its write and
its delete do not fail every time (strong). Sending, crashing and failing are never forced, and no
fairness says that a provider's call succeeds.

`PdfJobs`: the same, and time passes. `RoomLifecycle`: requests end; each server
polls on a timer; a lock key expires; and polls do not all fail or stop half way
for ever (strong fairness on selecting, on a fan-out that reached someone, and
on the marker). Nothing is assumed about which server polls.

`TenantContext`: a waiter gets a free connection or its timeout; statements return; a
handler ends some time (strong, since it may make `authDb` calls for as long as it
likes); and PostgreSQL's timeout ends the idle transaction of a handler that is over.
Nothing makes a client stay or leave.

`LiveRoom`: the initial load and the resyncs are served and answered, and resyncs do not
fail for ever (strong); a stream that dropped is opened again by `EventSource`. A stream is not for ever: proxies,
deployments and sleeping laptops end it (`SF DropStream`). `EveryNoticeIsShown` needs that: a notice whose
publication fell between the page's load and its stream, or that the load's answer overwrote, is
only found by the resync of the next opening.

`Console`: weak fairness of `Progress`: requests are served and answered, effects run. Nothing is
assumed of the user, of others or of the network, whose failures are choices.

## 5. Proofs

Every theorem holds for all values of the constants, under the named
assumptions of the modules (`EmailAssumption`, `PdfAssumption`, `RoomAssumption`,
`IdentityAssumption`, `TenantAssumption`, `AttendanceAssumption`, `LiveAssumption`,
`RetentionAssumption`, `ConsoleAssumption`), which give types, keep names apart, and exclude empty sets; that
of `Retention` also says what the schema does (a photo has a key, the photos and
submissions of an activity have one organisation), that of `Console` what the API does (others change
facts to facts, and no request changes the role of another account: `services/admin.service.ts` creates and
deletes members; onboarding one account in two tabs at a time is left out). Each module proves its types.

`EmailDelivery_proofs`
- `NothingLost`. The invariant adds which messages may be acted on: a settled worker
  or a draining drain only holds a message whose row is final or whose epoch is
  past, so deleting it loses nothing; and a message is nowhere before its send.
- `SendsExclude` (needs that sends end within their lease): an open attempt keeps
  its row `recent`, and a recent row is neither claimed again nor requeued,
  whatever the drain does to its status.
- `OneEmailPerEpoch`: the emails of a row are counted by the distinct keys the provider
  accepted, which are pairs of the row and an epoch not above the current one;
  the proof compares the inbox with the cardinality of that set.
- `ImplementsPromise`: each action is an action of `EmailPromise` or a stutter. It
  needs that an attempt at `accepted` has its email in the inbox and that a SENT row has one too,
  and `OneEmailPerEpoch` for the bound on `GoOut`.

`PdfJobs_proofs`
- `FailedTold` and `CompletionKept` hold with every queue anomaly.
- `FailureTold`, `NothingStranded` and `RedeliveryStale` are proved together, assuming
  `OneAtATime` (no anomalies, and the visibility timeout above the stale
  threshold). The invariant says that a message has a sole handler, that its
  hidden time is bounded below by the row's age while it is handled, what each
  step of the handler knows of the row, and that an exhausted or told job is
  never picked up again.

`RoomLifecycle_proofs`
- `OneNotice`, `MarkedAndPosted`, `DeletedFrozen`, from one invariant:
  `Locked` (the lock is held exactly by the request with an open transaction, and
  a locked row is not deleted), `Absent` (a room that does not exist has no
  markers, no poll is after it), and `Progress` (what a request claimed and sent
  at each step; a request that notified still lacks its marker in the committed
  row until it commits). Without `Progress` neither property is inductive: that
  a second claim finds the marker depends on the first one's commit, and a
  rolled-back claim must be allowed to be claimed again.
- `ToldOnceUnlessUnmarked`, for polls that end within their lock's lifetime
  (`~PollsOutliveLock`): `AloneOnLock` (one poll is past the lock at a time), `Recorded`
  (what was told is marked, or a marker failed or is about to be tried), and `PollInv` (a poll
  that selected an unmarked room has not been overtaken).

`WebRequests_proofs`, transactions
- `Exclusive`, `ReleaseOnce`, `StrayHandlers`, from `OwnerInv` (a pinned connection's owner is at a
  step that holds one, has not been cleaned up, and its store names it), `StoreInv` (the store is empty
  before BEGIN and names the pinned connection until cleanup) and `BorrowInv` (only a statement on `authDb` borrows). The order of `finish`, `close` and `error` does not matter.

`WebRequests_proofs`, the console: `ConsoleTypes`, `OffersAreGranted` and `RestingPagesAreCurrent`, from one
invariant. Neither of the last two is inductive: a refusal is decided long after the press, a page at rest by what
it heard before.
- `SessionInv`. A signed-in tab has a role and knows its user, or has one to hear of (`AuthInv`); what was pressed is
  granted to the role it was pressed with, or is a gap (`PressInv`); what an answer carries is what the server
  still has, or is in its `since` (`ServedInv`, `DoneInv`); a page of the room that was not opened by a
  stale link, and a request of the room not pressed blindly, find the room accessible, a guest's join the room not
  cancelled (`AccessInv`, `BlindInv`, `Founded`).
- `PageInv`. Loads and requests that still have a page are of the page that is open (`HereInv`, `LoadInv`), a field
  that is being saved shows what was typed (`TypedInv`), and every read that the page shows is current, or marked, or
  being loaded or to be loaded by what follows (`Loading`), or comes with an answer already given (`ReadsInv`, `HeardInv`), or is a form
  that was typed and whose save is under way (`FormInv`, `Telling`; for the other fields `NameInv`, `OrgInv`, `PrefsInv`). The preference needs most: of several toggles on their way, one asks for what the
  server does not have, else none is left and the field is the server's.
- The table of `ConsolePages` enters by lemmas that go through pages and operations: what the roles may do
  (`Permissions`, `Permits`, `Routes`), that every control of a page fits its role (`OffersFit`, `LayoutFits`,
  `Offered`), what has to be read before a control of the room is offered (`OffersRead`), what an operation changes of the
  page that hears its answer (`EffectTold`), and that a page loads all it shows (`ShowsLoads`).
- A page at rest has no load and no request left, so that of `ReadsInv`'s four ways only "current" and
  "marked" remain (`RestIsCurrent`).

`Identity_proofs`
- `VerifiedSignIn` from `RowInv` and `StageInv`: a row that was read or copied earlier is never
  more verified than the row of now (`Behind`: nothing takes a verification back, and deletion keeps
  the row), and `StageInv` says which operation a request at each step can be of and what it has written.
- `UsedOnce` from `LinkInv` (a link that is not used let nobody through); `TrueAlarm` from `SessionInv`
  (revocation is final, and a request that looks at a session has a token of one); `WritesMakeStale`
  from the same invariant, action by action: a fill writes what the request read.

`Attendance_proofs`
- `InTime` from the room's history and what each request has read of it: an entry that began after the COMMIT of the end
  was let through by a room that was already ended, so by an end and a late window that stand or that were widened since
  (`endedAt`, `widest`); the others began before it. `Submitted` from `AnswerInv` (an answered request is only undone by a swallowed
  failure or a stop); `Duplicates` from `WaitInv` (a page waits for one request, and has given up every
  other one of its draft); `FormVersions` from `SaveInv` (at most one save has inserted and
  not committed, and its version follows the newest).

`LiveRoom_proofs`
- `CompletedStopped` from `RecordingInv` (a page only stops recordings whose start was answered,
  a stopping request past its call has stopped its egress, and a row comes with its start's commit);
  `LeaversReported` from `LeaveInv` (a user's key only ever holds a task of leaving).

`Retention_proofs`
- `ArchiveFirst` from `Copies` (what the archive lacks of a batch belongs to an organisation still
  to come, and at the delete step nothing is lacking); `ObjectsFirst` from `Emptied` (the rows about to be deleted
  have no object left); `ReceiptsCountOnce` from itself, as one DELETE takes a row; `HeldIsKept`
  from `BatchesFit` (a batch holds rows of the pass's own job, of organisations not on its list of holds).

Only model-checked: the liveness properties (`EveryDeliverySettles`, `EveryJobEnds`,
`ExpiredIsAnnounced`, `NestedWaitEnds`, `ConnectionsComeBack`, `EveryNoticeIsShown`, `ComesToRest`), as
liveness under fairness is beyond the prover used. Every safety property that a run checks is
stated by a theorem.

## 6. Where the code and its own words, or its parts, differ

Met while modelling. The models do what the code does; the properties above are
stated so that they hold of it.

Email, PDF, rooms
- A worker whose send outlived its lease clears the lease of its successor
  (`services/email-delivery.service.ts:253` updates by id only; the comment at 194-198 says a claim
  excludes others). The recipient still gets one email, by the idempotency key.
- A second handler's INSERT that meets the first one's row is treated as a failed render and puts
  the row back to pending under its renderer (`queues/worker.ts:254-279`; the comment at 361-363 has one render).
- The drain deletes the message of a job that never got a row and tells nobody
  (`queues/dlq-consumer.ts:43-61`, against its header at 16-19).
- Abandoning or draining a PDF job whose notice's delivery row cannot be written rolls back the failed row,
  reports success and deletes the message: the job stays unfinished for ever
  (`services/notification.service.ts:62-82`, `queues/worker.ts:340-357`, `queues/dlq-consumer.ts:42-62` and
  `121`, against its header at 16-23).
- An audit or fan-out failure is swallowed because the operation "is committed", and
  in fact undoes it after the response said success (`services/audit.service.ts:40-50`,
  `controllers/room/room-crud.controller.ts:270-272`, `room-live.controller.ts:119-120`,
  `middleware/tenantContext.ts:67` and `77`).
- A room cancelled between a poll's SELECT and its notices is announced as cancelled and as expired
  (`jobs/eventExpiryNotifier.ts:35-37` and `46-98`).

Accounts
- `updateUserProfile` re-reads on another connection before its COMMIT, so it answers and caches the old row.
- `deleteUserAccount` drops the cached copy before COMMIT; a reader in between fills it again.
- `verifyEmailToken` does not look at `isActive`: an open link of a deleted account still gets tokens
  (`services/auth/auth-registration.service.ts:219-229`; `refreshSession` then refuses them).
- `setInitialPassword` is not once for two calls at a time.
- A rotation under way during "revoke all" leaves a live successor, and a copy filled late is accepted for
  up to 300 s. Two tabs that refresh with one token revoke the family.

Live rooms and notices
- The initial load's answer replaces what the stream brought meanwhile
  (`client/hooks/useNotifications.ts:74`); the single-flight guard (48) may drop the reopening's resync.
- A start whose transaction is rolled back leaves its egress running without a row.

Retention
- A purged submission takes its photos' rows by ON DELETE CASCADE and orphans their objects (against
  `jobs/dataRetention.ts:141-143`).
- A failure in a later batch leaves the earlier ones without receipts (against
  `jobs/auditRetention.ts:88-91`); a stop between upload and delete makes a second archive object.
- Holds are read once per pass, and a batch full of rows that cannot go ends the table's sweep.

Attendance
- Starting an ended room leaves `actual_end`, so attendance closes at the old end.
- A retry after a lost answer makes a second entry; the server drops the client's `idempotencyKey`
  (`client/hooks/useNetwork.ts:26` and `43`).
- Between the reading of the clock for `actual_end` and the COMMIT of the end the room takes entries, however narrow the
  late window: they bear a later time than it allows (`controllers/room/room-live.controller.ts:149-176`).
- The page decides by the `isOnline` of the click (`client/pages/Attendance.tsx:55` and `371`): one that lost the network
  during the upload shows an error instead of keeping the entry, and one that regained it keeps what it could post.
- Nothing saved offline is ever synchronised: `where("synced").equals(0)` matches no record written
  with `synced: false` (`client/hooks/useNetwork.ts:17` and `35`, `client/pages/Attendance.tsx:389`).
- `client/pages/Reports.tsx:67` and `AttendanceRecords.tsx:296` save the 202 answer of a queued report as a PDF.

Console (the pairs in `RoleGaps`, and others)
- Onboarding as a volunteer creates no organisation (`services/auth/auth-registration.service.ts:177-183`), and
  `ProtectedRoute` (`client/App.tsx:97-103`) takes an account without one back to `/onboarding`, until it is given one.
- A failed toggle sets the field to the opposite of what it asked for, also when a second press of it is on its way
  (`client/pages/Settings.tsx:52-78`).
- Form Builder on `Rooms` for every role; "Create Room" in the menu and "Reports" in the palette, the dashboard and
  the records page for roles the API refuses; the logo card for everyone; "Delete
  Account" on an administrators' route although `DELETE /me/account` exists.
- Saving settings does not update the user `useAuth` holds; a profile's save merges an answer that was read before its
  own COMMIT (the service reads it back outside the request's transaction). A cancelled room's card stays.
- A failed save leaves the edited fields of the form builder on the screen (`client/pages/RoomFormBuilder.tsx:333-334`).
- The live page shows the room and its controls beside the error of a later read (`client/pages/RoomLive.tsx:77-97`).
- The shared page offers to join a room of any status (`client/pages/RoomWatch.tsx:156-195`);
  `services/share.service.ts:31` refuses a cancelled one.
- `/auth/*` requests with an expired token are not renewed (`client/lib/api.ts:104`); a network
  failure during a refresh signs out a session that is alive; answers of two audit-log
  filters are taken in the order they arrive.

## 7. Not modelled, and why

- Attendance window poll: the lock, SELECT, notify, mark pattern of the expiry poll with markers of its own.
- Share-link transactions and viewer tokens: read-only requests by token in the pattern of `TenantContext`. What a guest
  reads and joins is in `Console`.
- Presence: a Redis hash with an expiry, read for display only. Web push, read marks and deletions of
  notices: single statements.
- Report content and rendering, the ops console's views, the storage of pre-signed URLs: no state that another
  step waits for. The superseded email Lambda: to be detached, according to `worker.ts`.
- CSRF, validation, rate limits, error formatting: stateless filters or a library's counters.
- Activity quotas and the limit of 50 photos: counted without a lock
  (`services/activity.service.ts:139`); listed as a hazard, no property holds of it.
- Session cleanup: deletes rows that no lookup accepts any more.
- Two activity photos with one object: `submitActivityPhoto` takes the key from the client without a check
  (`services/activity.service.ts:151-165`). The product's page gets a fresh key for every upload and submits it once
  (`client/pages/RoomLive.tsx:558-575`), so `Retention` gives each row an object of its own; `OrphansAreCascaded` is about such rows.
- In the modelled parts: the provider forgetting idempotency keys after 24 hours; rows that go with a
  deleted user outside `Identity`; malformed messages; a COMMIT whose outcome the client does not learn;
  clocks that differ between application and database; timers of several servers for one room.
