----------------------------- MODULE Retention -----------------------------
(* The two retention purges and what they take away: rows of audit_logs,      *)
(* copied to the archive bucket first (auditRetention.ts,                     *)
(* audit-archive.service.ts), and rows of the four data tables, whose objects *)
(* in the uploads bucket go first (dataRetention.ts, storage.service.ts),     *)
(* while requests go on adding activity photos (activity.service.ts).         *)
(*                                                                            *)
(* Every server runs both jobs on a timer of its own, so passes overlap.  A   *)
(* batch is read in one statement, its copies or objects are dealt with       *)
(* outside any transaction, and the rows are deleted in another.              *)
EXTENDS Integers, Sequences, FiniteSets

CONSTANTS AuditRows,    \* rows of audit_logs
          Attendances,  \* rows of attendance_entries
          Photos,       \* rows of activity_photos
          Submissions,  \* rows of activity_submissions, all of one activity
          Recordings,   \* rows of room_recordings
          Keyless,      \* rows whose storage key is null
          Young,        \* rows not there yet when the behaviour starts
          Old,          \* rows already past the retention period then
          Orgs,         \* organisations
          Owner,        \* the organisation of each row
          Passes,       \* the timers of the servers, each with a pass at a time
          Timers,       \* which job they are of: "audit" or "data"
          BatchSize,    \* rows read at a time
          ArchiveMode,  \* what the environment says of the archive bucket
          MaxStops      \* bound on server stops

DataRows == Attendances \cup Photos \cup Submissions \cup Recordings
Rows == AuditRows \cup DataRows
None == "none"

ASSUME RetentionAssumption ==
    /\ AuditRows \cap DataRows = {} /\ Photos \cap Submissions = {}
    /\ Photos \cap Attendances = {} /\ Photos \cap Recordings = {}
    /\ Submissions \cap (Attendances \cup Recordings) = {}
    /\ Submissions \cup AuditRows \subseteq Keyless /\ Keyless \cap Photos = {}
    /\ Old \subseteq Rows \ Young
    /\ Owner \in [Rows -> Orgs]
    /\ \A p \in Photos, s \in Submissions : Owner[p] = Owner[s]
    /\ Timers \subseteq [Passes -> {"audit", "data"}]
    /\ ArchiveMode \in {"configured", "disabled", "unset"}
    /\ MaxStops \in Nat /\ None \notin Rows

\* RETAINED_TABLES, in the order a pass takes them.
Tables == <<Attendances, Photos, Submissions, Recordings>>

VARIABLES
    job,      \* the job of each timer, one of Timers
    row,      \* "absent", "there" or "gone", for each row
    object,   \* the same for the object in the uploads bucket that its key names
    parent,   \* activity_photos.submission_id
    copied,   \* audit rows some archive object holds
    expired,  \* rows older than the retention period
    hold,     \* organisations under legal hold
    pass,     \* the pass under way of each timer
    receipts, \* how many receipts count each audit row
    stops     \* server stops so far

vars == <<job, row, object, parent, copied, expired, hold, pass, receipts, stops>>

States == {"absent", "there", "gone"}
Steps == {"idle", "select", "archive", "objects", "delete", "receipts"}
Idle == [step |-> "idle", held |-> {}, cutoff |-> {}, table |-> 1,
         batch |-> {}, full |-> FALSE, todo |-> {}, counted |-> {}]
PassType == [step : Steps, held : SUBSET Orgs, cutoff : SUBSET Rows, table : 1..4,
             batch : SUBSET Rows, full : BOOLEAN,
             todo : SUBSET Orgs, counted : SUBSET Rows]

Init ==
    /\ job \in Timers
    /\ row = [r \in Rows |-> IF r \in Young THEN "absent" ELSE "there"]
    /\ object = [r \in Rows |-> IF r \in Young \cup Keyless THEN "absent" ELSE "there"]
    /\ parent \in [Photos -> Submissions \cup {None}]
    /\ \A p \in Photos : IF p \in Young THEN parent[p] = None
                                         ELSE parent[p] \in Submissions \ Young
    /\ copied = {} /\ expired = Old /\ hold = {}
    /\ pass = [x \in Passes |-> Idle]
    /\ receipts = [r \in Rows |-> 0]
    /\ stops = 0

There(rs) == {r \in rs : row[r] = "there"}

----------------------------------------------------------------------------
(* What goes on meanwhile                                                     *)

\* Rows that some timer of the behaviour sweeps (a bound: the others, and the holds
\* of organisations that have none of them, are left alone).
Watched(r) == \E x \in Passes : job[x] = IF r \in AuditRows THEN "audit" ELSE "data"

\* A row's age passes the retention period.
GrowsOld(r) ==
    /\ Watched(r)
    /\ row[r] = "there" /\ r \notin expired
    /\ expired' = expired \cup {r}
    /\ UNCHANGED <<job, row, object, parent, copied, hold, pass, receipts, stops>>

\* A legal hold is set on an organisation, or lifted.
ToggleHold(o) ==
    /\ \E r \in Rows : Owner[r] = o /\ Watched(r)
    /\ hold' = IF o \in hold THEN hold \ {o} ELSE hold \cup {o}
    /\ UNCHANGED <<job, row, object, parent, copied, expired, pass, receipts, stops>>

\* presignActivityPhoto, and the page's PUT of the photo with the signed URL.
UploadPhoto(p) ==
    /\ \E x \in Passes : job[x] = "data"
    /\ row[p] = "absent" /\ object[p] = "absent"
    /\ object' = [object EXCEPT ![p] = "there"]
    /\ UNCHANGED <<job, row, parent, copied, expired, hold, pass, receipts, stops>>

\* The submission a photo joins: the activity's standing row, which the upsert
\* leaves alone, or the fresh one it inserts.
Joins(s) ==
    \/ row[s] = "there"
    \/ row[s] = "absent" /\ There(Submissions) = {}

\* submitActivityPhoto: the upsert and the photo's INSERT in one transaction.  If
\* the submission is purged before the INSERT, its foreign key fails, and nothing
\* is changed.
\* The page submits the key of the upload it has just made, and a retry
\* uploads anew, so each row has an object of its own; the service takes any key.
SubmitPhoto(p, s) ==
    /\ row[p] = "absent" /\ object[p] = "there" /\ Joins(s)
    /\ row' = [row EXCEPT ![p] = "there", ![s] = "there"]
    /\ parent' = [parent EXCEPT ![p] = s]
    /\ UNCHANGED <<job, object, copied, expired, hold, pass, receipts, stops>>

----------------------------------------------------------------------------
(* A pass                                                                     *)

Becomes(x, p) == pass' = [pass EXCEPT ![x] = p]

\* purgeExpiredAuditLogs refuses to delete what no bucket will keep.
Refused(x) == job[x] = "audit" /\ ArchiveMode = "unset"

\* The timer fires: the cutoff, and the organisations held now, are fixed for the
\* whole pass (loadHeldOrganizationIds).
Begin(x) ==
    /\ pass[x].step = "idle" /\ ~Refused(x)
    /\ Becomes(x, [Idle EXCEPT !.step = "select", !.held = hold, !.cutoff = expired])
    /\ UNCHANGED <<job, row, object, parent, copied, expired, hold, receipts, stops>>

Swept(x) == IF job[x] = "audit" THEN AuditRows ELSE Tables[pass[x].table]

\* The legal-hold clause is left out of the SELECT.
MutantPurgeable(x) == {r \in There(Swept(x)) : r \in pass[x].cutoff}

\* Rows the SELECT of a batch may return.
Purgeable(x) ==
    {r \in There(Swept(x)) : r \in pass[x].cutoff /\ Owner[r] \notin pass[x].held}

\* Where a pass stands once a table is drained, blocked or has failed: at its
\* next table, or at its end.
TableDone(x) ==
    LET over == [pass[x] EXCEPT !.batch = {}, !.todo = {}, !.full = FALSE]
    IN  IF job[x] = "audit" THEN [over EXCEPT !.step = "receipts"]
        ELSE IF pass[x].table = Len(Tables) THEN Idle
        ELSE [over EXCEPT !.step = "select", !.table = @ + 1]

\* What a statement that throws leaves of a pass: the data purge goes on with
\* its next table, the audit purge ends, without receipts.
Thrown(x) == IF job[x] = "audit" THEN Idle ELSE TableDone(x)

\* SELECT ... LIMIT, in no particular order.  An audit batch goes to the archive
\* next, unless the environment accepts the loss.
Batches(x) ==
    {b \in SUBSET Purgeable(x) :
        Cardinality(b) = BatchSize \/ (Cardinality(b) < BatchSize /\ b = Purgeable(x))}

AfterSelect(x) == IF job[x] = "data" THEN "objects"
                  ELSE IF ArchiveMode = "configured" THEN "archive" ELSE "delete"

Select(x) ==
    /\ pass[x].step = "select"
    /\ \E b \in Batches(x) :
          Becomes(x, IF b = {} THEN TableDone(x)
                     ELSE [pass[x] EXCEPT !.step = AfterSelect(x), !.batch = b,
                             !.full = Cardinality(b) = BatchSize,
                             !.todo = IF job[x] = "audit" THEN {Owner[r] : r \in b} ELSE {}])
    /\ UNCHANGED <<job, row, object, parent, copied, expired, hold, receipts, stops>>

\* archiveAuditBatch writes one object per organisation, one after the other.
Archive(x, o) ==
    /\ pass[x].step = "archive" /\ o \in pass[x].todo
    /\ copied' = copied \cup {r \in pass[x].batch : Owner[r] = o}
    /\ LET left == pass[x].todo \ {o}
       IN  Becomes(x, [pass[x] EXCEPT !.todo = left,
                         !.step = IF left = {} THEN "delete" ELSE "archive"])
    /\ UNCHANGED <<job, row, object, parent, expired, hold, receipts, stops>>

\* A failed archive upload is logged, and the batch deleted all the same.
MutantArchiveFails(x) ==
    /\ pass[x].step = "archive"
    /\ Becomes(x, [pass[x] EXCEPT !.step = "delete", !.todo = {}])
    /\ UNCHANGED <<job, row, object, parent, copied, expired, hold, receipts, stops>>

\* A PutObject that throws, or answers without an ETag, ends the pass.
ArchiveFails(x) ==
    /\ pass[x].step = "archive"
    /\ Becomes(x, Thrown(x))
    /\ UNCHANGED <<job, row, object, parent, copied, expired, hold, receipts, stops>>

\* The rows of objects that could not be deleted are deleted as well.
MutantDeleteObjects(x) ==
    /\ pass[x].step = "objects"
    /\ \E failed \in SUBSET (pass[x].batch \ Keyless) :
         object' = [r \in Rows |-> IF r \in pass[x].batch \ (failed \cup Keyless)
                                   THEN "gone" ELSE object[r]]
    /\ Becomes(x, [pass[x] EXCEPT !.step = "delete"])
    /\ UNCHANGED <<job, row, parent, copied, expired, hold, receipts, stops>>

\* deleteObjects reports the keys that could not be deleted; their rows are kept.
\* Deleting an object that is gone succeeds.  A wholly blocked batch ends the table.
DeleteObjects(x) ==
    /\ pass[x].step = "objects"
    /\ \E failed \in SUBSET (pass[x].batch \ Keyless) :
         LET kept == pass[x].batch \ failed IN
         /\ object' = [r \in Rows |-> IF r \in kept \ Keyless THEN "gone" ELSE object[r]]
         /\ Becomes(x, IF kept = {} THEN TableDone(x)
                       ELSE [pass[x] EXCEPT !.step = "delete", !.batch = kept])
    /\ UNCHANGED <<job, row, parent, copied, expired, hold, receipts, stops>>

\* Rows a DELETE takes along: activity_photos.submission_id is ON DELETE CASCADE.
Cascade(ids) == {p \in Photos : parent[p] \in ids}

\* After a DELETE that found every row of its batch.  The audit purge counts them;
\* a SELECT that had returned a full batch is followed by another.
Deleted(x) ==
    LET next == IF pass[x].full
                THEN [pass[x] EXCEPT !.step = "select", !.batch = {}, !.full = FALSE]
                ELSE TableDone(x)
    IN  [next EXCEPT !.counted = IF job[x] = "audit" THEN @ \cup pass[x].batch ELSE @]

\* The number of deleted rows is not compared with the batch.
MutantDeleteRows(x) ==
    /\ pass[x].step = "delete"
    /\ LET ids == There(pass[x].batch)
           taken == There(ids \cup Cascade(ids))
       IN  row' = [r \in Rows |-> IF r \in taken THEN "gone" ELSE row[r]]
    /\ Becomes(x, Deleted(x))
    /\ UNCHANGED <<job, object, parent, copied, expired, hold, receipts, stops>>

\* The DELETE of a batch, in a transaction of its own.  Fewer rows than ids (another
\* server's pass got there first) throws, after the commit.
DeleteRows(x) ==
    /\ pass[x].step = "delete"
    /\ LET ids == There(pass[x].batch)
           taken == There(ids \cup Cascade(ids))
       IN  row' = [r \in Rows |-> IF r \in taken THEN "gone" ELSE row[r]]
    /\ Becomes(x, IF There(pass[x].batch) = pass[x].batch THEN Deleted(x) ELSE Thrown(x))
    /\ UNCHANGED <<job, object, parent, copied, expired, hold, receipts, stops>>

\* A statement that fails: the batch's SELECT, or its DELETE (a timeout).
StatementFails(x) ==
    /\ pass[x].step \in {"select", "delete"}
    /\ Becomes(x, Thrown(x))
    /\ UNCHANGED <<job, row, object, parent, copied, expired, hold, receipts, stops>>

\* writeReceipts, one INSERT for all organisations; if it fails it is only logged.
WriteReceipts(x) ==
    /\ pass[x].step = "receipts"
    /\ receipts' = [r \in Rows |-> IF r \in pass[x].counted THEN receipts[r] + 1
                                                            ELSE receipts[r]]
    /\ Becomes(x, Idle)
    /\ UNCHANGED <<job, row, object, parent, copied, expired, hold, stops>>

ReceiptsFail(x) ==
    /\ pass[x].step = "receipts"
    /\ Becomes(x, Idle)
    /\ UNCHANGED <<job, row, object, parent, copied, expired, hold, receipts, stops>>

ServerStops(x) ==
    /\ pass[x].step # "idle" /\ stops < MaxStops
    /\ Becomes(x, Idle)
    /\ stops' = stops + 1
    /\ UNCHANGED <<job, row, object, parent, copied, expired, hold, receipts>>

Next ==
    \/ \E r \in Rows : GrowsOld(r)
    \/ \E o \in Orgs : ToggleHold(o)
    \/ \E p \in Photos : UploadPhoto(p) \/ \E s \in Submissions : SubmitPhoto(p, s)
    \/ \E x \in Passes :
          \/ Begin(x) \/ Select(x) \/ ArchiveFails(x)
          \/ \E o \in Orgs : Archive(x, o)
          \/ DeleteObjects(x) \/ DeleteRows(x) \/ StatementFails(x)
          \/ WriteReceipts(x) \/ ReceiptsFail(x) \/ ServerStops(x)

Spec == Init /\ [][Next]_vars

----------------------------------------------------------------------------
(* Properties                                                                 *)

\* Types of the state.
TypeOK ==
    /\ job \in [Passes -> {"audit", "data"}]
    /\ row \in [Rows -> States] /\ object \in [Rows -> States]
    /\ parent \in [Photos -> Submissions \cup {None}]
    /\ copied \subseteq AuditRows /\ expired \subseteq Rows /\ hold \subseteq Orgs
    /\ pass \in [Passes -> PassType]
    /\ receipts \in [Rows -> Nat] /\ stops \in 0..MaxStops

\* "Archive first, delete second": a deleted audit row is in the archive, whatever
\* failed and whichever of the overlapping passes deleted it, unless the environment
\* accepts the loss (auditRetention.ts: archiveAuditBatch before the DELETE).
NothingUncopied ==
    \A r \in AuditRows : row[r] = "gone" => r \in copied \/ ArchiveMode = "disabled"

\* A deleted audit row is counted once: passes that overlap never put it in two
\* receipts, and no receipt counts a row that is still there (the comparison of the
\* affected rows with the batch).  That it may be in none is what the code accepts.
CountedOnce ==
    \A r \in AuditRows :
        /\ receipts[r] <= 1
        /\ receipts[r] = 1 => row[r] = "gone"
        /\ \A x \in Passes : r \in pass[x].counted =>
              /\ row[r] = "gone" /\ receipts[r] = 0
              /\ \A y \in Passes \ {x} : r \notin pass[y].counted

\* "Objects first, rows second": an object in the bucket whose row is gone, which
\* nothing can name again, is a photo that went with its purged submission and in no
\* other way (deleteObjects' failed keys keep their rows; ON DELETE CASCADE does not).
OrphansAreCascaded ==
    \A r \in DataRows \ Keyless :
        row[r] = "gone" /\ object[r] = "there" =>
            r \in Photos /\ parent[r] # None /\ row[parent[r]] = "gone"

\* An organisation held since before every pass under way began loses neither rows
\* nor objects, also through a cascade (loadHeldOrganizationIds, the notInArray clause).
Protected(o) ==
    o \in hold /\ \A x \in Passes : pass[x].step # "idle" => o \in pass[x].held

Loses(r) == \/ row[r] = "there" /\ row'[r] = "gone"
            \/ object[r] = "there" /\ object'[r] = "gone"

HoldsProtect == [][\A r \in Rows : Protected(Owner[r]) => ~Loses(r)]_vars
=============================================================================
