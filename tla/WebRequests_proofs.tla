------------------------- MODULE WebRequests_proofs -------------------------
(* Both ends of a request of the web client: the transaction it runs in on    *)
(* the server (TenantContext), for any number of requests, jobs and           *)
(* connections, and the console that presses it and takes its answer in       *)
(* (Console), for any facts of the server, entry pages and bound on the       *)
(* changes by others.                                                         *)
EXTENDS Console, TenantContext, TLAPS

-----------------------------------------------------------------------------
(* The transactions of requests and jobs.                                     *)

\* Where an actor's code may be while a connection is pinned for it.
Holding == {"begin", "running", "nested", "answered", "over"}

\* What a pinned connection says of its owner ...
OwnerInv == \A c \in Conns : owner[c] # None =>
    /\ pc[owner[c]] \in Holding
    /\ ended[owner[c]] = "no" /\ released[owner[c]] = 0
    /\ pc[owner[c]] # "begin" => store[owner[c]] = c /\ tx[c] = owner[c]

\* ... and a store of its actor: it is the pinned one until cleanup has run.
StoreInv == \A a \in Actors :
    /\ pc[a] \in {"idle", "acquire", "begin", "failed"} => store[a] = None /\ ended[a] = "no"
    /\ pc[a] \in {"idle", "acquire", "begin"} => released[a] = 0
    /\ pc[a] \in {"running", "nested", "answered"} =>
          /\ store[a] # None
          /\ ended[a] = "no" => owner[store[a]] = a
          /\ ended[a] = "commit" => FALSE
          /\ a \in Jobs => ended[a] = "no"
    /\ ended[a] = "no" /\ pc[a] \in Holding => released[a] = 0
    /\ released[a] <= 1

BorrowInv == \A a \in Actors : borrowed[a] # None => pc[a] = "nested"

TCInv == TCTypeOK /\ ConnectionsAreExclusive /\ OnlyAbandonedHandlersStray
        /\ OwnerInv /\ StoreInv /\ BorrowInv

-----------------------------------------------------------------------------
\* No connection is pinned in the initial state.
LEMMA TCInitially == TCInit => TCInv
  BY TenantAssumption DEF TCInit, TCInv, TCTypeOK, ConnectionsAreExclusive, OnlyAbandonedHandlersStray,
     OwnerInv, StoreInv, BorrowInv, Holding, Steps, Actors, Lent, None

\* A context is asked for.
LEMMA OpenStep ==
  ASSUME TCInv, NEW a \in Actors, Open(a)
  PROVE  TCInv'
<1> USE TenantAssumption DEF TCInv, Actors, None, Goto, Steps, Lent
<1>1. CASE Arrive(a)
  <2>1. TCTypeOK'
    BY <1>1 DEF Arrive, TCTypeOK
  <2>2. ConnectionsAreExclusive'
    BY <1>1 DEF Arrive, TCTypeOK, ConnectionsAreExclusive, OwnerInv, BorrowInv
  <2>3. (OnlyAbandonedHandlersStray /\ BorrowInv)'
    BY <1>1 DEF Arrive, TCTypeOK, OnlyAbandonedHandlersStray, StoreInv, BorrowInv
  <2>4. OwnerInv'
    BY <1>1 DEF Arrive, TCTypeOK, ConnectionsAreExclusive, OwnerInv, StoreInv, Holding
  <2>5. StoreInv'
    BY <1>1 DEF Arrive, TCTypeOK, ConnectionsAreExclusive, OwnerInv, StoreInv, Holding
  <2> QED BY <2>1, <2>2, <2>3, <2>4, <2>5
<1>2. CASE \E r \in Requests : Defer(a, r)
  <2>1. TCTypeOK'
    BY <1>2 DEF Defer, TCTypeOK
  <2>2. ConnectionsAreExclusive'
    BY <1>2 DEF Defer, TCTypeOK, ConnectionsAreExclusive, OwnerInv, BorrowInv
  <2>3. (OnlyAbandonedHandlersStray /\ BorrowInv)'
    BY <1>2 DEF Defer, TCTypeOK, OnlyAbandonedHandlersStray, StoreInv, BorrowInv
  <2>4. OwnerInv'
    BY <1>2 DEF Defer, TCTypeOK, ConnectionsAreExclusive, OwnerInv, StoreInv, Holding
  <2>5. StoreInv'
    BY <1>2 DEF Defer, TCTypeOK, ConnectionsAreExclusive, OwnerInv, StoreInv, Holding
  <2> QED BY <2>1, <2>2, <2>3, <2>4, <2>5
<1>3. CASE Wake(a)
  <2>1. TCTypeOK'
    BY <1>3 DEF Wake, TCTypeOK
  <2>2. ConnectionsAreExclusive'
    BY <1>3 DEF Wake, TCTypeOK, ConnectionsAreExclusive, OwnerInv, BorrowInv
  <2>3. (OnlyAbandonedHandlersStray /\ BorrowInv)'
    BY <1>3 DEF Wake, TCTypeOK, OnlyAbandonedHandlersStray, StoreInv, BorrowInv
  <2>4. OwnerInv'
    BY <1>3 DEF Wake, TCTypeOK, ConnectionsAreExclusive, OwnerInv, StoreInv, Holding
  <2>5. StoreInv'
    BY <1>3 DEF Wake, TCTypeOK, ConnectionsAreExclusive, OwnerInv, StoreInv, Holding
  <2> QED BY <2>1, <2>2, <2>3, <2>4, <2>5
<1> QED BY <1>1, <1>2, <1>3 DEF Open

\* A connection is pinned, or not.
LEMMA EnterStep ==
  ASSUME TCInv, NEW a \in Actors, Enter(a)
  PROVE  TCInv'
<1> USE TenantAssumption DEF TCInv, Actors, None, Goto, Steps, Lent
<1>1. CASE Acquire(a)
  <2>1. TCTypeOK'
    BY <1>1 DEF Acquire, Free, TCTypeOK
  <2>2. ConnectionsAreExclusive'
    BY <1>1 DEF Acquire, Free, TCTypeOK, ConnectionsAreExclusive, OwnerInv, BorrowInv, Holding
  <2>3. (OnlyAbandonedHandlersStray /\ BorrowInv)'
    BY <1>1 DEF Acquire, Free, TCTypeOK, OnlyAbandonedHandlersStray, StoreInv, BorrowInv
  <2>4. OwnerInv'
    BY <1>1 DEF Acquire, Free, TCTypeOK, ConnectionsAreExclusive, OwnerInv, StoreInv, Holding
  <2>5. StoreInv'
    BY <1>1 DEF Acquire, Free, TCTypeOK, ConnectionsAreExclusive, OwnerInv, StoreInv, Holding
  <2> QED BY <2>1, <2>2, <2>3, <2>4, <2>5
<1>2. CASE AcquireTimesOut(a)
  <2>1. TCTypeOK'
    BY <1>2 DEF AcquireTimesOut, TCTypeOK
  <2>2. ConnectionsAreExclusive'
    BY <1>2 DEF AcquireTimesOut, TCTypeOK, ConnectionsAreExclusive, OwnerInv, BorrowInv
  <2>3. (OnlyAbandonedHandlersStray /\ BorrowInv)'
    BY <1>2 DEF AcquireTimesOut, TCTypeOK, OnlyAbandonedHandlersStray, StoreInv, BorrowInv
  <2>4. OwnerInv'
    BY <1>2 DEF AcquireTimesOut, TCTypeOK, ConnectionsAreExclusive, OwnerInv, StoreInv, Holding
  <2>5. StoreInv'
    BY <1>2 DEF AcquireTimesOut, TCTypeOK, ConnectionsAreExclusive, OwnerInv, StoreInv, Holding
  <2> QED BY <2>1, <2>2, <2>3, <2>4, <2>5
<1>3. CASE Begin(a)
  <2>1. TCTypeOK'
    BY <1>3 DEF Begin, Mine, TCTypeOK
  <2>2. ConnectionsAreExclusive'
    BY <1>3 DEF Begin, Mine, TCTypeOK, ConnectionsAreExclusive, OwnerInv, BorrowInv
  <2>3. (OnlyAbandonedHandlersStray /\ BorrowInv)'
    BY <1>3 DEF Begin, Mine, TCTypeOK, OnlyAbandonedHandlersStray, StoreInv, BorrowInv
  <2>4. OwnerInv'
    BY <1>3 DEF Begin, Mine, TCTypeOK, ConnectionsAreExclusive, OwnerInv, StoreInv, Holding
  <2>5. StoreInv'
    BY <1>3 DEF Begin, Mine, TCTypeOK, ConnectionsAreExclusive, OwnerInv, StoreInv, Holding
  <2> QED BY <2>1, <2>2, <2>3, <2>4, <2>5
<1>4. CASE BeginFails(a)
  <2>1. TCTypeOK'
    BY <1>4 DEF BeginFails, GiveBack, TCTypeOK
  <2>2. ConnectionsAreExclusive'
    BY <1>4 DEF BeginFails, GiveBack, TCTypeOK, ConnectionsAreExclusive, OwnerInv, BorrowInv
  <2>3. (OnlyAbandonedHandlersStray /\ BorrowInv)'
    BY <1>4 DEF BeginFails, GiveBack, TCTypeOK, OnlyAbandonedHandlersStray, StoreInv, BorrowInv
  <2>4. OwnerInv'
    BY <1>4 DEF BeginFails, GiveBack, TCTypeOK, ConnectionsAreExclusive, OwnerInv, StoreInv, Holding
  <2>5. StoreInv'
    BY <1>4 DEF BeginFails, GiveBack, TCTypeOK, ConnectionsAreExclusive, OwnerInv, StoreInv, Holding
  <2> QED BY <2>1, <2>2, <2>3, <2>4, <2>5
<1> QED BY <1>1, <1>2, <1>3, <1>4 DEF Enter

\* A statement on authDb takes a free connection and returns it.
LEMMA AuthStep ==
  ASSUME TCInv, NEW a \in Actors, Auth(a)
  PROVE  TCInv'
<1> USE TenantAssumption DEF TCInv, Actors, None, Goto, Steps, Lent
<1>1. CASE Borrow(a)
  <2>1. TCTypeOK'
    BY <1>1 DEF Borrow, Free, TCTypeOK
  <2>2. ConnectionsAreExclusive'
    BY <1>1 DEF Borrow, Free, TCTypeOK, ConnectionsAreExclusive, OwnerInv, BorrowInv
  <2>3. (OnlyAbandonedHandlersStray /\ BorrowInv)'
    BY <1>1 DEF Borrow, Free, TCTypeOK, OnlyAbandonedHandlersStray, StoreInv, BorrowInv
  <2>4. OwnerInv'
    BY <1>1 DEF Borrow, Free, TCTypeOK, ConnectionsAreExclusive, OwnerInv, StoreInv, Holding
  <2>5. StoreInv'
    BY <1>1 DEF Borrow, Free, TCTypeOK, ConnectionsAreExclusive, OwnerInv, StoreInv, Holding
  <2> QED BY <2>1, <2>2, <2>3, <2>4, <2>5
<1>2. CASE Return(a)
  <2>1. TCTypeOK'
    BY <1>2 DEF Return, TCTypeOK
  <2>2. ConnectionsAreExclusive'
    BY <1>2 DEF Return, TCTypeOK, ConnectionsAreExclusive, OwnerInv, BorrowInv
  <2>3. (OnlyAbandonedHandlersStray /\ BorrowInv)'
    BY <1>2 DEF Return, TCTypeOK, OnlyAbandonedHandlersStray, StoreInv, BorrowInv
  <2>4. OwnerInv'
    BY <1>2 DEF Return, TCTypeOK, ConnectionsAreExclusive, OwnerInv, StoreInv, Holding
  <2>5. StoreInv'
    BY <1>2 DEF Return, TCTypeOK, ConnectionsAreExclusive, OwnerInv, StoreInv, Holding
  <2> QED BY <2>1, <2>2, <2>3, <2>4, <2>5
<1>3. CASE BorrowTimesOut(a)
  <2>1. TCTypeOK'
    BY <1>3 DEF BorrowTimesOut, TCTypeOK
  <2>2. ConnectionsAreExclusive'
    BY <1>3 DEF BorrowTimesOut, TCTypeOK, ConnectionsAreExclusive, OwnerInv, BorrowInv
  <2>3. (OnlyAbandonedHandlersStray /\ BorrowInv)'
    BY <1>3 DEF BorrowTimesOut, TCTypeOK, OnlyAbandonedHandlersStray, StoreInv, BorrowInv
  <2>4. OwnerInv'
    BY <1>3 DEF BorrowTimesOut, TCTypeOK, ConnectionsAreExclusive, OwnerInv, StoreInv, Holding
  <2>5. StoreInv'
    BY <1>3 DEF BorrowTimesOut, TCTypeOK, ConnectionsAreExclusive, OwnerInv, StoreInv, Holding
  <2> QED BY <2>1, <2>2, <2>3, <2>4, <2>5
<1> QED BY <1>1, <1>2, <1>3 DEF Auth

\* The handler or the job is through.
LEMMA EndStep ==
  ASSUME TCInv, NEW a \in Actors, EndHandler(a)
  PROVE  TCInv'
<1> USE TenantAssumption DEF TCInv, Actors, None, Goto, Steps, Lent
<1>1. CASE AnswerRequest(a)
  <2>1. TCTypeOK'
    BY <1>1 DEF AnswerRequest, TCTypeOK
  <2>2. ConnectionsAreExclusive'
    BY <1>1 DEF AnswerRequest, TCTypeOK, ConnectionsAreExclusive, OwnerInv, BorrowInv
  <2>3. (OnlyAbandonedHandlersStray /\ BorrowInv)'
    BY <1>1 DEF AnswerRequest, TCTypeOK, OnlyAbandonedHandlersStray, StoreInv, BorrowInv
  <2>4. OwnerInv'
    BY <1>1 DEF AnswerRequest, TCTypeOK, ConnectionsAreExclusive, OwnerInv, StoreInv, Holding
  <2>5. StoreInv'
    BY <1>1 DEF AnswerRequest, TCTypeOK, ConnectionsAreExclusive, OwnerInv, StoreInv, Holding
  <2> QED BY <2>1, <2>2, <2>3, <2>4, <2>5
<1>2. CASE ResponseFinishes(a)
  <2>1. TCTypeOK'
    BY <1>2 DEF ResponseFinishes, Cleanup, Finished, GiveBack, TCTypeOK
  <2>2. ConnectionsAreExclusive'
    BY <1>2 DEF ResponseFinishes, Cleanup, Finished, GiveBack, TCTypeOK, ConnectionsAreExclusive, OwnerInv, BorrowInv
  <2>3. (OnlyAbandonedHandlersStray /\ BorrowInv)'
    BY <1>2 DEF ResponseFinishes, Cleanup, Finished, GiveBack, TCTypeOK, OnlyAbandonedHandlersStray, StoreInv, BorrowInv
  <2>4. OwnerInv'
    BY <1>2 DEF ResponseFinishes, Cleanup, Finished, GiveBack, TCTypeOK, ConnectionsAreExclusive, OwnerInv, StoreInv, Holding
  <2>5. StoreInv'
    BY <1>2 DEF ResponseFinishes, Cleanup, Finished, GiveBack, TCTypeOK, ConnectionsAreExclusive, OwnerInv, StoreInv, Holding
  <2> QED BY <2>1, <2>2, <2>3, <2>4, <2>5
<1>3. CASE AnswerNobody(a)
  <2>1. TCTypeOK'
    BY <1>3 DEF AnswerNobody, TCTypeOK
  <2>2. ConnectionsAreExclusive'
    BY <1>3 DEF AnswerNobody, TCTypeOK, ConnectionsAreExclusive, OwnerInv, BorrowInv
  <2>3. (OnlyAbandonedHandlersStray /\ BorrowInv)'
    BY <1>3 DEF AnswerNobody, TCTypeOK, OnlyAbandonedHandlersStray, StoreInv, BorrowInv
  <2>4. OwnerInv'
    BY <1>3 DEF AnswerNobody, TCTypeOK, ConnectionsAreExclusive, OwnerInv, StoreInv, Holding
  <2>5. StoreInv'
    BY <1>3 DEF AnswerNobody, TCTypeOK, ConnectionsAreExclusive, OwnerInv, StoreInv, Holding
  <2> QED BY <2>1, <2>2, <2>3, <2>4, <2>5
<1>4. CASE JobEnds(a)
  <2>1. TCTypeOK'
    BY <1>4 DEF JobEnds, Cleanup, Finished, GiveBack, TCTypeOK
  <2>2. ConnectionsAreExclusive'
    BY <1>4 DEF JobEnds, Cleanup, Finished, GiveBack, TCTypeOK, ConnectionsAreExclusive, OwnerInv, BorrowInv
  <2>3. (OnlyAbandonedHandlersStray /\ BorrowInv)'
    BY <1>4 DEF JobEnds, Cleanup, Finished, GiveBack, TCTypeOK, OnlyAbandonedHandlersStray, StoreInv, BorrowInv
  <2>4. OwnerInv'
    BY <1>4 DEF JobEnds, Cleanup, Finished, GiveBack, TCTypeOK, ConnectionsAreExclusive, OwnerInv, StoreInv, Holding
  <2>5. StoreInv'
    BY <1>4 DEF JobEnds, Cleanup, Finished, GiveBack, TCTypeOK, ConnectionsAreExclusive, OwnerInv, StoreInv, Holding
  <2> QED BY <2>1, <2>2, <2>3, <2>4, <2>5
<1> QED BY <1>1, <1>2, <1>3, <1>4 DEF EndHandler

\* The client or PostgreSQL ends the transaction under the handler.
LEMMA AbandonStep ==
  ASSUME TCInv, NEW a \in Actors, Abandon(a)
  PROVE  TCInv'
<1> USE TenantAssumption DEF TCInv, Actors, None, Goto, Steps, Lent
<1>1. CASE LeaveEarly(a)
  <2>1. TCTypeOK'
    BY <1>1 DEF LeaveEarly, TCTypeOK
  <2>2. ConnectionsAreExclusive'
    BY <1>1 DEF LeaveEarly, TCTypeOK, ConnectionsAreExclusive, OwnerInv, BorrowInv
  <2>3. (OnlyAbandonedHandlersStray /\ BorrowInv)'
    BY <1>1 DEF LeaveEarly, TCTypeOK, OnlyAbandonedHandlersStray, StoreInv, BorrowInv
  <2>4. OwnerInv'
    BY <1>1 DEF LeaveEarly, TCTypeOK, ConnectionsAreExclusive, OwnerInv, StoreInv, Holding
  <2>5. StoreInv'
    BY <1>1 DEF LeaveEarly, TCTypeOK, ConnectionsAreExclusive, OwnerInv, StoreInv, Holding
  <2> QED BY <2>1, <2>2, <2>3, <2>4, <2>5
<1>2. CASE ConnectionCloses(a)
  <2>1. TCTypeOK'
    BY <1>2 DEF ConnectionCloses, Cleanup, Finished, GiveBack, TCTypeOK
  <2>2. ConnectionsAreExclusive'
    BY <1>2 DEF ConnectionCloses, Cleanup, Finished, GiveBack, TCTypeOK, ConnectionsAreExclusive, OwnerInv, BorrowInv
  <2>3. (OnlyAbandonedHandlersStray /\ BorrowInv)'
    BY <1>2 DEF ConnectionCloses, Cleanup, Finished, GiveBack, TCTypeOK, OnlyAbandonedHandlersStray, StoreInv, BorrowInv
  <2>4. OwnerInv'
    BY <1>2 DEF ConnectionCloses, Cleanup, Finished, GiveBack, TCTypeOK, ConnectionsAreExclusive, OwnerInv, StoreInv, Holding
  <2>5. StoreInv'
    BY <1>2 DEF ConnectionCloses, Cleanup, Finished, GiveBack, TCTypeOK, ConnectionsAreExclusive, OwnerInv, StoreInv, Holding
  <2> QED BY <2>1, <2>2, <2>3, <2>4, <2>5
<1>3. CASE IdleInTransaction(a)
  <2>1. TCTypeOK'
    BY <1>3 DEF IdleInTransaction, Cleanup, Finished, GiveBack, Mine, TCTypeOK
  <2>2. ConnectionsAreExclusive'
    BY <1>3 DEF IdleInTransaction, Cleanup, Finished, GiveBack, Mine, TCTypeOK, ConnectionsAreExclusive, OwnerInv, BorrowInv
  <2>3. (OnlyAbandonedHandlersStray /\ BorrowInv)'
    BY <1>3 DEF IdleInTransaction, Cleanup, Finished, GiveBack, Mine, TCTypeOK, OnlyAbandonedHandlersStray, StoreInv, BorrowInv
  <2>4. OwnerInv'
    BY <1>3 DEF IdleInTransaction, Cleanup, Finished, GiveBack, Mine, TCTypeOK, ConnectionsAreExclusive, OwnerInv, StoreInv, Holding
  <2>5. StoreInv'
    BY <1>3 DEF IdleInTransaction, Cleanup, Finished, GiveBack, Mine, TCTypeOK, ConnectionsAreExclusive, OwnerInv, StoreInv, Holding
  <2> QED BY <2>1, <2>2, <2>3, <2>4, <2>5
<1> QED BY <1>1, <1>2, <1>3 DEF Abandon

\* A statement on `db` outside its own transaction: cleanup has run.
LEMMA StatementStep ==
  ASSUME TCInv, NEW a \in Actors, Statement(a) \/ CallAuthDb(a)
  PROVE  TCInv'
<1> USE TenantAssumption DEF TCInv, Actors, None, Goto, Steps, Lent
<1>1. CASE Statement(a)
  <2>1. tx[store[a]] # a => a \in Requests /\ ended[a] = "rollback"
    BY <1>1 DEF Statement, TCTypeOK, ConnectionsAreExclusive, OwnerInv, StoreInv, Holding
  <2>2. TCTypeOK' /\ OnlyAbandonedHandlersStray'
    BY <1>1, <2>1 DEF Statement, TCTypeOK, ConnectionsAreExclusive, OnlyAbandonedHandlersStray, OwnerInv, StoreInv, BorrowInv, Holding
  <2> QED BY <1>1, <2>2 DEF Statement, TCTypeOK, ConnectionsAreExclusive, OnlyAbandonedHandlersStray, OwnerInv, StoreInv, BorrowInv, Holding
<1>2. CASE CallAuthDb(a)
  BY <1>2 DEF CallAuthDb, TCTypeOK, ConnectionsAreExclusive, OnlyAbandonedHandlersStray, OwnerInv, StoreInv, BorrowInv, Holding
<1> QED BY <1>1, <1>2

LEMMA StutterStep == TCInv /\ UNCHANGED tcVars => TCInv'
  BY DEF TCInv, tcVars, Lent, TCTypeOK, ConnectionsAreExclusive, OnlyAbandonedHandlersStray, OwnerInv, StoreInv, BorrowInv, Holding

\* The conjunction is inductive.
THEOREM TCInductive == TCSpec => []TCInv
<1>1. TCInv /\ [TCNext]_tcVars => TCInv'
  BY OpenStep, EnterStep, AuthStep, EndStep, AbandonStep, StatementStep, StutterStep DEF TCNext
<1> QED BY TCInitially, <1>1, PTL DEF TCSpec

\* Type correctness.
THEOREM ContextTypes == TCSpec => []TCTypeOK
  BY TCInductive, PTL DEF TCInv

\* One borrower per connection, however requests, jobs and authDb statements
\* interleave: no tenant's statement runs in a transaction opened for another
\* tenant that still uses it.
THEOREM Exclusive == TCSpec => []ConnectionsAreExclusive
  BY TCInductive, PTL DEF TCInv

\* cleanup gives the connection back once.
THEOREM ReleaseOnce == TCSpec => []ReleasedOnce
<1>1. TCInv => ReleasedOnce
  BY DEF TCInv, StoreInv, ReleasedOnce
<1> QED BY TCInductive, <1>1, PTL

\* Only a handler rolled back under its feet runs outside its own transaction;
\* a background job never does.
THEOREM StrayHandlers == TCSpec => []OnlyAbandonedHandlersStray
  BY TCInductive, PTL DEF TCInv

-----------------------------------------------------------------------------
(* The console.                                                               *)

\* The guards of an operation, of somebody assigned to a live room.
RolePermits(op, role) == Granted(op, [role |-> role, assigned |-> "active", status |-> "live"])

\* The page of a control whose answer the page takes in.
Belongs(op, p) ==
    /\ op \in {"start", "stop"} => p = "live"
    /\ op = "saveForm" => p = "builder"
    /\ op \in AssignmentOps => p = "assignments"
    /\ op \in {"createUser", "deleteUser"} => p = "users"
    /\ op \in {"togglePrefs", "saveOrg"} => p = "settings"
    /\ op = "saveDetails" => p = "profile"
    /\ op = "photo" => p = "live"
    /\ op \in SignIns => p \in {"login", "register", "onboarding", "verify"}

\* The reads that an answer brings or makes its page ask for.
ToldBy(op) ==
    CASE op \in {"start", "stop", "saveForm"} -> Heard(op)
      [] op \in AssignmentOps -> {"team", "list", "assigned"}
      [] op \in {"createUser", "deleteUser"} -> {"team", "assigned"}
      [] OTHER -> {}

\* A signed-in tab has a role, and knows its user or has yet to hear of a change.
AuthInv ==
    status = "authenticated" =>
        /\ me.role \in Roles
        /\ \A q \in UserReads : moved[q] \/ me[q] = server[q]

\* What was pressed is granted to the role that pressed it, but for the named gaps.
Pressed(w) ==
    /\ <<w.from, w.op>> \in RoleGaps \/ RolePermits(w.op, w.as)
    /\ w.op = "togglePrefs" => w.to \in {"on", "off"}
    /\ w.op = "finishOnboarding" => w.to \in {"admin", "volunteer"}
    /\ w.since \subseteq Heard(w.op)
PressInv == \A w \in writes : Pressed(w)

\* An answer is what the server still has, or it knows what has changed since.
ServedInv ==
    \A l \in loads : l.served =>
        /\ \A q \in l.reads : q \in l.since \/ l.got[q] = Answer(q, server, l.for)
        /\ "form" \in l.reads => l.got["form"] \in {"f0", "f1", "refused"}

\* What an answer to a request carries is what the server has, or is overtaken.
Accounted(w, s) ==
    /\ w.op \in Renewals => /\ w.got.user.role \in Roles
                            /\ \A q \in UserReads : q \in w.since \/ w.got.user[q] = s[q]
    /\ w.op \in {"start", "stop"} =>
          "room" \in w.since \/ w.got.status = Answer("room", s, "all")
    /\ w.op = "saveForm" => "form" \in w.since \/ Answer("form", s, "all") = "f1"
DoneInv == \A w \in writes : w.phase = "done" => Accounted(w, server)

\* A page that needs the room was opened by somebody with access to it, unless
\* what led there was out of date; so was what a request for it was pressed on, by a
\* user or by a guest.
AccessPages == {"builder", "attendance", "records", "live"}
AccessInv == ~stale /\ page \in AccessPages => canAccessRoomByAssignment(server)
Founded(w, s) ==
    w.phase = "sent" /\ ~w.blind =>
        /\ w.op \in DOMAIN RoomOps => canAccessRoomByAssignment(s)
        /\ w.op = "joinShared" => s.status # "cancelled"
BlindInv == \A w \in writes : Founded(w, server)

\* The open page: its requests, its loads and its fields.
HereInv ==
    \A w \in writes : w.here /\ w.op # "logout" => mounted /\ Belongs(w.op, page)

\* The requests a page may be waiting for.
PageLoads(p) == InitialLoads(p, "admin") \cup When(p = "live", {{"activities"}, {"token"}})
LoadInv ==
    \A l \in loads :
        /\ mounted /\ l.reads \in PageLoads(page)
        /\ l.reads \cap {"team", "assigned", "log"} # {} => l.as = "admin"

TypedInv ==
    \A w \in writes : w.here => /\ w.op = "saveDetails" => view["name"] = "n1"
                                /\ w.op = "saveOrg" => view["org"] = "o1"

\* A form that was typed stands for its answer from the press on.
Telling(w) == w.here /\ (w.phase = "done" \/ w.op = "saveForm")

\* An answer that a page takes in finds the room accessible, or its reads marked.
HeardInv ==
    \A w \in writes :
        Telling(w) /\ w.op \in {"start", "stop", "saveForm"} =>
            canAccessRoomByAssignment(server) \/ \A q \in Heard(w.op) : moved[q]

\* A read the page shows is what the server has, or has changed unheard, or is being
\* read again or about to be, or comes with an answer on its way.
Loading(q) == \E l \in loads : q \in l.reads \/ \E S \in Follows(page, l.reads) : q \in S
Pending(q) == \E w \in writes : Telling(w) /\ q \in ToldBy(w.op)
Displayed == mounted /\ Shown = "page"

ReadsInv ==
    \A q \in Reads :
        Displayed /\ q \in Shows(page, me.role) =>
            moved[q] \/ Loading(q) \/ Pending(q) \/ view[q] = Answer(q, server, filter)

\* A builder that shows a form shows a schema, unless it could not be read.
FormInv ==
    Displayed /\ page = "builder" =>
        moved["form"] \/ Loading("form") \/ view["form"] \in {"f0", "f1"}

\* A field is what the server has, or has changed unheard, or is being saved.
Saving(op) == \E w \in writes : w.here /\ w.op = op /\ w.phase # "done"

NameInv ==
    Displayed /\ page = "profile" =>
        moved["name"] \/ Saving("saveDetails") \/ view["name"] = server.name
OrgInv ==
    Displayed /\ page = "settings" =>
        moved["org"] \/ Saving("saveOrg") \/ view["org"] = server.org

\* Of the toggles on their way, one asks for what the server does not have.
Toggling == {w \in writes : w.here /\ w.op = "togglePrefs" /\ w.phase # "done"}
PrefsInv ==
    Displayed /\ page = "settings" =>
        \/ moved["prefs"]
        \/ Toggling = {} /\ view["prefs"] = server.prefs
        \/ \E w \in Toggling : w.to # server.prefs

\* The roles of each permission.
LEMMA Permissions == \A r :
    /\ hasRolePermission(r, "manage_users") <=> r = "admin"
    /\ hasRolePermission(r, "take_attendance") <=> r \in Roles
    /\ hasRolePermission(r, "view_live_session") <=> r \in Roles
    /\ hasRolePermission(r, "manage_rooms") <=> r \in {"admin", "event_manager"}
    /\ hasRolePermission(r, "manage_live_session") <=> r \in {"admin", "event_manager"}
    /\ hasRolePermission(r, "create_attendance_form") <=> r \in {"admin", "event_manager"}
    /\ hasRolePermission(r, "view_reports") <=> r \in {"admin", "event_manager"}
BY DEF hasRolePermission, RolePermissionMap, Roles, When

\* Answers are values of the view.
LEMMA AnswerValue ==
  ASSUME NEW s \in Facts, NEW f \in {"all", "some"}
  PROVE  /\ \A q \in Reads : Answer(q, s, f) \in Values
         /\ \A q \in AllReads : Current(q, s, f) \in Values
<1>1. \A q \in Reads : Answer(q, s, f) \in Values
  BY DEF Reads, Answer, Guarded, listRooms, Facts, Values, Statuses
<1>2. \A q \in UserReads : s[q] \in Values
  BY DEF UserReads, Facts, Values
<1> QED BY <1>1, <1>2 DEF AllReads, Current

\* An operation leaves facts of the server.
LEMMA EffectFacts ==
  ASSUME NEW s \in Facts, NEW op \in Ops, NEW to,
         op = "togglePrefs" => to \in {"on", "off"},
         op = "finishOnboarding" => to \in {"admin", "volunteer"}
  PROVE  Effect(op, s, to) \in Facts
<1>1. /\ \A v \in Statuses : [s EXCEPT !.status = v] \in Facts
      /\ [s EXCEPT !.form = "f1"] \in Facts
      /\ \A v \in {"one", "two"} : [s EXCEPT !.team = v] \in Facts
      /\ \A v \in {"active", "revoked"} : [s EXCEPT !.assigned = v] \in Facts
      /\ \A v \in {"on", "off"} : [s EXCEPT !.prefs = v] \in Facts
      /\ [s EXCEPT !.name = "n1"] \in Facts
      /\ [s EXCEPT !.org = "o1"] \in Facts
  BY DEF Facts, Statuses
<1>2. updateEventAssignment(s) \in Facts /\ revokeEventAssignment(s) \in Facts
  BY DEF updateEventAssignment, revokeEventAssignment, Facts
<1>3. to \in {"admin", "volunteer"} => completeOnboarding(s, to) \in Facts
  BY DEF completeOnboarding, Facts, Roles
<1> QED BY <1>1, <1>2, <1>3 DEF Effect, Statuses, assignEventAdminToRoom, updateOrganization, updatePreferences

\* The roles that pass the server's guards of an operation, whatever is assigned.
LEMMA Permits == \A role :
    /\ \A op \in {"cancelRoom", "start", "stop", "startRecording", "stopRecording", "saveForm",
                  "report", "createRoom"} :
          RolePermits(op, role) <=> role \in {"admin", "event_manager"}
    /\ RolePermits("photo", role) <=> role \in Roles
    /\ \A op \in AdminOps \cup AssignmentOps : RolePermits(op, role) <=> role = "admin"
    /\ \A op \in AuthOps \cup PublicOps \cup {"sendFeedback", "reportBug"} : RolePermits(op, role)
<1> TAKE role
<1> DEFINE s == [role |-> role, assigned |-> "active", status |-> "live"]
<1>1. DOMAIN RoomOps = {"cancelRoom", "start", "stop", "startRecording", "stopRecording",
                        "saveForm", "report", "photo"}
  BY DEF RoomOps
<1>2. s.role = role /\ s.status # "cancelled" /\ canAccessRoomByAssignment(s)
  BY DEF canAccessRoomByAssignment
<1> HIDE DEF s
<1>3. \A op : Granted(op, s) <=>
        /\ op \in DOMAIN RoomOps => hasRolePermission(role, RoomOps[op])
        /\ op \in AdminOps => role = "admin"
        /\ op \in AssignmentOps => hasRolePermission(role, "manage_users")
        /\ op = "createRoom" => hasRolePermission(role, "manage_rooms")
  BY <1>2 DEF Granted
<1>4. \A op : RolePermits(op, role) <=> Granted(op, s)
  BY DEF RolePermits, s
<1>5. /\ RoomOps["cancelRoom"] = "manage_rooms" /\ RoomOps["saveForm"] = "create_attendance_form"
      /\ \A op \in {"start", "stop", "startRecording", "stopRecording"} :
            RoomOps[op] = "manage_live_session"
      /\ RoomOps["report"] = "view_reports" /\ RoomOps["photo"] = "take_attendance"
  BY DEF RoomOps
<1>6. \A op \in {"cancelRoom", "start", "stop", "startRecording", "stopRecording", "saveForm",
                  "report", "createRoom"} :
          Granted(op, s) <=> role \in {"admin", "event_manager"}
  BY <1>1, <1>3, <1>5, Permissions DEF AdminOps, AssignmentOps
<1>7. Granted("photo", s) <=> role \in Roles
  BY <1>1, <1>3, <1>5, Permissions DEF AdminOps, AssignmentOps
<1>8. \A op \in AdminOps \cup AssignmentOps : Granted(op, s) <=> role = "admin"
  BY <1>1, <1>3, Permissions DEF AdminOps, AssignmentOps
<1>9. \A op \in AuthOps \cup PublicOps \cup {"sendFeedback", "reportBug"} : Granted(op, s)
  BY <1>1, <1>3 DEF AdminOps, AssignmentOps, AuthOps, PublicOps
<1> QED BY <1>4, <1>6, <1>7, <1>8, <1>9 DEF AdminOps, AssignmentOps, AuthOps, PublicOps

\* The roles a page's route lets in.
LEMMA Routes == \A p \in Pages : \A role :
    PermissionRoute(p, role) /\ RoleRoute(p, role) <=>
       /\ p \in {"create", "builder", "reports"} => role \in {"admin", "event_manager"}
       /\ p \in {"attendance", "records", "live"} => role \in Roles
       /\ p \in {"users", "broadcast", "audit", "assignments"} => role = "admin"
BY Permissions DEF PermissionRoute, RoleRoute, RouteNeeds, Roles

\* What is offered on a page has its answer there, and is granted to the role it is
\* offered to, but for the named gaps.
OpFits(p, role, op) ==
    Belongs(op, p) /\ (<<p, op>> \in RoleGaps \/ RolePermits(op, role))
\* A link is followed by the roles its page lets in, but for the named gaps.
PageFits(p, role, c) ==
    <<p, c>> \in RoleGaps \/ (PermissionRoute(c, role) /\ RoleRoute(c, role))
Fits(p, role, c) == (c \in Ops => OpFits(p, role, c)) /\ (c \in Pages => PageFits(p, role, c))

\* The operations that take access to the room.
RoomOpNames == {"cancelRoom", "start", "stop", "startRecording", "stopRecording", "saveForm",
                "report", "photo"}

\* Pages and operations are different controls.
LEMMA Kinds ==
    /\ DOMAIN RoomOps = RoomOpNames
    /\ Pages \cap Ops = {} /\ "layout" \notin Pages \cup Ops
    /\ \A p, role, op : op \in Ops => (Fits(p, role, op) <=> OpFits(p, role, op))
    /\ \A p, role, c : c \in Pages => (Fits(p, role, c) <=> PageFits(p, role, c))
<1>1. DOMAIN RoomOps = RoomOpNames
  BY DEF RoomOps, RoomOpNames
<1>2. Pages \cap Ops = {} /\ "layout" \notin Pages \cup Ops
  BY <1>1 DEF Pages, GuestPages, OpenPages, DashboardPages, Ops, AuthOps, PublicOps, AdminOps,
              AssignmentOps, RoomOpNames
<1> QED BY <1>1, <1>2 DEF Fits

\* Operations no page has to hear of, granted to everybody.
Plain == {"askReset", "resetPassword", "setPassword", "logout", "changePassword", "avatarUpload",
          "joinShared", "sendFeedback", "reportBug"}

\* Links, by the roles that may follow them.
LEMMA LinkFits == \A role :
    /\ \A p, c : c \in {"dashboard", "rooms", "forms", "profile", "settings", "help", "feedback", "bug",
                      "login", "register", "forgot"} => PageFits(p, role, c)
    /\ role \in Roles => \A p, c : c \in {"attendance", "records", "live"} => PageFits(p, role, c)
    /\ role \in {"admin", "event_manager"} =>
          \A p, c : c \in {"create", "builder", "reports"} => PageFits(p, role, c)
    /\ role = "admin" =>
          \A p, c : c \in {"users", "broadcast", "audit", "assignments"} => PageFits(p, role, c)
    /\ PageFits("rooms", role, "builder") /\ PageFits("dashboard", role, "reports")
    /\ PageFits("layout", role, "create") /\ PageFits("layout", role, "reports")
BY Routes DEF PageFits, RoleGaps, Pages, GuestPages, OpenPages, DashboardPages

\* The names that the lemmas about controls list.
LEMMA Fitting ==
    /\ {"cancelRoom", "start", "stop", "startRecording", "stopRecording", "saveForm", "report",
        "photo", "createRoom", "createUser", "deleteUser", "assign", "reassign", "revoke",
        "sendBroadcast", "saveOrg", "deleteMe", "logoUpload", "saveDetails", "togglePrefs",
        "finishOnboarding", "signIn", "signUp", "confirmEmail"} \cup Plain \subseteq Ops
    /\ {"dashboard", "rooms", "create", "live", "attendance", "builder", "records", "forms",
        "reports", "users", "assignments", "feedback", "bug", "forgot", "register", "login"}
          \subseteq Pages
BY Kinds DEF Ops, AuthOps, PublicOps, AdminOps, AssignmentOps, RoomOpNames, Plain, Pages, GuestPages,
   OpenPages, DashboardPages

\* Operations that a page hears of, or that not everyone is granted.
LEMMA OwnFits == \A role :
    /\ role \in {"admin", "event_manager"} =>
         /\ OpFits("rooms", role, "cancelRoom") /\ OpFits("create", role, "createRoom")
         /\ OpFits("builder", role, "saveForm") /\ OpFits("reports", role, "report")
         /\ \A op \in {"start", "stop", "startRecording", "stopRecording"} :
               OpFits("live", role, op)
    /\ role \in Roles => OpFits("live", role, "photo")
    /\ role = "admin" =>
         /\ \A op \in {"createUser", "deleteUser"} : OpFits("users", role, op)
         /\ \A op \in AssignmentOps : OpFits("assignments", role, op)
         /\ OpFits("broadcast", role, "sendBroadcast") /\ OpFits("settings", role, "saveOrg")
    /\ OpFits("records", role, "report") /\ OpFits("settings", role, "deleteMe")
    /\ OpFits("profile", role, "logoUpload") /\ OpFits("profile", role, "saveDetails")
    /\ OpFits("settings", role, "togglePrefs") /\ OpFits("onboarding", role, "finishOnboarding")
    /\ \A p \in {"login", "register"}, op \in {"signIn", "signUp"} : OpFits(p, role, op)
    /\ OpFits("verify", role, "confirmEmail")
    /\ \A p, op : op \in Plain => OpFits(p, role, op)
BY Permits DEF OpFits, Belongs, RoleGaps, Plain, AssignmentOps, AdminOps, SignIns, AuthOps, PublicOps, Roles

\* Every control of a page fits the role it is offered to.
LEMMA OffersFit ==
  ASSUME NEW p \in Pages, NEW role, NEW v, NEW c \in PageOffers(p, role, v),
         p \in DashboardPages => role \in Roles, PermissionRoute(p, role), RoleRoute(p, role)
  PROVE  Fits(p, role, c)
<1> USE DEF When
<1>0. \/ c \in Ops /\ OpFits(p, role, c)
      \/ c \in Pages /\ PageFits(p, role, c)
      => Fits(p, role, c)
  BY Kinds
<1>a. /\ p \in DashboardPages => role \in Roles
      /\ p \in {"create", "builder", "reports"} => role \in {"admin", "event_manager"}
      /\ p \in {"users", "broadcast", "assignments"} => role = "admin"
      /\ {"rooms", "dashboard", "forms", "builder", "records", "live"} \subseteq DashboardPages
  BY Routes DEF DashboardPages
<1>1. CASE p = "rooms"
  <2>1. \/ c \in {"create", "cancelRoom"} /\ role \in {"admin", "event_manager"}
        \/ c \in {"live", "attendance", "builder", "records"}
    BY <1>1, Permissions DEF PageOffers, RoomsPage, RoomCard
  <2> QED BY <1>0, <1>a, <1>1, <2>1, Fitting, OwnFits, LinkFits DEF Plain
<1>2. CASE p = "dashboard"
  <2>1. \/ c = "create" /\ role \in {"admin", "event_manager"}
        \/ c \in {"attendance", "live", "forms", "reports"}
    BY <1>2, Permissions DEF PageOffers, DashboardPage, DashboardHero, DashboardRoom, QuickUtilities
  <2> QED BY <1>0, <1>a, <1>2, <2>1, Fitting, OwnFits, LinkFits DEF Plain
<1>3. CASE p = "forms"
  <2>1. \/ c = "builder" /\ role \in {"admin", "event_manager"}
        \/ c = "records"
    BY <1>3, Permissions DEF PageOffers, FormsPage
  <2> QED BY <1>0, <1>a, <1>3, <2>1, Fitting, OwnFits, LinkFits DEF Plain
<1>4. CASE p = "reports"
  <2>1. c = "report"
    BY <1>4, Permissions DEF PageOffers, ReportsPage
  <2> QED BY <1>0, <1>a, <1>4, <2>1, Fitting, OwnFits, LinkFits DEF Plain
<1>5. CASE p = "records"
  <2>1. c \in {"dashboard", "report", "attendance"}
    BY <1>5, Permissions DEF PageOffers, RecordsPage, RecordsExport, RecordsTable
  <2> QED BY <1>0, <1>a, <1>5, <2>1, Fitting, OwnFits, LinkFits DEF Plain
<1>6. CASE p = "builder"
  <2>1. c \in {"dashboard", "attendance", "saveForm"}
    BY <1>6, Permissions DEF PageOffers, BuilderPage
  <2> QED BY <1>0, <1>a, <1>6, <2>1, Fitting, OwnFits, LinkFits DEF Plain
<1>7. CASE p = "create"
  <2>1. c \in {"dashboard", "createRoom"}
    BY <1>7, Permissions DEF PageOffers, CreateRoomPage
  <2> QED BY <1>0, <1>a, <1>7, <2>1, Fitting, OwnFits, LinkFits DEF Plain
<1>8. CASE p = "live"
  <2>1. \/ c \in {"dashboard", "photo"}
        \/ /\ c \in {"start", "stop", "startRecording", "stopRecording"}
           /\ role \in {"admin", "event_manager"}
    BY <1>8, Permissions DEF PageOffers, LivePage, StageControls, RecordingControls, canPublish, ActivityPanel
  <2> QED BY <1>0, <1>a, <1>8, <2>1, Fitting, OwnFits, LinkFits DEF Plain
<1>9. CASE p = "watch"
  <2>1. c = "joinShared"
    BY <1>9, Permissions DEF PageOffers, WatchPage
  <2> QED BY <1>0, <1>a, <1>9, <2>1, Fitting, OwnFits, LinkFits DEF Plain
<1>10. CASE p = "users"
  <2>1. c \in {"assignments", "createUser", "deleteUser"}
    BY <1>10, Permissions DEF PageOffers, UsersPage, CreateUserModal, DeleteUserModal
  <2> QED BY <1>0, <1>a, <1>10, <2>1, Fitting, OwnFits, LinkFits DEF Plain
<1>11. CASE p = "assignments"
  <2>1. c \in {"assign", "reassign", "revoke"}
    BY <1>11, Permissions DEF PageOffers, AssignmentsPage
  <2> QED BY <1>0, <1>a, <1>11, <2>1, Fitting, OwnFits DEF AssignmentOps
<1>12. CASE p = "broadcast"
  <2>1. c = "sendBroadcast"
    BY <1>12, Permissions DEF PageOffers, BroadcastPage
  <2> QED BY <1>0, <1>a, <1>12, <2>1, Fitting, OwnFits, LinkFits DEF Plain
<1>13. CASE p = "settings"
  <2>1. \/ c = "saveOrg" /\ role = "admin"
        \/ c \in {"togglePrefs", "deleteMe"}
    BY <1>13, Permissions DEF PageOffers, SettingsPage, OrganizationSection, NotificationSection, AccountSection
  <2> QED BY <1>0, <1>a, <1>13, <2>1, Fitting, OwnFits, LinkFits DEF Plain
<1>14. CASE p = "profile"
  <2>1. c \in {"avatarUpload", "saveDetails", "changePassword", "logoUpload"}
    BY <1>14, Permissions DEF PageOffers, ProfilePage, PhotoPicker, DetailsForm, PasswordForm, LogoCard
  <2> QED BY <1>0, <1>a, <1>14, <2>1, Fitting, OwnFits, LinkFits DEF Plain
<1>15. CASE p \in {"help", "feedback", "bug", "onboarding", "login", "register", "verify", "reset",
               "forgot"}
  <2>1. \/ c \in {"feedback", "bug", "forgot", "register", "login", "dashboard"}
        \/ c \in {"sendFeedback", "reportBug", "logout", "setPassword", "resetPassword", "askReset"}
        \/ p = "onboarding" /\ c = "finishOnboarding"
        \/ p \in {"login", "register"} /\ c \in {"signIn", "signUp"}
    BY <1>15 DEF PageOffers, HelpPage, FeedbackPage, ReportBugPage, OnboardingPage, LoginPage,
       RegisterPage, VerifyPage, PasswordSetupForm, ResetPage, ForgotPage
  <2> QED BY <1>0, <1>a, <1>15, <2>1, Fitting, OwnFits, LinkFits DEF Plain
<1>16. CASE p \in {"attendance", "audit"}
  BY <1>16 DEF PageOffers
<1> QED BY <1>1, <1>2, <1>3, <1>4, <1>5, <1>6, <1>7, <1>8, <1>9, <1>10, <1>11, <1>12, <1>13, <1>14, <1>15, <1>16 DEF Pages, GuestPages, OpenPages, DashboardPages


\* The layout's controls fit every role that sees them, lead to no page that needs
\* the room, and ask the server for nothing but to sign out.
LEMMA LayoutFits ==
  ASSUME NEW role \in Roles, NEW c \in DashboardLayout(role)
  PROVE  /\ Fits("layout", role, c) /\ c \notin AccessPages
         /\ c \in Ops => c = "logout"
<1>1. \/ c \in {"dashboard", "rooms", "forms", "profile", "settings", "help", "feedback", "bug"}
      \/ c \in {"users", "assignments", "broadcast", "audit"} /\ role = "admin"
      \/ c \in {"create", "reports"}
      \/ c = "logout"
  BY Permissions DEF DashboardLayout, Sidebar, MenuItems, SidebarTools, ProfileMenu, AddonsMenu,
     QuickAction, HeaderMenu, MobileBar, MobileDrawer, Palette, ToolsItems, When
<1>2. CASE c = "logout"
  BY <1>2, Kinds, Fitting, OwnFits DEF Plain, AccessPages
<1>3. CASE c # "logout"
  <2>1. c \in Pages /\ PageFits("layout", role, c)
    BY <1>1, <1>3, LinkFits DEF Pages, DashboardPages
  <2> QED BY <1>1, <1>3, <2>1, Kinds DEF AccessPages
<1> QED BY <1>2, <1>3

\* What has to be read before a control that needs the room is offered.
LEMMA OffersRead ==
  ASSUME NEW p \in Pages, NEW role, NEW v, NEW c \in PageOffers(p, role, v),
         c \in AccessPages \cup RoomOpNames \cup {"joinShared"}
  PROVE  \/ c = "joinShared" /\ p = "watch" /\ v.shared \in Statuses
         \/ c # "joinShared" /\ p \in {"rooms", "dashboard", "forms", "reports"} /\ v.list \in Statuses
         \/ c # "joinShared" /\ p = "records" /\ v.entries = "rows"
         \/ c # "joinShared" /\ p = "builder"
         \/ c # "joinShared" /\ p = "live" /\ (v.room \in Statuses \/ v.activities = "rows")
<1> USE DEF When, AccessPages, RoomOpNames
<1>1. CASE p = "rooms"
  <2>1. c = "create" \/ (Listed(v) /\ c \in RoomCard(role, v))
    BY <1>1 DEF PageOffers, RoomsPage
  <2>2. "joinShared" \notin RoomCard(role, v)
    BY DEF RoomCard
  <2> QED BY <1>1, <2>1, <2>2 DEF Listed
<1>2. CASE p = "dashboard"
  <2>1. c \in {"create", "forms", "reports"} \/ (Listed(v) /\ c \in DashboardRoom(role))
    BY <1>2 DEF PageOffers, DashboardPage, DashboardHero, QuickUtilities
  <2>2. "joinShared" \notin DashboardRoom(role)
    BY DEF DashboardRoom
  <2> QED BY <1>2, <2>1, <2>2 DEF Listed
<1>3. CASE p = "forms"
  BY <1>3 DEF PageOffers, FormsPage, Listed
<1>4. CASE p = "reports"
  BY <1>4 DEF PageOffers, ReportsPage, Statuses
<1>5. CASE p = "records"
  BY <1>5 DEF PageOffers, RecordsPage, RecordsExport, RecordsTable
<1>6. CASE p = "live"
  BY <1>6 DEF PageOffers, LivePage, StageControls, RecordingControls, canPublish, ActivityPanel
<1>7. CASE p \in {"create", "watch", "broadcast"}
  BY <1>7 DEF PageOffers, CreateRoomPage, WatchPage, BroadcastPage
<1>8. CASE p \in {"users", "assignments"}
  BY <1>8 DEF PageOffers, UsersPage, CreateUserModal, DeleteUserModal, AssignmentsPage
<1>9. CASE p \in {"settings", "profile"}
  BY <1>9 DEF PageOffers, SettingsPage, OrganizationSection, NotificationSection, AccountSection,
     ProfilePage, PhotoPicker, DetailsForm, PasswordForm, LogoCard
<1>10. CASE p \in {"help", "feedback", "bug", "onboarding", "login", "register", "verify", "reset",
               "forgot"}
  BY <1>10 DEF PageOffers, HelpPage, FeedbackPage, ReportBugPage, OnboardingPage, LoginPage,
     RegisterPage, VerifyPage, PasswordSetupForm, ResetPage, ForgotPage
<1>11. CASE p \in {"attendance", "audit"}
  BY <1>11 DEF PageOffers
<1>12. \/ p \in {"rooms", "dashboard", "forms", "reports", "records", "live", "builder"}
       \/ p \in {"create", "watch", "broadcast", "users", "assignments", "settings", "profile"}
       \/ p \in {"help", "feedback", "bug", "onboarding", "login", "register", "verify", "reset",
                  "forgot", "attendance", "audit"}
  BY DEF Pages, GuestPages, OpenPages, DashboardPages
<1>13. CASE p = "builder"
  BY <1>13 DEF PageOffers, BuilderPage
<1> HIDE DEF When, AccessPages, RoomOpNames
<1> QED BY <1>1, <1>2, <1>3, <1>4, <1>5, <1>6, <1>7, <1>8, <1>9, <1>10, <1>11, <1>12, <1>13

-----------------------------------------------------------------------------
(* What the server answers.                                                    *)

\* Only the log is read with a filter.
LEMMA FilterFree ==
    \A q \in Reads \ {"log"} : \A s, f, g : Answer(q, s, f) = Answer(q, s, g)
BY DEF Reads, Answer

\* The answers that tell that the user has access to the room, and those that access gives.
LEMMA Accessible ==
  ASSUME NEW s \in Facts, NEW f
  PROVE  /\ Answer("list", s, f) \in Statuses => canAccessRoomByAssignment(s)
         /\ \A q \in {"room", "form", "entries", "activities", "token"} :
               Answer(q, s, f) # "refused" <=> canAccessRoomByAssignment(s)
         /\ canAccessRoomByAssignment(s) =>
               Answer("room", s, f) = s.status /\ Answer("form", s, f) = s.form
         /\ Answer("form", s, f) \in {"f0", "f1", "refused"}
         /\ Answer("list", s, f) # "refused"
         /\ Answer("shared", s, f) \in Statuses => s.status # "cancelled"
<1>1. /\ s.status \in Statuses /\ s.form \in {"f0", "f1"} /\ s.role \in Roles
      /\ hasRolePermission(s.role, "take_attendance")
      /\ hasRolePermission(s.role, "view_live_session")
  BY Permissions DEF Facts
<1> QED BY <1>1 DEF Answer, listRooms, Guarded, Statuses

\* A read of a member is refused to somebody with access only for the role, and only three
\* of them are.
LEMMA RefusedRead ==
  ASSUME NEW s \in Facts, NEW f \in {"all", "some"}, NEW q \in Reads \ {"shared"}
  PROVE  /\ Answer(q, [s EXCEPT !.assigned = "active"], f) = "refused" =>
               q \in {"team", "assigned", "log"} /\ s.role # "admin"
         /\ Answer(q, s, f) = "refused" =>
               \/ q \in {"room", "form", "entries", "activities", "token"} /\ ~canAccessRoomByAssignment(s)
               \/ Answer(q, [s EXCEPT !.assigned = "active"], f) = "refused"
<1> DEFINE t == [s EXCEPT !.assigned = "active"]
<1>1. /\ t \in Facts /\ t.role = s.role /\ t.team = s.team /\ t.assigned = "active"
      /\ canAccessRoomByAssignment(t)
  BY DEF Facts, canAccessRoomByAssignment
<1> HIDE DEF t
<1>2. \/ q \in {"room", "form", "entries", "activities", "token", "list"}
      \/ q \in {"team", "assigned", "log"}
  BY DEF Reads
<1>3. CASE q \in {"room", "form", "entries", "activities", "token", "list"}
  BY <1>1, <1>3, Accessible DEF t
<1>4. CASE q \in {"team", "assigned", "log"}
  <2>1. Answer(q, t, f) = "refused" => s.role # "admin"
    BY <1>1, <1>4, Permissions DEF Answer, Guarded, Facts
  <2>2. Answer(q, s, f) = "refused" => s.role # "admin"
    BY <1>4, Permissions DEF Answer, Guarded, Facts
  <2>3. s.role # "admin" => Answer(q, t, f) = "refused"
    BY <1>1, <1>4, Permissions DEF Answer, Guarded
  <2> QED BY <1>4, <2>1, <2>2, <2>3 DEF t
<1> QED BY <1>2, <1>3, <1>4

\* Granting an operation takes its permission and, for the room's, access to it; a guest
\* joins a room that is not cancelled.
LEMMA GrantedTo ==
  ASSUME NEW s \in Facts, NEW op \in Ops
  PROVE  /\ op # "joinShared" =>
               (Granted(op, [s EXCEPT !.assigned = "active"]) <=> RolePermits(op, s.role))
         /\ Granted(op, s) <=> /\ RolePermits(op, s.role)
                               /\ op \in DOMAIN RoomOps => canAccessRoomByAssignment(s)
                               /\ op = "joinShared" => s.status # "cancelled"
<1> DEFINE t == [s EXCEPT !.assigned = "active"]
           r == [role |-> s.role, assigned |-> "active", status |-> "live"]
<1>1. /\ t.role = s.role /\ canAccessRoomByAssignment(t)
      /\ r.role = s.role /\ r.status # "cancelled" /\ canAccessRoomByAssignment(r)
  BY DEF Facts, canAccessRoomByAssignment
<1>2. RolePermits(op, s.role) <=> Granted(op, r)
  BY DEF RolePermits
<1> HIDE DEF t, r
<1>3. op # "joinShared" => (Granted(op, t) <=> Granted(op, r))
  BY <1>1 DEF Granted
<1>4. Granted(op, s) <=> /\ Granted(op, r)
                         /\ op \in DOMAIN RoomOps => canAccessRoomByAssignment(s)
                         /\ op = "joinShared" => s.status # "cancelled"
  BY <1>1 DEF Granted
<1> QED BY <1>2, <1>3, <1>4 DEF t

-----------------------------------------------------------------------------
(* What operations change.                                                     *)

\* An operation of the room finds it accessible and leaves it so.
LEMMA EffectAccess ==
  ASSUME NEW s \in Facts, NEW op \in Ops, NEW to, Granted(op, s),
         canAccessRoomByAssignment(s), op # "finishOnboarding"
  PROVE  canAccessRoomByAssignment(Effect(op, s, to))
<1>1. op \in AssignmentOps => hasRolePermission(s.role, "manage_users")
  BY DEF Granted
<1>2. Effect(op, s, to).role = s.role
  BY DEF Effect, assignEventAdminToRoom, updateEventAssignment, revokeEventAssignment,
     updateOrganization, updatePreferences, Facts
<1>3. op \notin AssignmentOps => Effect(op, s, to).assigned = s.assigned
  BY DEF Effect, AssignmentOps, updateOrganization, updatePreferences, Facts
<1> QED BY <1>1, <1>2, <1>3 DEF canAccessRoomByAssignment

\* The user's own fields change by the operations that are not heard of and by those
\* whose answer is the user.
LEMMA EffectUser ==
  ASSUME NEW s \in Facts, NEW op \in Ops, NEW to
  PROVE  /\ op \notin {"togglePrefs", "saveOrg", "saveDetails", "finishOnboarding"} =>
               \A q \in UserReads : Effect(op, s, to)[q] = s[q]
         /\ op = "togglePrefs" => Effect(op, s, to).prefs = to
         /\ op = "saveOrg" => Effect(op, s, to).org = "o1"
         /\ op = "saveDetails" => Effect(op, s, to).name = "n1"
BY DEF Effect, assignEventAdminToRoom, updateEventAssignment, revokeEventAssignment,
   updateOrganization, updatePreferences, Facts, UserReads

\* What the answers tell, by operation.
LEMMA Tells ==
    /\ \A op \in {"start", "stop"} : ToldBy(op) = {"room"} /\ Heard(op) = {"room"}
    /\ ToldBy("saveForm") = {"form"} /\ Heard("saveForm") = {"form"}
    /\ \A op \in AssignmentOps : ToldBy(op) = {"team", "list", "assigned"} /\ Heard(op) = {}
    /\ \A op \in {"createUser", "deleteUser"} : ToldBy(op) = {"team", "assigned"} /\ Heard(op) = {}
    /\ \A op \in Renewals : ToldBy(op) = {} /\ Heard(op) = UserReads
    /\ \A op : op \notin {"start", "stop", "saveForm", "createUser", "deleteUser"} \cup AssignmentOps
                 => ToldBy(op) = {} /\ (op \notin Renewals => Heard(op) = {})
BY DEF ToldBy, Heard, AssignmentOps, SignIns, Renewals

\* What an operation changes of the page that hears its answer, the answer tells.
LEMMA EffectTold ==
  ASSUME NEW s \in Facts, NEW op \in Ops, NEW to, NEW p \in Pages, NEW role,
         NEW f \in {"all", "some"}, NEW q \in Reads,
         op \notin Unheard \cup SignIns, Belongs(op, p), q \in Shows(p, role),
         Answer(q, Effect(op, s, to), f) # Answer(q, s, f)
  PROVE  q \in ToldBy(op)
<1>1. Effect(op, s, to) # s
  OBVIOUS
<1>2. \/ op \in {"start", "stop"} /\ p = "live"
      \/ op = "saveForm" /\ p = "builder"
      \/ op \in AssignmentOps /\ p = "assignments"
      \/ op \in {"createUser", "deleteUser"} /\ p = "users"
  BY <1>1 DEF Effect, Belongs, Unheard, SignIns, AssignmentOps
<1>3. CASE op \in {"start", "stop"} /\ p = "live"
  <2>1. q \in {"room", "activities"}
    BY <1>3 DEF Shows, LiveShows
  <2>2. q # "activities"
    <3>1. /\ Effect(op, s, to).assigned = s.assigned /\ Effect(op, s, to).role = s.role
      BY <1>3 DEF Effect, Facts
    <3> QED BY <3>1 DEF Answer, Guarded, canAccessRoomByAssignment
  <2> QED BY <1>3, <2>1, <2>2, Tells
<1>4. CASE op = "saveForm" /\ p = "builder"
  <2>1. Shows(p, role) = UNION {{"form"}}
    BY <1>4 DEF Shows, InitialLoads
  <2> QED BY <1>4, <2>1, Tells
<1>5. CASE op \in AssignmentOps /\ p = "assignments"
  BY <1>5, Tells DEF Shows, AssignmentRows
<1>6. CASE op \in {"createUser", "deleteUser"} /\ p = "users"
  BY <1>6, Tells DEF Shows, enrichedUsers
<1> QED BY <1>2, <1>3, <1>4, <1>5, <1>6

-----------------------------------------------------------------------------
(* What pages show and load.                                                   *)

\* What a page shows, by page; only the dashboard asks who looks at it.
LEMMA ShowsWhat ==
  ASSUME NEW p \in Pages, NEW role
  PROVE  /\ \A q : q \in Shows("dashboard", role) <=>
               q = "list" \/ (role = "admin" /\ q \in {"assigned", "team"})
         /\ p # "dashboard" => \A q \in Reads : \A r : q \in Shows(p, role) <=> q \in Shows(p, r)
         /\ p \in OpenPages \cup GuestPages => Shows(p, role) \subseteq {"shared"}
         /\ p \in {"rooms", "forms", "reports"} => Shows(p, role) = {"list"}
         /\ p = "records" => Shows(p, role) = {"room", "entries", "form"}
         /\ p = "builder" => Shows(p, role) = {"form"}
         /\ p = "live" => Shows(p, role) = {"room", "activities"}
         /\ "name" \in Shows(p, role) => p = "profile"
         /\ "org" \in Shows(p, role) \/ "prefs" \in Shows(p, role) => p = "settings"
         /\ "token" \notin Shows(p, role)
         /\ Shows(p, role) \subseteq AllReads
<1>1. \A q : q \in Shows("dashboard", role) <=>
               q = "list" \/ (role = "admin" /\ q \in {"assigned", "team"})
  BY Permissions DEF Shows, DashboardShows, memberRows, When
<1>2. CASE p \in {"rooms", "forms", "reports", "builder", "attendance", "watch"}
  <2>1. \A r : Shows(p, r) = UNION InitialLoads(p, r)
    BY <1>2 DEF Shows
  <2>2. \A r : InitialLoads(p, r) =
          IF p \in {"rooms", "forms", "reports"} THEN {{"list"}}
          ELSE IF p = "builder" THEN {{"form"}}
          ELSE IF p = "attendance" THEN {{"form", "room"}} ELSE {{"shared"}}
    BY <1>2 DEF InitialLoads
  <2>3. \A r : Shows(p, r) =
          IF p \in {"rooms", "forms", "reports"} THEN {"list"}
          ELSE IF p = "builder" THEN {"form"}
          ELSE IF p = "attendance" THEN {"form", "room"} ELSE {"shared"}
    <3>1. \A S : UNION {S} = S
      OBVIOUS
    <3>2. \A r : InitialLoads(p, r) \in {{{"list"}}, {{"form"}}, {{"form", "room"}}, {{"shared"}}}
      BY <1>2, <2>2
    <3> QED BY <1>2, <2>1, <2>2, <3>1, Zenon
  <2> QED BY <1>1, <1>2, <2>3 DEF OpenPages, GuestPages, AllReads, Reads
<1>3. CASE p \in {"users", "assignments", "audit", "records", "live", "settings", "profile"}
  BY <1>1, <1>3 DEF Shows, enrichedUsers, AssignmentRows, AuditLogRows, RecordRows, LiveShows, SettingsShows,
     OpenPages, GuestPages, AllReads, Reads, UserReads, When
<1>4. CASE p = "dashboard"
  BY <1>1, <1>4 DEF OpenPages, GuestPages, AllReads, Reads
<1>5. CASE p \in {"create", "broadcast", "help", "feedback", "bug", "onboarding", "login", "register",
               "verify", "reset", "forgot"}
  <2>1. \A r : Shows(p, r) = {}
    BY <1>5 DEF Shows, InitialLoads
  <2> QED BY <1>1, <1>5, <2>1
<1> QED BY <1>2, <1>3, <1>4, <1>5 DEF Pages, GuestPages, OpenPages, DashboardPages

\* What follows a load of the live page; no other page's loads are followed by any.
LEMMA FollowsWhat ==
  ASSUME NEW p, NEW S
  PROVE  /\ Follows("live", {"room"}) = {{"activities"}}
         /\ \A T \in Follows(p, S) : /\ p = "live" /\ T \in {{"activities"}, {"token"}}
                                     /\ T = {"activities"} => S = {"room"}
                                     /\ T = {"token"} => S = {"activities"}
BY DEF Follows

\* A page asks for every read it shows, when it opens or after a load of these.
LEMMA ShowsLoads ==
  ASSUME NEW p \in Pages, NEW role, NEW q \in Reads, q \in Shows(p, role)
  PROVE  \E S \in InitialLoads(p, role) : q \in S \/ \E T \in Follows(p, S) : q \in T
<1> DEFINE special == {"dashboard", "users", "assignments", "audit", "records", "live", "settings",
                       "profile"}
<1>1. CASE p \notin special
  <2>1. Shows(p, role) = UNION InitialLoads(p, role)
    BY <1>1 DEF Shows
  <2> QED BY <2>1
<1>2. CASE p = "dashboard"
  BY <1>2, Permissions DEF Shows, DashboardShows, memberRows, When, InitialLoads
<1>3. CASE p \in {"users", "assignments", "audit", "records"}
  BY <1>3 DEF Shows, enrichedUsers, AssignmentRows, AuditLogRows, RecordRows, InitialLoads
<1>4. CASE p \in {"settings", "profile"}
  BY <1>4 DEF Shows, SettingsShows, Reads, When
<1>5. CASE p = "live"
  <2>1. q \in {"room", "activities"}
    BY <1>5 DEF Shows, LiveShows
  <2>2. InitialLoads(p, role) = {{"room"}} /\ Follows(p, {"room"}) = {{"activities"}}
    BY <1>5, FollowsWhat DEF InitialLoads
  <2> QED BY <2>1, <2>2
<1> QED BY <1>1, <1>2, <1>3, <1>4, <1>5

\* What a page loads, by page.
LEMMA LoadsWhat ==
  ASSUME NEW p \in Pages, NEW role
  PROVE  /\ \A S \in PageLoads(p) : S \subseteq Reads
         /\ \A S \in InitialLoads(p, role) :
               /\ S \in PageLoads(p)
               /\ S \cap {"team", "assigned", "log"} # {} =>
                     role = "admin" \/ p \in {"users", "assignments", "audit"}
         /\ \A S \in PageLoads(p) :
               S \cap {"room", "form", "entries", "activities", "token"} # {} => p \in AccessPages
         /\ p = "builder" => PageLoads(p) = {{"form"}}
         /\ p = "live" => PageLoads(p) = {{"room"}, {"activities"}, {"token"}}
         /\ p = "assignments" => {"team", "list", "assigned"} \in PageLoads(p)
         /\ p = "users" => {"team", "assigned"} \in PageLoads(p)
         /\ p = "audit" => {"log"} \in PageLoads(p)
         /\ p = "dashboard" => {{"list"}, {"assigned", "team"}} \subseteq PageLoads(p)
<1> DEFINE plain == {"rooms", "forms", "reports", "users", "assignments", "audit", "builder",
                     "attendance", "records", "live", "watch"}
<1>1. CASE p = "dashboard"
  BY <1>1, Permissions DEF InitialLoads, PageLoads, When, Reads, AccessPages
<1>2. CASE p = "live"
  BY <1>2 DEF InitialLoads, PageLoads, When, Reads, AccessPages
<1>3. CASE p \in {"rooms", "forms", "reports", "watch"}
  BY <1>3 DEF InitialLoads, PageLoads, When, Reads, AccessPages
<1>4. CASE p \in {"users", "assignments", "audit"}
  BY <1>4 DEF InitialLoads, PageLoads, When, Reads, AccessPages
<1>5. CASE p \in {"builder", "attendance", "records"}
  BY <1>5 DEF InitialLoads, PageLoads, When, Reads, AccessPages
<1>6. CASE p \notin plain \cup {"dashboard"}
  <2>1. InitialLoads(p, role) = {} /\ InitialLoads(p, "admin") = {}
    BY <1>6 DEF InitialLoads
  <2> QED BY <1>6, <2>1 DEF PageLoads, When
<1> QED BY <1>1, <1>2, <1>3, <1>4, <1>5, <1>6

-----------------------------------------------------------------------------
(* Sets of requests and loads that a step rewrites.                            *)

\* One request, whatever became of it.
SameRequest(x, w) == x.op = w.op /\ x.to = w.to /\ x.from = w.from /\ x.as = w.as

\* A request whose page is gone is the request it was.
LEMMA OrphanedIs ==
  ASSUME NEW W \in SUBSET Writes, NEW x \in {[w EXCEPT !.here = FALSE] : w \in W}
  PROVE  /\ x \in Writes /\ ~x.here
         /\ \E w \in W : /\ SameRequest(x, w) /\ x.phase = w.phase /\ x.got = w.got
                         /\ x.since = w.since /\ x.blind = w.blind
BY DEF Writes, SameRequest

\* What a change does to a request under way ...
LEMMA OvertakenIs ==
  ASSUME NEW W \in SUBSET Writes, NEW after, NEW x \in Overtaken(W, after)
  PROVE  /\ x \in Writes
         /\ \E w \in W : /\ SameRequest(x, w) /\ x.phase = w.phase /\ x.got = w.got
                         /\ x.here = w.here
                         /\ x.since = IF w.phase = "done"
                                      THEN w.since \cup (Changed(after) \cap Heard(w.op))
                                      ELSE w.since
                         /\ ~x.blind => ~w.blind /\ ~TakenFrom(w.op, after)
<1>1. Changed(after) \subseteq AllReads /\ \A op : TakenFrom(op, after) \in BOOLEAN
  BY DEF Changed, TakenFrom, AccessLost
<1>2. PICK w \in W : x = [w EXCEPT !.since = IF w.phase = "done"
                                             THEN @ \cup (Changed(after) \cap Heard(w.op)) ELSE @,
                                   !.blind = @ \/ TakenFrom(w.op, after)]
  BY DEF Overtaken
<1> HIDE DEF Changed, TakenFrom, Heard
<1> QED BY <1>1, <1>2 DEF Writes, SameRequest

\* RequestsStay overtaken by others' changes are still the requests they were.
LEMMA OvertakenOf ==
  ASSUME NEW W \in SUBSET Writes, NEW after, NEW x \in Overtaken(W, after)
  PROVE  \E w \in W : SameRequest(x, w) /\ x.phase = w.phase /\ x.here = w.here
<1>1. PICK w \in W : x = [w EXCEPT !.since = IF w.phase = "done"
                                             THEN @ \cup (Changed(after) \cap Heard(w.op)) ELSE @,
                                   !.blind = @ \/ TakenFrom(w.op, after)]
  BY DEF Overtaken
<1> HIDE DEF Changed, TakenFrom, Heard
<1> QED BY <1>1 DEF Writes, SameRequest

\* ... and no request is lost by it.
LEMMA OvertakenHas ==
  ASSUME NEW W \in SUBSET Writes, NEW after, NEW w \in W
  PROVE  \E x \in Overtaken(W, after) : /\ SameRequest(x, w) /\ x.phase = w.phase /\ x.got = w.got
                                        /\ x.here = w.here
<1> DEFINE x == [w EXCEPT !.since = IF w.phase = "done"
                                    THEN @ \cup (Changed(after) \cap Heard(w.op)) ELSE @,
                          !.blind = @ \/ TakenFrom(w.op, after)]
<1>1. x \in Overtaken(W, after)
  BY DEF Overtaken
<1>2. SameRequest(x, w) /\ x.phase = w.phase /\ x.got = w.got /\ x.here = w.here
  BY DEF SameRequest, Writes
<1> QED BY <1>1, <1>2

\* The load k once the reads S have changed.
Aged(l, k, S) ==
    /\ l.reads = k.reads /\ l.for = k.for /\ l.as = k.as
    /\ l.served = k.served /\ l.got = k.got
    /\ l.since = IF k.served THEN k.since \cup (S \cap k.reads) ELSE k.since

\* A change leaves every load, older.
LEMMA BecomesLoads ==
  ASSUME loads \subseteq Loads, NEW after, Becomes(after)
  PROVE  /\ loads' \subseteq Loads
         /\ \A l \in loads' : \E k \in loads : Aged(l, k, Changed(after))
         /\ \A k \in loads : \E l \in loads' : l.reads = k.reads
<1> DEFINE g(k) == [k EXCEPT !.since = IF k.served THEN @ \cup (Changed(after) \cap k.reads) ELSE @]
<1>1. loads' = {g(k) : k \in loads} /\ Changed(after) \subseteq AllReads
  BY DEF Becomes, Changed
<1>2. \A k \in Loads : /\ g(k) \in Loads
                       /\ g(k).reads = k.reads /\ g(k).for = k.for /\ g(k).as = k.as
                       /\ g(k).served = k.served /\ g(k).got = k.got
                       /\ g(k).since = IF k.served THEN k.since \cup (Changed(after) \cap k.reads)
                                       ELSE k.since
  BY <1>1 DEF Loads
<1> HIDE DEF g
<1>4. ASSUME NEW l \in loads'
      PROVE  l \in Loads /\ \E k \in loads : Aged(l, k, Changed(after))
  <2>1. PICK k \in loads : l = g(k)
    BY <1>1
  <2>2. k \in Loads
    OBVIOUS
  <2>3. Aged(l, k, Changed(after))
    BY <1>2, <2>1, <2>2 DEF Aged
  <2> QED BY <1>2, <2>1, <2>2, <2>3
<1>5. ASSUME NEW k \in loads
      PROVE  \E l \in loads' : l.reads = k.reads
  <2>1. g(k) \in loads'
    BY <1>1
  <2> QED BY <1>2, <2>1
<1> QED BY <1>4, <1>5

\* A load that starts.
LEMMA NewLoadIs ==
  ASSUME NEW S \in SUBSET Reads, NEW role \in Roles \cup {"nobody"}, NEW f \in {"all", "some"}
  PROVE  /\ NewLoad(S, role, f) \in Loads
         /\ NewLoad(S, role, f).reads = S /\ NewLoad(S, role, f).as = role
         /\ NewLoad(S, role, f).for = f /\ ~NewLoad(S, role, f).served
BY DEF NewLoad, Loads, Values

\* A request that starts.
LEMMA NewWriteIs ==
  ASSUME me.role \in Roles \cup {"nobody"}, NEW op \in Ops,
         NEW to \in {"none", "on", "off", "admin", "volunteer"}, NEW from \in Pages \cup {"layout"}
  PROVE  /\ NewWrite(op, to, from) \in Writes
         /\ NewWrite(op, to, from).op = op /\ NewWrite(op, to, from).to = to
         /\ NewWrite(op, to, from).from = from /\ NewWrite(op, to, from).as = me.role
         /\ NewWrite(op, to, from).here /\ NewWrite(op, to, from).phase = "sent"
         /\ NewWrite(op, to, from).since = {} /\ NewWrite(op, to, from).blind = Behind
<1>1. Behind \in BOOLEAN /\ NoAnswer \in [status: Statuses \cup {"none"}, user: Users]
  BY DEF Behind, NoAnswer, Nobody, Users
<1> QED BY <1>1 DEF NewWrite, Writes

\* The dashboard asks again for what it shows, as the user it has become.
LEMMA EffectsOfIs ==
  ASSUME NEW user \in Users, filter \in {"all", "some"}
  PROVE  /\ EffectsOf(user) \subseteq Loads
         /\ \A l \in EffectsOf(user) :
              /\ mounted /\ page = "dashboard" /\ ~l.served /\ l.for = filter
              /\ l.as = user.role /\ l.reads \in {{"list"}, {"assigned", "team"}}
              /\ l.reads = {"assigned", "team"} => user.role = "admin"
         /\ mounted /\ page = "dashboard" /\ user.org # "none" =>
              /\ \E l \in EffectsOf(user) : l.reads = {"list"}
              /\ user.role = "admin" /\ me.role # "admin" =>
                    \E l \in EffectsOf(user) : l.reads = {"assigned", "team"}
<1> DEFINE sets == {{"list"}} \cup When(/\ hasRolePermission(user.role, "manage_users")
                                /\ \/ ~hasRolePermission(me.role, "manage_users")
                                   \/ user.org # me.org, {{"assigned", "team"}})
<1>1. EffectsOf(user) = IF mounted /\ page = "dashboard" /\ user.org # "none"
                        THEN {NewLoad(S, user.role, filter) : S \in sets} ELSE {}
  BY DEF EffectsOf, When
<1>2. /\ \A S \in sets : /\ S \in {{"list"}, {"assigned", "team"}}
                         /\ S = {"assigned", "team"} => user.role = "admin"
      /\ {"list"} \in sets
      /\ user.role = "admin" /\ me.role # "admin" => {"assigned", "team"} \in sets
  BY Permissions DEF When
<1>3. user.role \in Roles \cup {"nobody"} /\ \A S \in sets : S \in SUBSET Reads
  BY <1>2 DEF Users, Reads
<1> HIDE DEF sets
<1>4. \A S \in sets : /\ NewLoad(S, user.role, filter) \in Loads
                      /\ NewLoad(S, user.role, filter).reads = S
                      /\ NewLoad(S, user.role, filter).as = user.role
                      /\ NewLoad(S, user.role, filter).for = filter
                      /\ ~NewLoad(S, user.role, filter).served
  BY <1>3, NewLoadIs
<1> QED BY <1>1, <1>2, <1>4

-----------------------------------------------------------------------------
(* Types.                                                                      *)

\* What a page offers fits the role of the tab, and the page is open and read.
LEMMA Offered ==
  ASSUME TypeOK, AuthInv, NEW from \in {page, "layout"}, NEW c \in Offering(from)
  PROVE  /\ Fits(from, me.role, c)
         /\ c \in AccessPages \cup RoomOpNames \cup {"joinShared"} => from = page /\ c \in OnPage
         /\ from = "layout" /\ c \in Ops => c = "logout"
         /\ from # "layout" => mounted /\ Shown = "page" /\ loads = {}
         /\ page \notin OpenPages \cup GuestPages => status = "authenticated"
<1>1. page \in Pages /\ page # "layout"
  BY Kinds DEF TypeOK
<1>2. /\ Shown \in {"page", "denied"}
      /\ page \notin OpenPages \cup GuestPages =>
            /\ status = "authenticated" /\ me.role \in Roles
            /\ Shown = "page" => PermissionRoute(page, me.role) /\ RoleRoute(page, me.role)
  <2>1. Shown \in {"page", "denied"}
    BY DEF Offering, OnPage, OnLayout, When
  <2>2. page \notin OpenPages \cup GuestPages => Shown = ProtectedRoute(page, status, me)
    BY DEF Shown, Rendered
  <2>3. page \notin OpenPages \cup GuestPages =>
            /\ status = "authenticated"
            /\ Shown = "page" => PermissionRoute(page, me.role) /\ RoleRoute(page, me.role)
    BY <2>1, <2>2 DEF ProtectedRoute, TypeOK
  <2> QED BY <2>1, <2>3 DEF AuthInv
<1>3. CASE from = "layout"
  <2>1. page \in DashboardPages /\ c \in DashboardLayout(me.role)
    BY <1>3 DEF Offering, OnLayout, When
  <2>2. page \notin OpenPages \cup GuestPages
    BY <2>1 DEF OpenPages, GuestPages, DashboardPages
  <2>3. c \notin RoomOpNames \cup {"joinShared"}
    BY <1>2, <2>1, <2>2, LayoutFits, Fitting, Kinds DEF RoomOpNames, Ops, PublicOps
  <2> QED BY <1>1, <1>2, <1>3, <2>1, <2>2, <2>3, LayoutFits
<1>4. CASE from = page
  <2>1. c \in OnPage
    BY <1>1, <1>4 DEF Offering
  <2>2. mounted /\ Shown = "page" /\ loads = {} /\ c \in PageOffers(page, me.role, view)
    BY <2>1 DEF OnPage, When
  <2>3. page \in OpenPages \cup GuestPages =>
           PermissionRoute(page, me.role) /\ RoleRoute(page, me.role) /\ page \notin DashboardPages
    BY <1>1, Routes DEF OpenPages, GuestPages, DashboardPages
  <2>4. Fits(page, me.role, c)
    BY <1>1, <1>2, <2>2, <2>3, OffersFit DEF DashboardPages, OpenPages, GuestPages
  <2> QED BY <1>1, <1>2, <1>4, <2>1, <2>2, <2>4
<1> QED BY <1>3, <1>4

\* Types: the steps of the session.
LEMMA TypeSession ==
  ASSUME TypeOK,
         \/ refreshOnce \/ RefreshServed \/ RefreshLost \/ doRefresh \/ AuthMeLost \/ retryAuth
         \/ TokenExpires \/ SessionEnds
  PROVE  TypeOK'
<1> USE DEF TypeOK, Choose, tab, auth
<1>1. CASE refreshOnce
  <2>1. awaiting' \in {TRUE, awaiting} /\ refreshing' \in {"asked", refreshing}
    BY <1>1 DEF refreshOnce
  <2>8. /\ server' \in Facts /\ cookie' \in {"live", "dead", "none"}
        /\ token' \in {"none", "good", "expired"}
        /\ status' \in {"loading", "authenticated", "unauthenticated", "error"} /\ me' \in Users
        /\ boot' \in {"refresh", "me", "no"}
        /\ refreshing' \in {"no", "asked", "granted", "denied"} /\ awaiting' \in BOOLEAN
    BY <1>1, <2>1 DEF refreshOnce
  <2>9. /\ page' \in Pages /\ mounted' \in BOOLEAN
        /\ view' \in [AllReads -> Values] /\ moved' \in [AllReads -> BOOLEAN]
        /\ filter' \in {"all", "some"} /\ loads' \subseteq Loads /\ writes' \subseteq Writes
        /\ stale' \in BOOLEAN /\ left' \in Nat
    BY <1>1, <2>1 DEF refreshOnce
  <2> QED BY <2>8, <2>9 DEF TypeOK
<1>2. CASE RefreshServed
  BY <1>2 DEF RefreshServed
<1>3. CASE RefreshLost
  BY <1>3 DEF RefreshLost
<1>4. CASE doRefresh
  BY <1>4 DEF doRefresh
<1>5. CASE AuthMeLost
  BY <1>5 DEF AuthMeLost
<1>6. CASE retryAuth
  BY <1>6 DEF retryAuth
<1>7. CASE TokenExpires
  BY <1>7 DEF TokenExpires
<1>8. CASE SessionEnds
  BY <1>8 DEF SessionEnds
<1> QED BY <1>1, <1>2, <1>3, <1>4, <1>5, <1>6, <1>7, <1>8

\* Types: a page that is left.
LEMMA LeaveTypes ==
  ASSUME TypeOK, NEW p \in Pages, Leave(p)
  PROVE  /\ page' \in Pages /\ mounted' \in BOOLEAN
         /\ view' \in [AllReads -> Values] /\ filter' \in {"all", "some"} /\ loads' \subseteq Loads
BY DEF Leave, Unread, Values

\* The marks of a set of reads.
Exactly(T) == [q \in AllReads |-> q \in T]

\* Types: the marks.
LEMMA MarkTypes ==
  ASSUME moved \in [AllReads -> BOOLEAN]
  PROVE  /\ \A S : Mark(S) \in [AllReads -> BOOLEAN] /\ Clear(S) \in [AllReads -> BOOLEAN]
         /\ \A S, T : Told(S, T) \in [AllReads -> BOOLEAN]
         /\ \A T : Exactly(T) \in [AllReads -> BOOLEAN]
         /\ [q \in AllReads |-> FALSE] \in [AllReads -> BOOLEAN]
<1>1. \A S : Mark(S) \in [AllReads -> BOOLEAN] /\ Clear(S) \in [AllReads -> BOOLEAN]
  BY DEF Mark, Clear
<1>2. \A T : \A q \in AllReads : (q \in T) \in BOOLEAN
  OBVIOUS
<1>3. \A S, T : Told(S, T) \in [AllReads -> BOOLEAN]
  <2> SUFFICES ASSUME NEW S, NEW T, NEW q \in AllReads
               PROVE  (IF q \in S THEN q \in T ELSE moved[q]) \in BOOLEAN
    BY Zenon DEF Told
  <2> QED BY <1>2
<1> QED BY <1>1, <1>2, <1>3, Zenon DEF Exactly

\* Types: the steps that change the page or its user.
LEMMA TypePages ==
  ASSUME TypeOK, AuthInv,
         \/ Reload \/ Render \/ Mount \/ AuthMe \/ handleUnauthorized \/ SetFilter
         \/ \E from \in {page, "layout"} : \E c \in Offering(from) : c \in Pages /\ Follow(from, c)
  PROVE  TypeOK'
<1>0. /\ Nobody \in Users /\ Orphaned \subseteq Writes
      /\ \A S : Mark(S) \in [AllReads -> BOOLEAN] /\ Clear(S) \in [AllReads -> BOOLEAN]
      /\ me.role \in Roles \cup {"nobody"} /\ filter \in {"all", "some"} /\ Behind \in BOOLEAN
      /\ [q \in AllReads |-> FALSE] \in [AllReads -> BOOLEAN]
      /\ server \in Facts /\ AuthUser(server) \in Users
      /\ loads \subseteq Loads /\ writes \subseteq Writes /\ page \in Pages
  <2>1. Orphaned \subseteq Writes
    BY OrphanedIs DEF TypeOK, Orphaned
  <2>2. \A S : Mark(S) \in [AllReads -> BOOLEAN] /\ Clear(S) \in [AllReads -> BOOLEAN]
    BY MarkTypes DEF TypeOK
  <2>3. server \in Facts /\ AuthUser(server) \in Users
    BY DEF TypeOK, AuthUser, Facts, Users
  <2>5. [q \in AllReads |-> FALSE] \in [AllReads -> BOOLEAN]
    BY MarkTypes DEF TypeOK
  <2>4. Nobody \in Users /\ me.role \in Roles \cup {"nobody"}
    BY DEF TypeOK, Users, Nobody
  <2> QED BY <2>1, <2>2, <2>3, <2>4, <2>5 DEF TypeOK, Behind
<1>1. CASE Reload
  <2>1. Leave(page)
    BY <1>1 DEF Reload
  <2>8. /\ server' \in Facts /\ cookie' \in {"live", "dead", "none"}
        /\ token' \in {"none", "good", "expired"}
        /\ status' \in {"loading", "authenticated", "unauthenticated", "error"} /\ me' \in Users
        /\ boot' \in {"refresh", "me", "no"}
        /\ refreshing' \in {"no", "asked", "granted", "denied"} /\ awaiting' \in BOOLEAN
    BY <1>0, <1>1, <2>1, LeaveTypes DEF Reload, TypeOK, Choose
  <2>9. /\ page' \in Pages /\ mounted' \in BOOLEAN
        /\ view' \in [AllReads -> Values] /\ moved' \in [AllReads -> BOOLEAN]
        /\ filter' \in {"all", "some"} /\ loads' \subseteq Loads /\ writes' \subseteq Writes
        /\ stale' \in BOOLEAN /\ left' \in Nat
    BY <1>0, <1>1, <2>1, LeaveTypes DEF Reload, TypeOK, Choose
  <2> QED BY <2>8, <2>9 DEF TypeOK
<1>2. CASE Render
  <2>1. Leave(IF Shown \in Pages THEN Shown ELSE page)
    BY <1>2 DEF Render
  <2>2. (IF Shown \in Pages THEN Shown ELSE page) \in Pages
    BY <1>0
  <2> HIDE DEF Shown
  <2> QED BY <1>0, <1>2, <2>1, <2>2, LeaveTypes DEF Render, TypeOK, auth
<1>3. CASE Mount
  <2>1. \A S \in InitialLoads(page, me.role) : S \in SUBSET Reads
    BY <1>0, LoadsWhat
  <2>2. {NewLoad(S, me.role, filter) : S \in InitialLoads(page, me.role)} \subseteq Loads
    BY <1>0, <2>1, NewLoadIs
  <2>3. NewWrite("confirmEmail", "none", page) \in Writes
    <3>1. "confirmEmail" \in Ops
      BY Fitting
    <3> QED BY <1>0, <3>1, NewWriteIs
  <2>4. [q \in AllReads |-> IF q \in UserReads THEN me[q] ELSE "unread"] \in [AllReads -> Values]
    BY DEF TypeOK, Users, UserReads, Values
  <2> QED BY <1>0, <1>3, <2>2, <2>3, <2>4 DEF Mount, TypeOK, auth, When
<1>4. CASE AuthMe
  <2>1. loads' \subseteq Loads
    BY <1>0, <1>4, EffectsOfIs DEF AuthMe
  <2> QED BY <1>0, <1>4, <2>1 DEF AuthMe, TypeOK
<1>5. CASE handleUnauthorized
  BY <1>0, <1>5 DEF handleUnauthorized, TypeOK
<1>6. CASE SetFilter
  <2>1. NewLoad({"log"}, me.role, filter') \in Loads /\ filter' \in {"all", "some"}
    BY <1>0, <1>6, NewLoadIs DEF SetFilter, Reads
  <2>2. loads' \subseteq Loads
    BY <1>0, <1>6, <2>1 DEF SetFilter
  <2>3. /\ UNCHANGED <<server, cookie, token, status, me, boot, refreshing, awaiting>>
        /\ UNCHANGED <<page, mounted, view, writes, moved, stale>>
       
    BY <1>6 DEF SetFilter, auth
  <2>4. left' \in Nat
    BY <1>6 DEF SetFilter, Choose, TypeOK
  <2> QED BY <2>1, <2>2, <2>3, <2>4 DEF TypeOK
<1>7. CASE \E from \in {page, "layout"} : \E c \in Offering(from) : c \in Pages /\ Follow(from, c)
  <2>1. PICK from \in {page, "layout"}, c \in Pages : Follow(from, c)
    BY <1>7
  <2>2. Leave(c)
    BY <2>1 DEF Follow
  <2> QED BY <1>0, <2>1, <2>2, LeaveTypes DEF Follow, TypeOK, auth, Choose
<1> QED BY <1>1, <1>2, <1>3, <1>4, <1>5, <1>6, <1>7

\* The loads that an answered one is followed by.
LEMMA ThenIs ==
  ASSUME TypeOK, NEW l \in loads
  PROVE  /\ \A k \in Then(l) : k \in Loads /\ ~k.served /\ k.reads \in Follows(page, l.reads)
         /\ \A S \in Follows(page, l.reads) : S = {"token"} \/ \E k \in Then(l) : k.reads = S
<1>1. me.role \in Roles \cup {"nobody"} /\ filter \in {"all", "some"}
  BY DEF TypeOK, Users
<1>2. \A S \in Follows(page, l.reads) : S \in SUBSET Reads
  BY FollowsWhat DEF Reads
<1>3. \A S \in Follows(page, l.reads) : /\ NewLoad(S, me.role, filter) \in Loads
                                        /\ NewLoad(S, me.role, filter).reads = S
                                        /\ ~NewLoad(S, me.role, filter).served
  BY <1>1, <1>2, NewLoadIs
<1>4. \A k \in Then(l) : \E S \in Follows(page, l.reads) : k = NewLoad(S, me.role, filter)
  BY DEF Then, When
<1>5. ASSUME NEW S \in Follows(page, l.reads), S # {"token"}
      PROVE  \E k \in Then(l) : k.reads = S
  <2>1. l.reads # {"activities"}
    BY <1>5, FollowsWhat
  <2>2. NewLoad(S, me.role, filter) \in Then(l)
    BY <2>1 DEF Then, When
  <2> QED BY <1>3, <2>2
<1> QED BY <1>3, <1>4, <1>5

\* Types: the loads.
LEMMA TypeLoads ==
  ASSUME TypeOK, NEW l \in loads, Serve(l) \/ AnswerLoad(l) \/ LoseLoad(l)
  PROVE  TypeOK'
<1>0. /\ \A S : Mark(S) \in [AllReads -> BOOLEAN]
      /\ \A S, T : Told(S, T) \in [AllReads -> BOOLEAN]
      /\ l \in Loads /\ page \in Pages
  BY MarkTypes DEF TypeOK
<1>1. CASE Serve(l)
  <2> DEFINE got == [q \in Reads |-> IF q \in l.reads THEN Answer(q, server, l.for) ELSE "unread"]
             k == [l EXCEPT !.served = TRUE, !.got = got]
  <2>1. got \in [Reads -> Values]
    <3>1. \A q \in Reads : Answer(q, server, l.for) \in Values
      BY <1>0, AnswerValue DEF TypeOK, Loads
    <3>2. "unread" \in Values
      BY DEF Values
    <3> QED BY <3>1, <3>2
  <2>2. k \in Loads
    <3> HIDE DEF got
    <3> QED BY <1>0, <2>1 DEF Loads
  <2>3. loads' \subseteq Loads
    BY <1>1, <2>2 DEF Serve, TypeOK
  <2>4. /\ UNCHANGED <<server, cookie, token, status, me, boot, refreshing, awaiting>>
        /\ UNCHANGED <<page, mounted, view, filter, writes, moved, stale, left>>
    BY <1>1 DEF Serve, auth
  <2> QED BY <2>3, <2>4 DEF TypeOK
<1>2. ASSUME Fail(l)
      PROVE  /\ view' \in [AllReads -> Values]
             /\ moved' \in [AllReads -> BOOLEAN] /\ loads' \subseteq Loads
  BY <1>0, <1>2 DEF Fail, TypeOK
<1>3. CASE AnswerLoad(l)
  <2>1. [q \in AllReads |-> IF q \in l.reads THEN l.got[q] ELSE view[q]] \in [AllReads -> Values]
    BY <1>0 DEF TypeOK, Loads, AllReads
  <2>2. /\ view' \in [AllReads -> Values]
        /\ moved' \in [AllReads -> BOOLEAN] /\ loads' \subseteq Loads
    <3>1. CASE Failing(l)
      BY <1>2, <1>3, <3>1 DEF AnswerLoad
    <3>2. CASE ~Failing(l)
      <4>1. Then(l) \subseteq Loads
        BY ThenIs
      <4> QED BY <1>0, <1>3, <2>1, <3>2, <4>1 DEF AnswerLoad, TypeOK
    <3> QED BY <3>1, <3>2
  <2> QED BY <1>3, <2>2 DEF AnswerLoad, TypeOK, auth
<1>4. CASE LoseLoad(l)
  BY <1>2, <1>4 DEF LoseLoad, TypeOK, auth, Choose
<1> QED BY <1>1, <1>3, <1>4

\* Types: the requests, and the changes by others.
LEMMA TypeWrites ==
  ASSUME TypeOK, AuthInv, PressInv,
         \/ \E w \in writes : ServeWrite(w) \/ Answered(w) \/ RefusedAnswer(w) \/ LoseWrite(w)
         \/ \E from \in {page, "layout"} : \E c \in Offering(from) :
               c \in Ops /\ \E to \in Arguments(c) : Press(from, c, to)
         \/ \E o \in Others : OthersWrite(o[1], o[2])
  PROVE  TypeOK'
<1>0. /\ \A S : Mark(S) \in [AllReads -> BOOLEAN] /\ Clear(S) \in [AllReads -> BOOLEAN]
      /\ \A S, T : Told(S, T) \in [AllReads -> BOOLEAN]
      /\ \A T : Exactly(T) \in [AllReads -> BOOLEAN]
      /\ writes \subseteq Writes /\ page \in Pages /\ loads \subseteq Loads
      /\ me.role \in Roles \cup {"nobody"} /\ filter \in {"all", "some"}
  BY MarkTypes DEF TypeOK, Users
<1>a. /\ Nobody \in Users /\ NoAnswer \in [status: Statuses \cup {"none"}, user: Users]
      /\ \A s \in Facts : AnswerOf(s) \in [status: Statuses \cup {"none"}, user: Users]
  BY DEF Users, Nobody, NoAnswer, AnswerOf, AuthUser, Facts
<1>b. ASSUME NEW v \in Values, NEW q \in AllReads
      PROVE  [view EXCEPT ![q] = v] \in [AllReads -> Values]
  BY DEF TypeOK
<1>c. /\ {"prefs", "org", "name", "room", "form"} \subseteq AllReads
      /\ {"on", "off", "o1", "n1", "f1", "none"} \cup Statuses \subseteq Values
  BY DEF AllReads, Reads, UserReads, Values
<1>1. ASSUME NEW w \in writes, ServeWrite(w)
      PROVE  TypeOK'
  <2>1. CASE Grant(w)
    <3> DEFINE after == Effect(w.op, server, w.to)
    <3>1. after \in Facts
      BY <1>0, EffectFacts DEF TypeOK, PressInv, Pressed, Writes
    <3> HIDE DEF after
    <3>2. Becomes(after) /\ server' = after /\ stale' \in BOOLEAN /\ loads' \subseteq Loads
      <4>1. Becomes(after)
        BY <2>1 DEF Grant, after
      <4> QED BY <1>0, <4>1, BecomesLoads DEF Becomes, AccessLost, TypeOK
    <3>3. cookie' \in {"live", "dead", "none"}
      BY <2>1 DEF Grant, SessionAfter, TypeOK
    <3>4. \A s \in Facts : \A T \in SUBSET AllReads :
             [w EXCEPT !.phase = "done", !.got = AnswerOf(s), !.since = T] \in Writes
      BY <1>0, <1>a DEF Writes
    <3>7. /\ When(w.op = "saveDetails", Changed(after) \cap UserReads) \in SUBSET AllReads
          /\ (IF w.op = "saveDetails" THEN server ELSE after) \in Facts
      BY <3>1 DEF When, Changed, TypeOK
    <3>5. writes' \subseteq Writes
      <4>1. writes \ {w} \in SUBSET Writes
        BY <1>0
      <4>2. \A x \in Overtaken(writes \ {w}, after) : x \in Writes
        BY <4>1, OvertakenIs
      <4> DEFINE y == [w EXCEPT !.phase = "done",
                                !.got = AnswerOf(IF w.op = "saveDetails" THEN server ELSE after),
                                !.since = When(w.op = "saveDetails",
                                               Changed(after) \cap UserReads)]
      <4>3. y \in Writes
        BY <3>4, <3>7
      <4>4. writes' = Overtaken(writes \ {w}, after) \cup {y}
        BY <2>1 DEF Grant, after
      <4> QED BY <4>2, <4>3, <4>4
    <3>6. moved' \in [AllReads -> BOOLEAN]
      BY <1>0, <2>1 DEF Grant, TypeOK
    <3> QED BY <1>1, <3>1, <3>2, <3>3, <3>5, <3>6 DEF ServeWrite, TypeOK, auth
  <2>2. ASSUME NEW phase \in {"refused", "unauthorized"}, NEW why, Refuse(w, phase, why)
        PROVE  TypeOK'
    <3>1. [w EXCEPT !.phase = phase] \in Writes
      BY <1>0 DEF Writes
    <3>2. writes' \subseteq Writes
      BY <1>0, <2>2, <3>1 DEF Refuse
    <3> QED BY <1>1, <2>2, <3>2 DEF ServeWrite, Refuse, TypeOK, auth
  <2> QED BY <1>1, <2>1, <2>2 DEF ServeWrite
<1>2. ASSUME NEW w \in writes, Answered(w)
      PROVE  TypeOK'
  <2>0. w \in Writes /\ w.got.user \in Users /\ w.got.status \in Statuses \cup {"none"}
    BY <1>0 DEF Writes
  <2>1. /\ token' \in {"none", "good", "expired"} /\ me' \in Users
        /\ status' \in {"loading", "authenticated", "unauthenticated", "error"}
        /\ boot' = boot /\ refreshing' = refreshing /\ awaiting' = awaiting
    BY <1>2, <1>a, <2>0 DEF Answered, applyAuth, updateUser, SignOut, auth, TypeOK
  <2>2. CASE Goes(w.op) \in {"stay", page}
    <3>1. Fold(w)
      BY <1>2, <2>2 DEF Answered
    <3>2. view' \in [AllReads -> Values]
      BY <1>b, <1>c, <2>0, <3>1 DEF Fold, FromAnswer, TypeOK
    <3>3. loads' \subseteq Loads
      <4>1. \A S \in Reloads(w) : S \in SUBSET Reads
        BY DEF Reloads, Reads
      <4>2. {NewLoad(S, me.role, filter) : S \in Reloads(w)} \subseteq Loads
        BY <1>0, <4>1, NewLoadIs
      <4> QED BY <1>0, <2>1, <3>1, <4>2, EffectsOfIs DEF Fold, When
    <3>4. moved' \in [AllReads -> BOOLEAN]
      BY <1>0, <3>1 DEF Fold, TypeOK
    <3>5. [w EXCEPT !.op = "logout", !.phase = "sent", !.got = NoAnswer] \in Writes
      BY <1>a, <2>0, Fitting DEF Writes, Plain
    <3>6. writes' \subseteq Writes
      BY <1>0, <1>2, <2>2, <3>5 DEF Answered, When
    <3> QED BY <1>2, <2>1, <2>2, <3>1, <3>2, <3>3, <3>4, <3>6 DEF Answered, Fold, TypeOK
  <2>3. CASE Goes(w.op) \notin {"stay", page}
    <3>1. Goes(w.op) \in Pages /\ Leave(Goes(w.op))
      BY <1>2, <2>3 DEF Answered, Goes, Pages, DashboardPages
    <3>2. writes' \subseteq Writes
      <4>1. writes' = {[x EXCEPT !.here = FALSE] : x \in writes \ {w}}
        BY <1>2, <2>3, Zenon DEF Answered
      <4> QED BY <1>0, <4>1, OrphanedIs
    <3>3. moved' \in [AllReads -> BOOLEAN]
      <4>1. moved' = Exactly(w.since) \/ moved' = Clear(Reads)
        BY <1>2, <2>3, Zenon DEF Answered, Exactly
      <4> QED BY <1>0, <4>1, Zenon
    <3> QED BY <1>2, <2>1, <2>3, <3>1, <3>2, <3>3, LeaveTypes DEF Answered, TypeOK
  <2> QED BY <2>2, <2>3
<1>3. ASSUME NEW w \in writes, Undo(w)
      PROVE  /\ writes' \subseteq Writes /\ view' \in [AllReads -> Values]
             /\ UNCHANGED <<page, mounted, loads, filter>>
  BY <1>0, <1>3, <1>b, <1>c DEF Undo, TypeOK
<1>4. ASSUME NEW w \in writes, RefusedAnswer(w)
      PROVE  TypeOK'
  BY <1>0, <1>3, <1>4 DEF RefusedAnswer, TypeOK, auth
<1>5. ASSUME NEW w \in writes, LoseWrite(w)
      PROVE  TypeOK'
  <2>1. /\ token' \in {"none", "good", "expired"} /\ me' \in Users
        /\ status' \in {"loading", "authenticated", "unauthenticated", "error"}
        /\ boot' = boot /\ refreshing' = refreshing /\ awaiting' = awaiting
    BY <1>5, <1>a DEF LoseWrite, SignOut, auth, TypeOK
  <2> QED BY <1>0, <1>3, <1>5, <2>1 DEF LoseWrite, TypeOK, Choose
<1>6. ASSUME NEW from \in {page, "layout"}, NEW c \in Offering(from), c \in Ops,
             NEW to \in Arguments(c), Press(from, c, to)
      PROVE  TypeOK'
  <2>1. to \in {"none", "on", "off", "admin", "volunteer"}
    BY <1>6 DEF Arguments
  <2>2. NewWrite(c, to, from) \in Writes
    BY <1>0, <1>6, <2>1, NewWriteIs
  <2>3. Typed(c, to) \in [AllReads -> Values]
    BY <1>6, <1>b, <1>c DEF Typed, TypeOK, Arguments
  <2> QED BY <1>0, <1>6, <2>2, <2>3 DEF Press, TypeOK, auth, Choose
<1>7. ASSUME NEW o \in Others, OthersWrite(o[1], o[2])
      PROVE  TypeOK'
  <2> DEFINE after == [server EXCEPT ![o[1]] = o[2]]
  <2>1. after \in Facts
    BY ConsoleAssumption DEF TypeOK
  <2> HIDE DEF after
  <2>2. Becomes(after) /\ server' = after /\ stale' \in BOOLEAN /\ loads' \subseteq Loads
    <3>1. Becomes(after)
      BY <1>7 DEF OthersWrite, after
    <3> QED BY <1>0, <3>1, BecomesLoads DEF Becomes, AccessLost, TypeOK
  <2>3. writes' \subseteq Writes
    BY <1>0, <1>7, OvertakenIs DEF OthersWrite, after
  <2>4. /\ UNCHANGED <<cookie, token, status, me, boot, refreshing, awaiting>>
        /\ UNCHANGED <<page, mounted, view, filter>>
        /\ moved' \in [AllReads -> BOOLEAN] /\ left' \in Nat
    BY <1>0, <1>7 DEF OthersWrite, auth, Choose, TypeOK
  <2> QED BY <2>1, <2>2, <2>3, <2>4 DEF TypeOK
<1> QED BY <1>1, <1>2, <1>4, <1>5, <1>6, <1>7

-----------------------------------------------------------------------------
(* The inductive invariant, and what leaves its parts alone.                   *)

\* Of the session and the requests; of the page; and all of it.
SessionInv == AuthInv /\ PressInv /\ ServedInv /\ DoneInv /\ AccessInv /\ BlindInv
FieldsInv == NameInv /\ OrgInv /\ PrefsInv
PageInv == HereInv /\ LoadInv /\ TypedInv /\ HeardInv /\ ReadsInv /\ FormInv /\ FieldsInv

IInv == TypeOK /\ SessionInv /\ PageInv /\ OfferedIsGranted

\* What the routes have checked of a page that is shown, or denied.
LEMMA RenderedMeans ==
  ASSUME NEW p \in Pages, NEW m,
         NEW st \in {"loading", "authenticated", "unauthenticated", "error"}
  PROVE  /\ Rendered(p, st, m) = "page" /\ p \notin OpenPages \cup GuestPages =>
               /\ st = "authenticated" /\ PermissionRoute(p, m.role) /\ RoleRoute(p, m.role)
               /\ p # "onboarding" => m.org # "none"
         /\ Rendered(p, st, m) = "denied" =>
               /\ p \notin OpenPages \cup GuestPages /\ st = "authenticated"
               /\ ~(PermissionRoute(p, m.role) /\ RoleRoute(p, m.role))
BY DEF Rendered, ProtectedRoute, AuthRoute

\* The parts of the invariant and the variables they depend on.
LEMMA Frames ==
  /\ AuthInv /\ UNCHANGED <<status, me, moved, server>> => AuthInv'
  /\ PressInv /\ UNCHANGED writes => PressInv'
  /\ ServedInv /\ UNCHANGED <<loads, server>> => ServedInv'
  /\ DoneInv /\ UNCHANGED <<writes, server>> => DoneInv'
  /\ AccessInv /\ UNCHANGED <<stale, page, server>> => AccessInv'
  /\ BlindInv /\ UNCHANGED <<writes, server>> => BlindInv'
  /\ HereInv /\ UNCHANGED <<writes, mounted, page>> => HereInv'
  /\ LoadInv /\ UNCHANGED <<loads, mounted, page>> => LoadInv'
  /\ TypedInv /\ UNCHANGED <<writes, view>> => TypedInv'
  /\ HeardInv /\ UNCHANGED <<writes, moved, server>> => HeardInv'
  /\ OfferedIsGranted /\ UNCHANGED refused => OfferedIsGranted'
<1>1. AuthInv /\ UNCHANGED <<status, me, moved, server>> => AuthInv'
  BY DEF AuthInv
<1>2. PressInv /\ UNCHANGED writes => PressInv'
  BY DEF PressInv
<1>3. ServedInv /\ UNCHANGED <<loads, server>> => ServedInv'
  BY DEF ServedInv
<1>4. DoneInv /\ UNCHANGED <<writes, server>> => DoneInv'
  BY DEF DoneInv
<1>5. AccessInv /\ UNCHANGED <<stale, page, server>> => AccessInv'
  BY DEF AccessInv
<1>6. BlindInv /\ UNCHANGED <<writes, server>> => BlindInv'
  BY DEF BlindInv, Founded
<1>7. HereInv /\ UNCHANGED <<writes, mounted, page>> => HereInv'
  BY DEF HereInv
<1>8. LoadInv /\ UNCHANGED <<loads, mounted, page>> => LoadInv'
  BY DEF LoadInv
<1>9. TypedInv /\ UNCHANGED <<writes, view>> => TypedInv'
  BY DEF TypedInv
<1>10. HeardInv /\ UNCHANGED <<writes, moved, server>> => HeardInv'
  BY DEF HeardInv, Telling
<1>11. OfferedIsGranted /\ UNCHANGED refused => OfferedIsGranted'
  BY DEF OfferedIsGranted
<1> QED BY <1>1, <1>2, <1>3, <1>4, <1>5, <1>6, <1>7, <1>8, <1>9, <1>10, <1>11

\* The fields of a page left alone.
LEMMA FieldsFrame ==
  ASSUME FieldsInv, Displayed' => Displayed, UNCHANGED <<page, view, moved, server, writes>>
  PROVE  FieldsInv'
<1>1. NameInv'
  BY DEF FieldsInv, NameInv, Saving
<1>2. OrgInv'
  BY DEF FieldsInv, OrgInv, Saving
<1>3. PrefsInv'
  BY DEF FieldsInv, PrefsInv, Toggling
<1> QED BY <1>1, <1>2, <1>3 DEF FieldsInv

\* A page left alone, that is still open if at all and shows no more reads.
LEMMA PageFrame ==
  ASSUME PageInv, Displayed' => Displayed,
         \A q \in Reads : q \in Shows(page', me'.role) => q \in Shows(page, me.role),
         UNCHANGED <<server, page, mounted, view, loads, filter, writes, moved>>
  PROVE  PageInv'
<1>1. HereInv' /\ LoadInv' /\ TypedInv' /\ HeardInv'
  BY Frames DEF PageInv
<1>2. ReadsInv'
  BY DEF PageInv, ReadsInv, Loading, Pending, Telling
<1>3. FormInv'
  BY DEF PageInv, FormInv, Loading
<1> QED BY <1>1, <1>2, <1>3, FieldsFrame DEF PageInv

\* A page that is not mounted, with nothing on its way to it.
LEMMA NoPage ==
  ASSUME ~mounted', loads' = {}, \A w \in writes' : ~w.here
  PROVE  PageInv' /\ ServedInv'
<1>1. HereInv' /\ LoadInv' /\ TypedInv' /\ HeardInv' /\ ServedInv'
  BY DEF HereInv, LoadInv, TypedInv, HeardInv, Telling, ServedInv
<1>2. ~Displayed'
  BY DEF Displayed
<1>3. ReadsInv' /\ FormInv' /\ FieldsInv'
  BY <1>2 DEF ReadsInv, FormInv, FieldsInv, NameInv, OrgInv, PrefsInv
<1> QED BY <1>1, <1>3 DEF PageInv

\* RequestsStay that only lose their page.
LEMMA RequestsStay ==
  ASSUME SessionInv, UNCHANGED server,
         \A x \in writes' : \E w \in writes :
            SameRequest(x, w) /\ x.phase = w.phase /\ x.got = w.got /\ x.since = w.since
              /\ x.blind = w.blind
  PROVE  PressInv' /\ DoneInv' /\ BlindInv'
<1>1. PressInv'
  BY DEF SessionInv, PressInv, Pressed, SameRequest
<1>2. DoneInv'
  BY DEF SessionInv, DoneInv, Accounted, SameRequest
<1>3. BlindInv'
  BY DEF SessionInv, BlindInv, Founded, SameRequest
<1> QED BY <1>1, <1>2, <1>3

-----------------------------------------------------------------------------
(* The session's steps.                                                        *)

\* The tokens are no page's concern.
LEMMA TokenSteps ==
  ASSUME IInv, TypeOK',
         \/ refreshOnce \/ RefreshServed \/ RefreshLost \/ doRefresh \/ TokenExpires \/ SessionEnds
  PROVE  IInv'
<1>1. UNCHANGED <<server, status, me, page, mounted, view, loads, filter, writes, moved,
                  stale, refused>>
  BY DEF refreshOnce, RefreshServed, RefreshLost, doRefresh, TokenExpires, SessionEnds, tab, auth
<1>2. SessionInv' /\ OfferedIsGranted'
  BY <1>1, Frames DEF IInv, SessionInv
<1>3. Displayed' => Displayed
  BY <1>1 DEF Displayed, Shown
<1>4. PageInv'
  BY <1>1, <1>3, PageFrame DEF IInv
<1> QED BY <1>2, <1>4 DEF IInv

\* The tab is asked to wait or shows the error: no page but those open to all stays.
LEMMA StatusLost ==
  ASSUME IInv, TypeOK', Steady, status' \in {"loading", "error"},
         UNCHANGED <<server, me, page, mounted, view, loads, filter, writes, moved, stale,
                     refused>>
  PROVE  IInv'
<1>1. SessionInv' /\ OfferedIsGranted'
  <2>1. AuthInv'
    BY DEF AuthInv
  <2> QED BY <2>1, Frames DEF IInv, SessionInv
<1>2. Displayed' => Displayed
  BY DEF Steady, Displayed
<1>3. PageInv'
  BY <1>2, PageFrame DEF IInv
<1> QED BY <1>1, <1>3 DEF IInv

\* A lost or repeated boot.
LEMMA StatusSteps ==
  ASSUME IInv, TypeOK', Steady, retryAuth \/ AuthMeLost
  PROVE  IInv'
<1>1. status' \in {"loading", "error"}
  BY DEF retryAuth, AuthMeLost
<1>2. UNCHANGED <<server, me, page, mounted, view, loads, filter, writes, moved, stale,
                  refused>>
  BY DEF retryAuth, AuthMeLost, tab, auth
<1> QED BY <1>1, <1>2, StatusLost

\* A session that is over: the user is forgotten with the pages that need one.
LEMMA Unauthorized ==
  ASSUME IInv, TypeOK', Steady, handleUnauthorized
  PROVE  IInv'
<1> USE DEF handleUnauthorized
<1>0. /\ UNCHANGED <<server, page, mounted, view, filter, moved, stale, refused>>
      /\ loads' \subseteq loads /\ writes' \subseteq writes
      /\ \A l \in loads : l.reads = {"shared"} => l \in loads'
      /\ \A w \in writes : w.phase # "sent" \/ w.op \in AuthOps => w \in writes'
  OBVIOUS
<1>1. CASE ~awaiting
  <2>1. loads' = loads /\ writes' = writes /\ me' = me
    BY <1>1
  <2>2. status' \in {status, "unauthenticated"}
    OBVIOUS
  <2>3. AuthInv'
    BY <1>0, <2>1, <2>2 DEF IInv, SessionInv, AuthInv
  <2>4. Displayed' => Displayed
    BY <1>0 DEF Steady, Displayed
  <2>5. PageInv'
    BY <1>0, <2>1, <2>4, PageFrame DEF IInv
  <2> QED BY <1>0, <2>1, <2>3, <2>5, Frames DEF IInv, SessionInv
<1>2. CASE awaiting
  <2>1. status' = "unauthenticated" /\ me' = Nobody
    BY <1>2
  <2> HIDE DEF handleUnauthorized
  <2>2. SessionInv'
    <3>1. AuthInv'
      BY <2>1 DEF AuthInv
    <3>2. PressInv' /\ DoneInv' /\ BlindInv'
      BY <1>0, RequestsStay DEF IInv, SameRequest
    <3>3. ServedInv'
      BY <1>0 DEF IInv, SessionInv, ServedInv
    <3>4. AccessInv'
      BY <1>0, Frames DEF IInv, SessionInv
    <3> QED BY <3>1, <3>2, <3>3, <3>4 DEF SessionInv
  <2>3. HereInv' /\ LoadInv' /\ TypedInv' /\ HeardInv'
    <3>1. HereInv'
      BY <1>0 DEF IInv, PageInv, HereInv
    <3>2. LoadInv'
      BY <1>0 DEF IInv, PageInv, LoadInv
    <3>3. TypedInv'
      BY <1>0 DEF IInv, PageInv, TypedInv
    <3>4. HeardInv'
      BY <1>0 DEF IInv, PageInv, HeardInv, Telling
    <3> QED BY <3>1, <3>2, <3>3, <3>4
  <2>4. Displayed' => Displayed /\ page \in OpenPages \cup GuestPages
    <3>1. Displayed' => Displayed
      BY <1>0 DEF Steady, Displayed
    <3>2. Displayed' => Rendered(page, status', me') = "page"
      BY <1>0 DEF Displayed, Shown
    <3>3. page \in Pages /\ status' \in {"loading", "authenticated", "unauthenticated", "error"}
      BY DEF IInv, TypeOK
    <3> QED BY <2>1, <3>1, <3>2, <3>3, RenderedMeans
  <2>5. ReadsInv'
    <3> SUFFICES ASSUME NEW q \in Reads, Displayed', q \in Shows(page', me'.role)
                 PROVE  (moved[q] \/ Loading(q) \/ Pending(q) \/ view[q] = Answer(q, server, filter))'
      BY DEF ReadsInv
    <3>1. page \in Pages /\ page \in OpenPages \cup GuestPages
      BY <2>4 DEF IInv, TypeOK
    <3>2. q = "shared" /\ q \in Shows(page, me.role)
      <4>1. q \in Shows(page, me'.role)
        BY <1>0
      <4>2. page # "dashboard"
        BY <3>1 DEF OpenPages, GuestPages
      <4> QED BY <3>1, <4>1, <4>2, ShowsWhat
    <3>3. moved[q] \/ Loading(q) \/ Pending(q) \/ view[q] = Answer(q, server, filter)
      BY <1>0, <2>4, <3>2 DEF IInv, PageInv, ReadsInv
    <3>4. Loading(q) => Loading(q)'
      <4>1. ASSUME NEW l \in loads, q \in l.reads
            PROVE  l.reads = {"shared"}
        <5>1. l.reads \in PageLoads(page)
          BY DEF IInv, PageInv, LoadInv
        <5>2. \A S \in PageLoads(page) : "shared" \in S => S = {"shared"}
          BY <3>1 DEF PageLoads, InitialLoads, When, OpenPages, GuestPages
        <5> QED BY <3>2, <4>1, <5>1, <5>2
      <4>2. page # "live"
        BY <3>1 DEF OpenPages, GuestPages
      <4> QED BY <1>0, <4>1, <4>2, FollowsWhat DEF Loading
    <3>5. ~Pending(q)
      BY <3>2, Tells DEF Pending, AssignmentOps
    <3> QED BY <1>0, <3>3, <3>4, <3>5
  <2>6. FormInv' /\ FieldsInv'
    <3>1. Displayed' => page' \notin {"builder", "profile", "settings"}
      BY <1>0, <2>4 DEF OpenPages, GuestPages
    <3> QED BY <3>1 DEF FormInv, FieldsInv, NameInv, OrgInv, PrefsInv
  <2>7. OfferedIsGranted'
    BY <1>0, Frames DEF IInv
  <2> QED BY <2>2, <2>3, <2>5, <2>6, <2>7 DEF IInv, PageInv
<1> QED BY <1>1, <1>2 DEF IInv, TypeOK

-----------------------------------------------------------------------------
(* Pages opened and left, and the user renewed.                                *)

\* With no page mounted only a sign-out is on its way for it.
LEMMA Unmounted ==
  ASSUME HereInv, ~mounted, NEW w \in writes, w.here
  PROVE  w.op = "logout"
BY DEF HereInv

\* A link that is not out of date leads to the room only those with access to it;
\* nor is an operation of the room pressed by others on a page that is not behind, nor a
\* cancelled room joined from one.
LEMMA NotBehind ==
  ASSUME IInv, ~Behind, NEW c \in OnPage, c \in AccessPages \cup RoomOpNames \cup {"joinShared"},
         mounted, Shown = "page", loads = {}
  PROVE  IF c = "joinShared" THEN server.status # "cancelled" ELSE canAccessRoomByAssignment(server)
<1>1. page \in Pages /\ server \in Facts /\ view \in [AllReads -> Values] /\ filter \in {"all", "some"}
  BY DEF IInv, TypeOK
<1>2. c \in PageOffers(page, me.role, view)
  BY DEF OnPage, When
<1>3. \/ c = "joinShared" /\ page = "watch" /\ view.shared \in Statuses
      \/ c # "joinShared" /\ page \in {"rooms", "dashboard", "forms", "reports"} /\ view.list \in Statuses
      \/ c # "joinShared" /\ page = "records" /\ view.entries = "rows"
      \/ c # "joinShared" /\ page = "builder"
      \/ c # "joinShared" /\ page = "live" /\ (view.room \in Statuses \/ view.activities = "rows")
  BY <1>1, <1>2, OffersRead
<1>4. ASSUME NEW q \in Reads, q \in Shows(page, me.role)
      PROVE  Pending(q) \/ view[q] = Answer(q, server, filter)
  BY <1>4 DEF Behind, IInv, PageInv, ReadsInv, Displayed, Loading
<1>5. ASSUME NEW q \in Reads, q \in Shows(page, me.role), Pending(q)
      PROVE  \/ page \in {"users", "assignments"}
             \/ page = "live" /\ q = "room" /\ canAccessRoomByAssignment(server)
             \/ page = "builder" /\ q = "form" /\ canAccessRoomByAssignment(server)
  <2>1. PICK w \in writes : Telling(w) /\ q \in ToldBy(w.op)
    BY <1>5 DEF Pending
  <2>2. w.op # "logout" /\ Belongs(w.op, page)
    BY <2>1, Tells DEF IInv, PageInv, HereInv, AssignmentOps, Telling
  <2>3. CASE w.op \in {"start", "stop", "saveForm"}
    <3>1. q \in Heard(w.op) /\ ~moved[q]
      BY <1>5, <2>1, <2>3, Tells DEF Behind
    <3>2. canAccessRoomByAssignment(server)
      BY <2>1, <2>3, <3>1 DEF Behind, IInv, PageInv, HeardInv
    <3> QED BY <2>2, <2>3, <3>1, <3>2, Tells DEF Belongs
  <2>4. CASE w.op \notin {"start", "stop", "saveForm"}
    BY <2>1, <2>2, <2>4, Tells DEF Belongs
  <2> QED BY <2>3, <2>4
<1>6. CASE page \in {"rooms", "dashboard", "forms", "reports"}
  <2>1. "list" \in Reads /\ "list" \in Shows(page, me.role)
    BY <1>1, <1>6, ShowsWhat DEF Reads
  <2> QED BY <1>1, <1>3, <1>4, <1>5, <1>6, <2>1, Accessible
<1>7. CASE page = "records"
  <2>1. "entries" \in Reads /\ "entries" \in Shows(page, me.role)
    BY <1>1, <1>7, ShowsWhat DEF Reads
  <2> QED BY <1>1, <1>3, <1>4, <1>5, <1>7, <2>1, Accessible
<1>8. CASE page = "builder"
  <2>1. "form" \in Reads /\ "form" \in Shows(page, me.role)
    BY <1>1, <1>8, ShowsWhat DEF Reads
  <2>2. view["form"] \in {"f0", "f1"}
    BY <1>8, <2>1 DEF Behind, IInv, PageInv, FormInv, Displayed, Loading
  <2>3. Answer("form", server, filter) # "refused" => canAccessRoomByAssignment(server)
    BY <1>1, Accessible
  <2>4. Pending("form") => canAccessRoomByAssignment(server)
    BY <1>5, <1>8, <2>1
  <2>5. Pending("form") \/ view["form"] = Answer("form", server, filter)
    BY <1>4, <2>1
  <2> QED BY <1>3, <1>8, <2>2, <2>3, <2>4, <2>5
<1>9. CASE page = "live"
  <2>1. /\ {"room", "activities"} \subseteq Reads
        /\ "room" \in Shows(page, me.role) /\ "activities" \in Shows(page, me.role)
    BY <1>1, <1>9, ShowsWhat DEF Reads
  <2>2. "refused" \notin Statuses
    BY DEF Statuses
  <2> QED BY <1>1, <1>3, <1>4, <1>5, <1>9, <2>1, <2>2, Accessible
<1>10. CASE page = "watch"
  <2>1. "shared" \in Reads /\ "shared" \in Shows(page, me.role)
    BY <1>10 DEF Reads, Shows, InitialLoads
  <2>2. view["shared"] = Answer("shared", server, filter)
    BY <1>4, <1>5, <1>10, <2>1
  <2> QED BY <1>1, <1>3, <1>10, <2>2, Accessible
<1> QED BY <1>3, <1>6, <1>7, <1>8, <1>9, <1>10

\* A reload or a redirect: the page and all it waited for is gone.
LEMMA LeaveSteps ==
  ASSUME IInv, TypeOK', Reload \/ Render
  PROVE  IInv'
<1>1. /\ ~mounted' /\ loads' = {} /\ stale' /\ UNCHANGED <<server, refused>>
  BY DEF Reload, Render, Leave
<1>2. \A x \in writes' : /\ ~x.here
                         /\ \E w \in writes : /\ SameRequest(x, w) /\ x.phase = w.phase
                                              /\ x.got = w.got /\ x.since = w.since
                                              /\ x.blind = w.blind
  <2>1. writes' = {} \/ writes' = Orphaned
    BY DEF Reload, Render
  <2> QED BY <2>1, OrphanedIs DEF IInv, TypeOK, Orphaned
<1>3. AuthInv'
  <2>1. CASE Reload
    BY <2>1 DEF Reload, AuthInv
  <2>2. CASE Render
    BY <2>2 DEF Render, AuthInv, IInv, SessionInv, Clear, auth, UserReads, Reads, AllReads
  <2> QED BY <2>1, <2>2
<1>4. PressInv' /\ DoneInv' /\ BlindInv' /\ AccessInv' /\ OfferedIsGranted'
  BY <1>1, <1>2, RequestsStay, Frames DEF IInv, AccessInv
<1> QED BY <1>1, <1>2, <1>3, <1>4, NoPage DEF IInv, SessionInv

\* A link to a page of the room is offered by a page that read the room, or is behind.
LEMMA FollowStep ==
  ASSUME IInv, TypeOK', NEW from \in {page, "layout"}, NEW c \in Offering(from), c \in Pages,
         Follow(from, c)
  PROVE  IInv'
<1>1. /\ ~mounted' /\ loads' = {} /\ page' = c /\ UNCHANGED server
      /\ stale' = Behind /\ writes' = Orphaned /\ moved' = Clear(Reads)
      /\ UNCHANGED <<status, me>>
      /\ refused' = IF Rendered(c, status, me) = "denied"
                    THEN [page |-> from, control |-> c, why |-> "role", excused |-> FALSE]
                    ELSE refused
  BY DEF Follow, Leave, auth
<1>2. \A x \in writes' : /\ ~x.here
                         /\ \E w \in writes : /\ SameRequest(x, w) /\ x.phase = w.phase
                                              /\ x.got = w.got /\ x.since = w.since
                                              /\ x.blind = w.blind
  BY <1>1, OrphanedIs DEF IInv, TypeOK, Orphaned
<1>3. AuthInv'
  BY <1>1 DEF AuthInv, IInv, SessionInv, Clear, UserReads, Reads, AllReads
<1>4. PressInv' /\ DoneInv' /\ BlindInv'
  BY <1>1, <1>2, RequestsStay DEF IInv
<1>5. AccessInv'
  <2> SUFFICES ASSUME ~Behind, c \in AccessPages
               PROVE  canAccessRoomByAssignment(server)
    BY <1>1 DEF AccessInv
  <2>1. from = page /\ c \in OnPage
    BY Offered DEF IInv, SessionInv
  <2>2. mounted /\ Shown = "page" /\ loads = {}
    BY <2>1, Offered, Kinds DEF IInv, SessionInv, TypeOK
  <2>3. c # "joinShared"
    BY DEF AccessPages
  <2> QED BY <2>1, <2>2, <2>3, NotBehind
<1>6. OfferedIsGranted'
  <2>1. CASE Rendered(c, status, me) = "denied"
    <3>1. ~(PermissionRoute(c, me.role) /\ RoleRoute(c, me.role))
      BY <2>1, RenderedMeans DEF IInv, TypeOK
    <3>2. <<from, c>> \in RoleGaps
      BY <3>1, Offered, Kinds DEF IInv, SessionInv, PageFits
    <3> QED BY <1>1, <2>1, <3>2 DEF OfferedIsGranted
  <2>2. CASE Rendered(c, status, me) # "denied"
    BY <1>1, <2>2, Frames DEF IInv
  <2> QED BY <2>1, <2>2
<1> QED BY <1>1, <1>2, <1>3, <1>4, <1>5, <1>6, NoPage DEF IInv, SessionInv

\* Who becomes the user of an open page: its reads are asked for again.
LEMMA NewUser ==
  ASSUME TypeOK, TypeOK', PageInv, Steady, Displayed', UNCHANGED <<page, mounted>>,
         NEW q \in Reads, q \in Shows(page', me'.role),
         \A l \in EffectsOf(me') : l \in loads'
  PROVE  q \in Shows(page, me.role) \/ Loading(q)'
<1>1. page \in Pages /\ page' = page /\ mounted /\ me' \in Users /\ filter \in {"all", "some"}
  BY DEF Displayed, TypeOK
<1>2. CASE page # "dashboard"
  BY <1>1, <1>2, ShowsWhat
<1>3. CASE page = "dashboard"
  <2>1. me'.org # "none"
    <3>1. Rendered(page, status', me') = "page"
      BY <1>1 DEF Displayed, Shown
    <3>2. status' \in {"loading", "authenticated", "unauthenticated", "error"}
      BY DEF TypeOK
    <3> QED BY <1>1, <1>3, <3>1, <3>2, RenderedMeans DEF OpenPages, GuestPages
  <2>2. CASE q = "list"
    BY <1>1, <1>3, <2>2, ShowsWhat
  <2>3. CASE q # "list" /\ me.role = "admin"
    BY <1>1, <1>3, <2>3, ShowsWhat
  <2>4. CASE q # "list" /\ me.role # "admin"
    <3>1. me'.role = "admin" /\ q \in {"assigned", "team"}
      BY <1>1, <1>3, <2>4, ShowsWhat
    <3>2. \E l \in EffectsOf(me') : l.reads = {"assigned", "team"}
      BY <1>1, <1>3, <2>1, <2>4, <3>1, EffectsOfIs
    <3> QED BY <3>1, <3>2 DEF Loading
  <2> QED BY <2>2, <2>3, <2>4
<1> QED BY <1>2, <1>3

\* The reads asked for again are the page's.
LEMMA EffectsLoad ==
  ASSUME NEW user \in Users, filter \in {"all", "some"}, page \in Pages, NEW l \in EffectsOf(user)
  PROVE  /\ mounted /\ l.reads \in PageLoads(page) /\ ~l.served
         /\ l.reads \cap {"team", "assigned", "log"} # {} => l.as = "admin"
<1>1. /\ mounted /\ page = "dashboard" /\ ~l.served /\ l.as = user.role
      /\ l.reads = {"list"} \/ (l.reads = {"assigned", "team"} /\ user.role = "admin")
  BY EffectsOfIs
<1>2. {"list"} \in PageLoads(page) /\ {"assigned", "team"} \in PageLoads(page)
  BY <1>1, LoadsWhat
<1>3. {"list"} \cap {"team", "assigned", "log"} = {}
  OBVIOUS
<1> QED BY <1>1, <1>2, <1>3

\* The user arrives: GET /auth/me brings what the server has.
LEMMA AuthMeStep ==
  ASSUME IInv, TypeOK', Steady, AuthMe
  PROVE  IInv'
<1>1. CASE ~Authorized
  <2>1. status' = "error" /\ UNCHANGED <<me, moved, loads>>
    BY <1>1 DEF AuthMe
  <2>2. UNCHANGED <<server, page, mounted, view, filter, writes, stale, refused>>
    BY DEF AuthMe
  <2> QED BY <2>1, <2>2, StatusLost
<1>2. CASE Authorized
  <2>1. /\ status' = "authenticated" /\ me' = AuthUser(server)
        /\ moved' = IF mounted THEN moved ELSE Clear(UserReads)
        /\ loads' = loads \cup EffectsOf(me')
        /\ UNCHANGED <<server, page, mounted, view, filter, writes, stale, refused>>
    BY <1>2 DEF AuthMe
  <2>2. AuthInv'
    <3>1. me'.role \in Roles /\ \A q \in UserReads : me'[q] = server[q]
      BY <2>1 DEF AuthUser, UserReads, IInv, TypeOK, Facts
    <3> QED BY <2>1, <3>1 DEF AuthInv
  <2>3. me' \in Users /\ filter \in {"all", "some"} /\ page \in Pages
    BY DEF IInv, TypeOK
  <2>4. ServedInv'
    BY <2>1, <2>3, EffectsOfIs DEF IInv, SessionInv, ServedInv
  <2>5. PressInv' /\ DoneInv' /\ BlindInv' /\ AccessInv' /\ OfferedIsGranted' /\ HereInv'
          /\ TypedInv'
    BY <2>1, Frames DEF IInv, SessionInv, PageInv
  <2>6. HeardInv'
    <3>1. CASE mounted
      BY <2>1, <3>1, Frames DEF IInv, PageInv
    <3>2. CASE ~mounted
      <4>1. \A w \in writes' : w.here => w.op = "logout"
        BY <2>1, <3>2, Unmounted DEF IInv, PageInv
      <4> QED BY <4>1 DEF HeardInv, Telling
    <3> QED BY <3>1, <3>2
  <2>7. LoadInv'
    <3>1. ASSUME NEW l \in EffectsOf(me')
          PROVE  /\ mounted /\ l.reads \in PageLoads(page)
                 /\ l.reads \cap {"team", "assigned", "log"} # {} => l.as = "admin"
      BY <2>3, <3>1, EffectsLoad
    <3> QED BY <2>1, <3>1 DEF IInv, PageInv, LoadInv
  <2>8. Displayed' => Displayed /\ moved' = moved
    BY <2>1 DEF Steady, Displayed
  <2>9. ReadsInv'
    <3> SUFFICES ASSUME NEW q \in Reads, Displayed', q \in Shows(page', me'.role)
                 PROVE  (moved[q] \/ Loading(q) \/ Pending(q) \/ view[q] = Answer(q, server, filter))'
      BY DEF ReadsInv
    <3>1. q \in Shows(page, me.role) \/ Loading(q)'
      <4>1. \A l \in EffectsOf(me') : l \in loads'
        BY <2>1
      <4> QED BY <2>1, <4>1, NewUser DEF IInv
    <3>2. Loading(q) => Loading(q)'
      BY <2>1 DEF Loading
    <3>3. Pending(q) <=> Pending(q)'
      BY <2>1 DEF Pending, Telling
    <3> QED BY <2>1, <2>8, <3>1, <3>2, <3>3 DEF IInv, PageInv, ReadsInv
  <2>10. FormInv'
    <3>1. Loading("form") => Loading("form")'
      BY <2>1 DEF Loading
    <3> QED BY <2>1, <2>8, <3>1 DEF IInv, PageInv, FormInv
  <2>11. FieldsInv'
    <3>1. CASE Displayed'
      BY <2>1, <2>8, <3>1, FieldsFrame DEF IInv, PageInv
    <3>2. CASE ~Displayed'
      BY <3>2 DEF FieldsInv, NameInv, OrgInv, PrefsInv
    <3> QED BY <3>1, <3>2
  <2> QED BY <2>2, <2>4, <2>5, <2>6, <2>7, <2>9, <2>10, <2>11 DEF IInv, SessionInv, PageInv
<1> QED BY <1>1, <1>2

\* A page that opens asks for all it shows.
LEMMA MountStep ==
  ASSUME IInv, TypeOK', Mount
  PROVE  IInv'
<1>1. /\ Shown = "page" /\ ~mounted /\ mounted'
      /\ loads' = {NewLoad(S, me.role, filter) : S \in InitialLoads(page, me.role)}
      /\ view' = [q \in AllReads |-> IF q \in UserReads THEN me[q] ELSE "unread"]
      /\ writes' = writes \cup When(page = "verify", {NewWrite("confirmEmail", "none", page)})
      /\ UNCHANGED <<server, status, me, page, filter, moved, stale, refused>>
  BY DEF Mount, auth
<1>2. /\ page \in Pages /\ filter \in {"all", "some"} /\ me.role \in Roles \cup {"nobody"}
      /\ status \in {"loading", "authenticated", "unauthenticated", "error"}
  BY DEF IInv, TypeOK, Users
<1>3. ASSUME NEW S \in InitialLoads(page, me.role)
      PROVE  /\ S \in PageLoads(page) /\ S \subseteq Reads
             /\ NewLoad(S, me.role, filter).reads = S /\ NewLoad(S, me.role, filter).as = me.role
             /\ ~NewLoad(S, me.role, filter).served
  BY <1>2, <1>3, LoadsWhat, NewLoadIs
<1>4. /\ page \notin OpenPages \cup GuestPages =>
            status = "authenticated" /\ PermissionRoute(page, me.role) /\ RoleRoute(page, me.role)
      /\ page \in {"users", "assignments", "audit"} => me.role = "admin"
  <2>1. page \notin OpenPages \cup GuestPages =>
            status = "authenticated" /\ PermissionRoute(page, me.role) /\ RoleRoute(page, me.role)
    BY <1>1, <1>2, RenderedMeans DEF Shown
  <2> QED BY <1>2, <2>1, Routes DEF OpenPages, GuestPages
<1>5. ASSUME NEW w \in writes' \ writes
      PROVE  /\ page = "verify" /\ w.op = "confirmEmail" /\ w.here /\ w.phase = "sent"
             /\ w.since = {}
  <2>1. "confirmEmail" \in Ops
    BY Fitting
  <2> QED BY <1>1, <1>2, <1>5, <2>1, NewWriteIs DEF When
<1>6. \A w \in writes : w.here => w.op = "logout"
  BY <1>1, Unmounted DEF IInv, PageInv
<1>7. SessionInv'
  <2>1. AuthInv' /\ AccessInv'
    BY <1>1, Frames DEF IInv, SessionInv
  <2>2. PressInv'
    <3>1. \A role : RolePermits("confirmEmail", role)
      BY Permits DEF AuthOps
    <3> QED BY <1>5, <3>1 DEF IInv, SessionInv, PressInv, Pressed
  <2>3. ServedInv'
    BY <1>1, <1>3 DEF ServedInv
  <2>4. DoneInv'
    BY <1>1, <1>5 DEF IInv, SessionInv, DoneInv
  <2>5. BlindInv'
    <3>1. "confirmEmail" \notin DOMAIN RoomOps
      BY Kinds DEF RoomOpNames
    <3> QED BY <1>1, <1>5, <3>1 DEF IInv, SessionInv, BlindInv, Founded
  <2> QED BY <2>1, <2>2, <2>3, <2>4, <2>5 DEF SessionInv
<1>8. HereInv' /\ TypedInv' /\ HeardInv'
  <2>1. Belongs("confirmEmail", "verify")
    BY DEF Belongs, AssignmentOps, SignIns
  <2>2. HereInv'
    BY <1>1, <1>5, <1>6, <2>1 DEF HereInv
  <2>3. TypedInv'
    BY <1>5, <1>6 DEF TypedInv
  <2>4. HeardInv'
    BY <1>5, <1>6 DEF HeardInv, Telling
  <2> QED BY <2>2, <2>3, <2>4
<1>9. LoadInv'
  <2> SUFFICES ASSUME NEW l \in loads'
               PROVE  /\ mounted' /\ l.reads \in PageLoads(page')
                      /\ l.reads \cap {"team", "assigned", "log"} # {} => l.as = "admin"
    BY DEF LoadInv
  <2>1. PICK S \in InitialLoads(page, me.role) : l = NewLoad(S, me.role, filter)
    BY <1>1
  <2>2. S \cap {"team", "assigned", "log"} # {} =>
           me.role = "admin" \/ page \in {"users", "assignments", "audit"}
    BY <1>2, LoadsWhat
  <2> QED BY <1>1, <1>3, <1>4, <2>1, <2>2
<1>10. ASSUME NEW q \in Reads, q \in Shows(page, me.role)
       PROVE  Loading(q)'
  <2>1. PICK S \in InitialLoads(page, me.role) : q \in S \/ \E T \in Follows(page, S) : q \in T
    BY <1>2, <1>10, ShowsLoads
  <2>2. NewLoad(S, me.role, filter) \in loads'
    BY <1>1
  <2> QED BY <1>1, <1>3, <2>1, <2>2 DEF Loading
<1>11. ReadsInv' /\ FormInv'
  <2>1. ReadsInv'
    BY <1>1, <1>10 DEF ReadsInv
  <2>2. page = "builder" => "form" \in Reads /\ "form" \in Shows(page, me.role)
    BY <1>2, ShowsWhat DEF Reads
  <2> QED BY <1>1, <1>10, <2>1, <2>2 DEF FormInv
<1>12. FieldsInv'
  <2>1. page \in {"profile", "settings"} => \A q \in UserReads : moved[q] \/ me[q] = server[q]
    BY <1>2, <1>4 DEF OpenPages, GuestPages, IInv, SessionInv, AuthInv
  <2>2. view'["name"] = me["name"] /\ view'["org"] = me["org"] /\ view'["prefs"] = me["prefs"]
    BY <1>1 DEF AllReads, UserReads
  <2>3. Toggling' = {}
    BY <1>5, <1>6 DEF Toggling
  <2>4. me["name"] = me.name /\ server["name"] = server.name /\ {"name", "org", "prefs"} \subseteq UserReads
    BY DEF UserReads
  <2> QED BY <1>1, <2>1, <2>2, <2>3, <2>4 DEF FieldsInv, NameInv, OrgInv, PrefsInv
<1>13. OfferedIsGranted'
  BY <1>1, Frames DEF IInv
<1> QED BY <1>7, <1>8, <1>9, <1>11, <1>12, <1>13 DEF IInv, PageInv

\* A new filter asks for the log again.
LEMMA FilterStep ==
  ASSUME IInv, TypeOK', SetFilter
  PROVE  IInv'
<1> DEFINE new == NewLoad({"log"}, me.role, filter')
<1>1. /\ page = "audit" /\ mounted /\ Shown = "page"
      /\ loads' = loads \cup {new} /\ filter' \in {"all", "some"}
      /\ UNCHANGED <<server, status, me, page, mounted, view, writes, moved, stale, refused>>
  BY DEF SetFilter, auth
<1>2. page \in Pages /\ me.role \in Roles \cup {"nobody"} /\ {"log"} \subseteq Reads
  BY DEF IInv, TypeOK, Users, Reads
<1>3. new.reads = {"log"} /\ new.as = me.role /\ ~new.served
  BY <1>1, <1>2, NewLoadIs
<1> HIDE DEF new
<1>4. SessionInv' /\ OfferedIsGranted'
  <2>1. ServedInv'
    BY <1>1, <1>3 DEF IInv, SessionInv, ServedInv
  <2> QED BY <1>1, <2>1, Frames DEF IInv, SessionInv
<1>5. HereInv' /\ TypedInv'
  BY <1>1, Frames DEF IInv, PageInv
<1>6. HeardInv'
  <2>1. \A w \in writes : w.here => w.op \notin {"start", "stop", "saveForm"}
    BY <1>1 DEF IInv, PageInv, HereInv, Belongs
  <2> QED BY <1>1, <2>1 DEF HeardInv, Telling
<1>7. LoadInv'
  <2>1. me.role = "admin"
    <3>1. RoleRoute(page, me.role)
      BY <1>1, <1>2, RenderedMeans DEF Shown, OpenPages, GuestPages, IInv, TypeOK
    <3> QED BY <1>1, <3>1 DEF RoleRoute
  <2>2. {"log"} \in PageLoads(page)
    BY <1>1, <1>2, LoadsWhat
  <2> QED BY <1>1, <1>3, <2>1, <2>2 DEF IInv, PageInv, LoadInv
<1>8. ReadsInv'
  <2>1. Shows(page, me.role) = {"log"}
    BY <1>1 DEF Shows, AuditLogRows
  <2>2. Loading("log")'
    BY <1>1, <1>3 DEF Loading
  <2> QED BY <1>1, <2>1, <2>2 DEF ReadsInv
<1>9. FormInv' /\ FieldsInv'
  BY <1>1 DEF FormInv, FieldsInv, NameInv, OrgInv, PrefsInv
<1> QED BY <1>4, <1>5, <1>6, <1>7, <1>8, <1>9 DEF IInv, PageInv

-----------------------------------------------------------------------------
(* Loads.                                                                      *)

\* A load is answered from what the server has.
LEMMA ServeStep ==
  ASSUME IInv, TypeOK', NEW l \in loads, Serve(l)
  PROVE  IInv'
<1> DEFINE got == [q \in Reads |-> IF q \in l.reads THEN Answer(q, server, l.for) ELSE "unread"]
           no == {q \in l.reads \ {"shared"} : got[q] = "refused"}
           k == [l EXCEPT !.served = TRUE, !.got = got]
<1>0. /\ l \in Loads /\ page \in Pages /\ server \in Facts /\ l.for \in {"all", "some"}
      /\ l.reads \subseteq Reads /\ server.role \in Roles
  BY DEF IInv, TypeOK, Loads, Facts
<1>1. /\ loads' = (loads \ {l}) \cup {k}
      /\ UNCHANGED <<server, status, me, page, mounted, view, filter, writes, moved, stale>>
      /\ refused' = IF no = {} THEN refused
                    ELSE [page |-> "link", control |-> page, excused |-> stale,
                          why |-> IF \A q \in no : ~RoleRefuses(q) THEN "assignment"
                                  ELSE IF l.as = server.role THEN "role" ELSE "demoted"]
  BY DEF Serve, auth
<1>2. /\ k.reads = l.reads /\ k.as = l.as /\ k.for = l.for /\ k.since = l.since
      /\ \A q \in l.reads : k.got[q] = Answer(q, server, l.for)
  BY <1>0 DEF Loads
<1>3. \A q \in no : /\ Answer(q, server, l.for) = "refused"
                    /\ q \in l.reads /\ q \in Reads \ {"shared"}
  BY <1>0
<1> HIDE DEF k, no, got
<1>4. SessionInv'
  <2>1. ServedInv'
    <3>1. "form" \in k.reads => k.got["form"] \in {"f0", "f1", "refused"}
      BY <1>0, <1>2, Accessible
    <3> QED BY <1>1, <1>2, <3>1 DEF IInv, SessionInv, ServedInv
  <2> QED BY <1>1, <2>1, Frames DEF IInv, SessionInv
<1>5. PageInv'
  <2>1. HereInv' /\ TypedInv' /\ HeardInv'
    BY <1>1, Frames DEF IInv, PageInv
  <2>2. LoadInv'
    BY <1>1, <1>2 DEF IInv, PageInv, LoadInv
  <2>3. \A q : Loading(q) => Loading(q)'
    BY <1>1, <1>2 DEF Loading
  <2>4. ReadsInv'
    BY <1>1, <2>3 DEF IInv, PageInv, ReadsInv, Displayed, Shown, Pending, Telling
  <2>5. FormInv'
    BY <1>1, <2>3 DEF IInv, PageInv, FormInv, Displayed, Shown
  <2>6. FieldsInv'
    BY <1>1, FieldsFrame DEF IInv, PageInv, Displayed, Shown
  <2> QED BY <2>1, <2>2, <2>4, <2>5, <2>6 DEF PageInv
<1>6. OfferedIsGranted'
  <2>1. CASE no = {}
    BY <1>1, <2>1, Frames DEF IInv
  <2>2. CASE no # {}
    <3>1. l.as = server.role => \A q \in no : ~RoleRefuses(q)
      <4> SUFFICES ASSUME l.as = server.role, NEW q \in no, RoleRefuses(q)
                   PROVE  FALSE
        OBVIOUS
      <4>1. filter \in {"all", "some"} /\ q \in Reads \ {"shared"} /\ q \in l.reads
        BY <1>3 DEF IInv, TypeOK
      <4>2. q \in {"team", "assigned", "log"} /\ server.role # "admin"
        BY <1>0, <4>1, RefusedRead DEF RoleRefuses
      <4>3. l.as = "admin"
        BY <4>1, <4>2 DEF IInv, PageInv, LoadInv
      <4> QED BY <4>2, <4>3
    <3>2. (\A q \in no : ~RoleRefuses(q)) => stale
      <4> SUFFICES ASSUME \A q \in no : ~RoleRefuses(q)
                   PROVE  stale
        OBVIOUS
      <4>1. PICK q \in no : TRUE
        BY <2>2
      <4>2. filter \in {"all", "some"} /\ q \in Reads \ {"shared"} /\ q \in l.reads
        BY <1>3 DEF IInv, TypeOK
      <4>3. Answer(q, [server EXCEPT !.assigned = "active"], l.for) # "refused"
        <5>1. Answer(q, [server EXCEPT !.assigned = "active"], filter) # "refused"
          BY <4>1 DEF RoleRefuses
        <5>2. CASE q = "log"
          <6>1. /\ Answer("log", [server EXCEPT !.assigned = "active"], filter) =
                     Guarded([server EXCEPT !.assigned = "active"], server.role = "admin", filter)
                /\ Answer("log", [server EXCEPT !.assigned = "active"], l.for) =
                     Guarded([server EXCEPT !.assigned = "active"], server.role = "admin", l.for)
            BY <1>0 DEF Answer, Facts
          <6> QED BY <1>0, <5>1, <5>2, <6>1 DEF Guarded
        <5>3. CASE q # "log"
          BY <4>2, <5>1, <5>3, FilterFree
        <5> QED BY <5>2, <5>3
      <4>4. Answer(q, server, l.for) = "refused"
        BY <1>3, <4>1
      <4>5. q \in {"room", "form", "entries", "activities", "token"} /\ ~canAccessRoomByAssignment(server)
        BY <1>0, <4>2, <4>3, <4>4, RefusedRead
      <4>6. page \in AccessPages
        <5>1. /\ l.reads \in PageLoads(page)
              /\ l.reads \cap {"room", "form", "entries", "activities", "token"} # {}
          BY <4>2, <4>5 DEF IInv, PageInv, LoadInv
        <5> QED BY <1>0, <5>1, LoadsWhat
      <4> QED BY <4>5, <4>6 DEF IInv, SessionInv, AccessInv, TypeOK
    <3> QED BY <1>1, <2>2, <3>1, <3>2 DEF OfferedIsGranted
  <2> QED BY <2>1, <2>2
<1> QED BY <1>4, <1>5, <1>6 DEF IInv

\* The page goes on without the load: what it brought is shown, or is marked as
\* changed; so is what was to follow, unless it is asked for now.
LEMMA LoadEnds ==
  ASSUME IInv, TypeOK', NEW l \in loads, NEW N, loads' = (loads \ {l}) \cup N,
         \A k \in N : ~k.served /\ k.reads \in Follows(page, l.reads),
         UNCHANGED <<server, status, me, page, mounted, filter, writes, stale, refused>>,
         \A q \in AllReads \ l.reads : view'[q] = view[q] /\ (moved[q] => moved'[q]),
         \A q \in l.reads : moved'[q] \/ view'[q] = Answer(q, server, filter),
         \A S \in Follows(page, l.reads) : \A q \in S :
             q = "token" \/ moved'[q] \/ \E k \in N : q \in k.reads,
         l.reads = {"form"} => moved'["form"] \/ view'["form"] \in {"f0", "f1"},
         page \in {"live", "builder"} => \A q \in l.reads :
             q \in {"room", "form"} => moved'[q] \/ canAccessRoomByAssignment(server)
  PROVE  IInv'
<1>0. /\ l.reads \subseteq Reads /\ page \in Pages
      /\ Reads \subseteq AllReads /\ UserReads \subseteq AllReads
      /\ UserReads = {"prefs", "org", "name"} /\ UserReads \cap Reads = {}
  BY DEF IInv, TypeOK, Loads, AllReads, UserReads, Reads
<1>1. \A q \in UserReads : view'[q] = view[q] /\ (moved[q] => moved'[q])
  BY <1>0
<1>a. ASSUME NEW k \in N
      PROVE  k.reads \in PageLoads(page) /\ k.reads \cap {"team", "assigned", "log"} = {}
  <2>1. page = "live" /\ k.reads \in {{"activities"}, {"token"}}
    BY FollowsWhat
  <2>2. k.reads \in PageLoads(page)
    BY <1>0, <2>1, LoadsWhat
  <2> QED BY <2>1, <2>2
<1>2. SessionInv' /\ OfferedIsGranted'
  <2>1. AuthInv'
    BY <1>1 DEF IInv, SessionInv, AuthInv
  <2>2. ServedInv'
    BY DEF IInv, SessionInv, ServedInv
  <2> QED BY <2>1, <2>2, Frames DEF IInv, SessionInv
<1>3. HereInv' /\ LoadInv' /\ TypedInv'
  <2>1. HereInv'
    BY Frames DEF IInv, PageInv
  <2>2. LoadInv'
    BY <1>a DEF IInv, PageInv, LoadInv
  <2>3. TypedInv'
    BY <1>0, <1>1 DEF IInv, PageInv, TypedInv
  <2> QED BY <2>1, <2>2, <2>3
<1>4. HeardInv'
  <2> SUFFICES ASSUME NEW w \in writes, Telling(w),
                      w.op \in {"start", "stop", "saveForm"}, NEW q \in Heard(w.op),
                      ~canAccessRoomByAssignment(server)
               PROVE  moved'[q]
    BY DEF HeardInv, Telling
  <2>1. q \in {"room", "form"} /\ q \in AllReads
    BY Tells DEF AllReads, Reads
  <2>2. moved[q]
    BY DEF IInv, PageInv, HeardInv
  <2>3. page \in {"live", "builder"}
    BY DEF IInv, PageInv, HereInv, Belongs, Telling
  <2>4. CASE q \in l.reads
    BY <2>1, <2>3, <2>4
  <2>5. CASE q \notin l.reads
    BY <2>1, <2>2, <2>5
  <2> QED BY <2>4, <2>5
<1>5. \A q : Loading(q) => Loading(q)' \/ q \in l.reads \/ q = "token" \/ moved'[q]
  <2> SUFFICES ASSUME NEW q, NEW k \in loads, q # "token", ~moved'[q], q \notin l.reads,
                      q \in k.reads \/ \E S \in Follows(page, k.reads) : q \in S
               PROVE  Loading(q)'
    BY DEF Loading
  <2>1. CASE k # l
    BY <2>1 DEF Loading
  <2>2. CASE k = l
    <3>1. \E n \in N : q \in n.reads
      BY <2>2
    <3> QED BY <3>1 DEF Loading
  <2> QED BY <2>1, <2>2
<1>6. ReadsInv'
  <2> SUFFICES ASSUME NEW q \in Reads, Displayed, q \in Shows(page, me.role)
               PROVE  moved'[q] \/ Loading(q)' \/ Pending(q)' \/ view'[q] = Answer(q, server, filter)
    BY DEF ReadsInv, Displayed, Shown
  <2>1. moved[q] \/ Loading(q) \/ Pending(q) \/ view[q] = Answer(q, server, filter)
    BY DEF IInv, PageInv, ReadsInv
  <2>2. q # "token" /\ q \in AllReads
    BY <1>0, ShowsWhat
  <2>3. Pending(q) => Pending(q)'
    BY DEF Pending, Telling
  <2>4. CASE q \in l.reads
    BY <2>4
  <2>5. CASE q \notin l.reads
    BY <1>5, <2>1, <2>2, <2>3, <2>5
  <2> QED BY <2>4, <2>5
<1>7. FormInv'
  <2>1. ASSUME Displayed', page = "builder"
        PROVE  moved'["form"] \/ Loading("form")' \/ view'["form"] \in {"f0", "f1"}
    <3>1. l.reads = {"form"}
      <4>1. l.reads \in PageLoads(page) /\ PageLoads(page) = {{"form"}}
        BY <1>0, <2>1, LoadsWhat DEF IInv, PageInv, LoadInv
      <4> QED BY <4>1
    <3> QED BY <2>1, <3>1
  <2> QED BY <2>1 DEF FormInv
<1>8. FieldsInv'
  <2>1. NameInv'
    BY <1>0, <1>1 DEF IInv, PageInv, FieldsInv, NameInv, Saving, Displayed, Shown
  <2>2. OrgInv'
    BY <1>0, <1>1 DEF IInv, PageInv, FieldsInv, OrgInv, Saving, Displayed, Shown
  <2>3. PrefsInv'
    BY <1>0, <1>1 DEF IInv, PageInv, FieldsInv, PrefsInv, Toggling, Displayed, Shown
  <2> QED BY <2>1, <2>2, <2>3 DEF FieldsInv
<1> QED BY <1>2, <1>3, <1>4, <1>6, <1>7, <1>8 DEF IInv, PageInv

\* A load that fails marks its reads, and those of the loads that were to follow.
LEMMA FailIs ==
  ASSUME IInv, NEW l \in loads, Fail(l)
  PROVE  /\ view' = view /\ loads' = (loads \ {l}) \cup {}
         /\ \A q \in l.reads : moved'[q]
         /\ \A S \in Follows(page, l.reads) : \A q \in S : moved'[q]
         /\ \A q \in AllReads : moved[q] => moved'[q]
<1>1. \A q \in AllReads : moved'[q] = (moved[q] \/ q \in l.reads \cup UNION Follows(page, l.reads))
  BY DEF Fail, Mark
<1>2. \A q \in l.reads : q \in AllReads
  BY DEF IInv, TypeOK, Loads, AllReads
<1>3. \A S \in Follows(page, l.reads) : \A q \in S : q \in AllReads
  BY FollowsWhat DEF AllReads, Reads
<1> QED BY <1>1, <1>2, <1>3 DEF Fail

\* An answer shows what the server has, or what is marked as changed since.
LEMMA LoadSteps ==
  ASSUME IInv, TypeOK', NEW l \in loads, AnswerLoad(l) \/ LoseLoad(l)
  PROVE  IInv'
<1>0. /\ l.reads \subseteq Reads /\ Reads \subseteq AllReads /\ l \in Loads /\ server \in Facts
      /\ page \in Pages
  BY DEF IInv, TypeOK, Loads, AllReads
<1>1. UNCHANGED <<server, status, me, page, mounted, filter, writes, stale, refused>>
  BY DEF AnswerLoad, LoseLoad, auth
<1>2. CASE Fail(l)
  <2>1. /\ view' = view /\ loads' = (loads \ {l}) \cup {}
        /\ \A q \in l.reads : moved'[q]
        /\ \A S \in Follows(page, l.reads) : \A q \in S : moved'[q]
        /\ \A q \in AllReads : moved[q] => moved'[q]
    BY <1>2, FailIs
  <2> DEFINE N == {}
  <2>2. \A k \in N : ~k.served /\ k.reads \in Follows(page, l.reads)
    OBVIOUS
  <2>3. /\ \A q \in AllReads \ l.reads : view'[q] = view[q] /\ (moved[q] => moved'[q])
        /\ \A q \in l.reads : moved'[q] \/ view'[q] = Answer(q, server, filter)
    BY <2>1
  <2>4. \A S \in Follows(page, l.reads) : \A q \in S :
            q = "token" \/ moved'[q] \/ \E k \in N : q \in k.reads
    BY <2>1
  <2>5. /\ l.reads = {"form"} => moved'["form"] \/ view'["form"] \in {"f0", "f1"}
        /\ page \in {"live", "builder"} => \A q \in l.reads :
             q \in {"room", "form"} => moved'[q] \/ canAccessRoomByAssignment(server)
    BY <2>1
  <2>6. loads' = (loads \ {l}) \cup N
    BY <2>1
  <2> HIDE DEF N
  <2> QED BY <1>1, <2>2, <2>3, <2>4, <2>5, <2>6, LoadEnds
<1>3. CASE AnswerLoad(l) /\ ~Failing(l)
  <2>1. /\ l.served /\ loads' = (loads \ {l}) \cup Then(l)
        /\ view' = [q \in AllReads |-> IF q \in l.reads THEN l.got[q] ELSE view[q]]
        /\ moved' = Told(l.reads, l.since \cup When(l.for # filter, {"log"}))
    BY <1>3 DEF AnswerLoad
  <2>2. \A q \in AllReads \ l.reads : view'[q] = view[q] /\ (moved[q] => moved'[q])
    BY <2>1 DEF Told
  <2>7. /\ \A k \in Then(l) : ~k.served /\ k.reads \in Follows(page, l.reads)
        /\ \A S \in Follows(page, l.reads) : \A q \in S :
              q = "token" \/ \E k \in Then(l) : q \in k.reads
    BY ThenIs DEF IInv
  <2>3. ASSUME NEW q \in l.reads
        PROVE  /\ view'[q] = l.got[q]
               /\ moved'[q] \/ l.got[q] = Answer(q, server, l.for)
               /\ q = "log" => moved'[q] \/ l.for = filter
    <3>1. q \in AllReads /\ view'[q] = l.got[q]
      BY <1>0, <2>1
    <3>2. moved'[q] = (q \in l.since \cup When(l.for # filter, {"log"}))
      BY <2>1, <2>3, <3>1 DEF Told
    <3>3. q \in l.since \/ l.got[q] = Answer(q, server, l.for)
      BY <2>1 DEF IInv, SessionInv, ServedInv
    <3> QED BY <3>1, <3>2, <3>3 DEF When
  <2>4. ASSUME NEW q \in l.reads
        PROVE  moved'[q] \/ view'[q] = Answer(q, server, filter)
    BY <1>0, <2>3, FilterFree
  <2>5. l.reads = {"form"} => view'["form"] \in {"f0", "f1"}
    <3> SUFFICES ASSUME l.reads = {"form"}
                 PROVE  view'["form"] \in {"f0", "f1"}
      OBVIOUS
    <3>1. l.got["form"] \in {"f0", "f1", "refused"}
      BY <2>1 DEF IInv, SessionInv, ServedInv
    <3>2. page # "records"
      <4>1. l.reads \in PageLoads(page)
        BY DEF IInv, PageInv, LoadInv
      <4> QED BY <4>1 DEF PageLoads, InitialLoads, When
    <3>3. l.got["form"] # "refused"
      BY <1>3, <3>2 DEF Failing, Optional
    <3> QED BY <2>3, <3>1, <3>3
  <2>6. ASSUME page \in {"live", "builder"}, NEW q \in l.reads, q \in {"room", "form"}
        PROVE  moved'[q] \/ canAccessRoomByAssignment(server)
    <3>1. l.got[q] # "refused"
      BY <1>3, <2>6 DEF Failing, Optional
    <3> QED BY <1>0, <2>3, <2>6, <3>1, Accessible
  <2> QED BY <1>1, <2>1, <2>2, <2>4, <2>5, <2>6, <2>7, LoadEnds
<1> QED BY <1>2, <1>3 DEF AnswerLoad, LoseLoad

-----------------------------------------------------------------------------
(* RequestsStay pressed, and refused.                                              *)

\* What is pressed is offered, and so granted to the role or a named gap.
LEMMA PressStep ==
  ASSUME IInv, TypeOK', NEW from \in {page, "layout"}, NEW op \in Offering(from), op \in Ops,
         NEW to \in Arguments(op), Press(from, op, to)
  PROVE  IInv'
<1> DEFINE new == NewWrite(op, to, from)
<1>1. /\ writes' = writes \cup {new} /\ view' = Typed(op, to)
      /\ UNCHANGED <<server, status, me, page, mounted, loads, filter, moved, stale, refused>>
  BY DEF Press, auth
<1>2. /\ to \in {"none", "on", "off", "admin", "volunteer"}
      /\ op = "togglePrefs" => to = (IF view["prefs"] = "on" THEN "off" ELSE "on")
      /\ op = "finishOnboarding" => to \in {"admin", "volunteer"}
  BY DEF Arguments
<1>3. /\ new.op = op /\ new.to = to /\ new.from = from /\ new.as = me.role
      /\ new.here /\ new.phase = "sent" /\ new.since = {} /\ new.blind = Behind
  BY <1>2, NewWriteIs DEF IInv, TypeOK, Users
<1>4. /\ OpFits(from, me.role, op) /\ (op # "logout" => from = page /\ mounted)
      /\ op \in RoomOpNames \cup {"joinShared"} =>
            op \in OnPage /\ mounted /\ Shown = "page" /\ loads = {}
  <2>1. page \in Pages /\ page # "layout"
    BY Kinds DEF IInv, TypeOK
  <2> QED BY <2>1, Offered, Kinds DEF IInv, SessionInv
<1>5. /\ view' \in [AllReads -> Values] /\ view \in [AllReads -> Values]
      /\ Reads \subseteq AllReads /\ UserReads = {"prefs", "org", "name"}
      /\ UserReads \subseteq AllReads /\ UserReads \cap Reads = {} /\ "form" \in Reads
  BY DEF IInv, TypeOK, AllReads, UserReads, Reads
<1>6. /\ \A q \in Reads : view'[q] = IF op = "saveForm" /\ q = "form" THEN "f1" ELSE view[q]
      /\ view'["name"] = IF op = "saveDetails" THEN "n1" ELSE view["name"]
      /\ view'["org"] = IF op = "saveOrg" THEN "o1" ELSE view["org"]
      /\ op # "togglePrefs" => view'["prefs"] = view["prefs"]
  BY <1>1, <1>5 DEF Typed
<1> HIDE DEF new
<1>a. ~Behind => /\ op \in DOMAIN RoomOps => canAccessRoomByAssignment(server)
                 /\ op = "joinShared" => server.status # "cancelled"
  <2>1. DOMAIN RoomOps = RoomOpNames /\ "joinShared" \notin RoomOpNames
    BY Kinds DEF RoomOpNames
  <2> QED BY <1>4, <2>1, NotBehind
<1>7. SessionInv'
  <2>1. AuthInv' /\ ServedInv' /\ AccessInv'
    BY <1>1, Frames DEF IInv, SessionInv
  <2>2. PressInv'
    <3>1. Pressed(new)
      BY <1>2, <1>3, <1>4 DEF Pressed, OpFits
    <3> QED BY <1>1, <3>1 DEF IInv, SessionInv, PressInv
  <2>3. DoneInv'
    BY <1>1, <1>3 DEF IInv, SessionInv, DoneInv
  <2>4. BlindInv'
    <3>1. Founded(new, server)
      BY <1>3, <1>a DEF Founded
    <3> QED BY <1>1, <3>1 DEF IInv, SessionInv, BlindInv, Founded
  <2> QED BY <2>1, <2>2, <2>3, <2>4 DEF SessionInv
<1>8. HereInv' /\ LoadInv' /\ TypedInv' /\ HeardInv'
  <2>1. HereInv'
    BY <1>1, <1>3, <1>4 DEF IInv, PageInv, HereInv, OpFits
  <2>2. LoadInv'
    BY <1>1, Frames DEF IInv, PageInv
  <2>3. TypedInv'
    BY <1>1, <1>3, <1>6 DEF IInv, PageInv, TypedInv
  <2>4. HeardInv'
    <3>1. CASE op = "saveForm"
      <4>1. page = "builder"
        BY <1>4, <3>1 DEF OpFits, Belongs
      <4>2. "form" \in AllReads /\ \A q \in Shows(page, me.role) : q = "form"
        BY <1>5, <4>1, ShowsWhat DEF IInv, TypeOK
      <4>3. Behind => moved["form"]
        BY <4>2 DEF Behind
      <4>4. canAccessRoomByAssignment(server) \/ moved["form"]
        BY <1>a, <3>1, <4>3, Kinds DEF RoomOpNames
      <4> QED BY <1>1, <1>3, <3>1, <4>4, Tells DEF IInv, PageInv, HeardInv, Telling
    <3>2. CASE op # "saveForm"
      BY <1>1, <1>3, <3>2 DEF IInv, PageInv, HeardInv, Telling
    <3> QED BY <3>1, <3>2
  <2> QED BY <2>1, <2>2, <2>3, <2>4
<1>9. ReadsInv' /\ FormInv'
  <2>1. \A q : Loading(q) <=> Loading(q)'
    BY <1>1 DEF Loading
  <2>2. \A q : Pending(q) => Pending(q)'
    BY <1>1 DEF Pending, Telling
  <2>5. op = "saveForm" => Pending("form")'
    BY <1>1, <1>3, Tells DEF Pending, Telling
  <2>3. ReadsInv'
    BY <1>1, <1>6, <2>1, <2>2, <2>5 DEF IInv, PageInv, ReadsInv, Displayed, Shown
  <2>4. FormInv'
    BY <1>1, <1>5, <1>6, <2>1 DEF IInv, PageInv, FormInv, Displayed, Shown
  <2> QED BY <2>3, <2>4
<1>10. FieldsInv'
  <2>1. \A o : Saving(o) => Saving(o)'
    BY <1>1 DEF Saving
  <2>2. \A o : op = o => Saving(o)'
    BY <1>1, <1>3 DEF Saving
  <2>3. NameInv'
    BY <1>1, <1>6, <2>1, <2>2 DEF IInv, PageInv, FieldsInv, NameInv, Displayed, Shown
  <2>4. OrgInv'
    BY <1>1, <1>6, <2>1, <2>2 DEF IInv, PageInv, FieldsInv, OrgInv, Displayed, Shown
  <2>5. PrefsInv'
    <3>1. CASE op = "togglePrefs"
      <4>1. new \in Toggling' /\ Toggling \subseteq Toggling'
        BY <1>1, <1>3, <3>1 DEF Toggling
      <4>2. server.prefs \in {"on", "off"} /\ server' = server
        BY <1>1 DEF IInv, TypeOK, Facts
      <4>3. view["prefs"] = server.prefs => new.to # server.prefs
        BY <1>2, <1>3, <3>1, <4>2
      <4> QED BY <1>1, <4>1, <4>2, <4>3
              DEF IInv, PageInv, FieldsInv, PrefsInv, Displayed, Shown
    <3>2. CASE op # "togglePrefs"
      <4>1. Toggling' = Toggling
        BY <1>1, <1>3, <3>2 DEF Toggling
      <4> QED BY <1>1, <1>6, <3>2, <4>1 DEF IInv, PageInv, FieldsInv, PrefsInv, Displayed, Shown
    <3> QED BY <3>1, <3>2
  <2> QED BY <2>3, <2>4, <2>5 DEF FieldsInv
<1>11. OfferedIsGranted'
  BY <1>1, Frames DEF IInv
<1> QED BY <1>7, <1>8, <1>9, <1>10, <1>11 DEF IInv, PageInv

\* A request is refused to the role that sent it in the named gaps only, and for want
\* of an assignment, or of a room to join, only when its page could not know.
LEMMA RefuseStep ==
  ASSUME IInv, TypeOK', NEW w \in writes, w.phase = "sent",
         NEW phase \in {"refused", "unauthorized"}, NEW why, Refuse(w, phase, why),
         why = "role" => w.as = server.role /\ ~RoleGrants(w.op),
         why = "role" => w.op # "joinShared",
         why = "assignment" => ~Granted(w.op, server) /\ RoleGrants(w.op) /\ w.op # "joinShared",
         why = "cancelled" => ~Granted(w.op, server) /\ w.op = "joinShared",
         UNCHANGED <<auth, page, mounted, view, filter>>
  PROVE  IInv'
<1> DEFINE x == [w EXCEPT !.phase = phase]
<1>1. /\ writes' = (writes \ {w}) \cup {x}
      /\ refused' = [page |-> w.from, control |-> w.op, why |-> why, excused |-> w.blind]
      /\ UNCHANGED <<server, status, me, page, mounted, view, loads, filter, moved, stale>>
  BY DEF Refuse, auth
<1>2. w \in Writes /\ server \in Facts
  BY DEF IInv, TypeOK
<1>3. /\ SameRequest(x, w) /\ x.phase = phase /\ x.here = w.here /\ x.since = w.since
  BY <1>2 DEF SameRequest, Writes
<1> HIDE DEF x
<1>4. SessionInv'
  <2>1. AuthInv' /\ ServedInv' /\ AccessInv'
    BY <1>1, Frames DEF IInv, SessionInv
  <2>2. PressInv'
    BY <1>1, <1>3 DEF IInv, SessionInv, PressInv, Pressed, SameRequest
  <2>3. DoneInv'
    BY <1>1, <1>3 DEF IInv, SessionInv, DoneInv
  <2>4. BlindInv'
    BY <1>1, <1>3 DEF IInv, SessionInv, BlindInv, Founded
  <2> QED BY <2>1, <2>2, <2>3, <2>4 DEF SessionInv
<1>5. HereInv' /\ LoadInv' /\ TypedInv' /\ HeardInv'
  <2>1. HereInv'
    BY <1>1, <1>3 DEF IInv, PageInv, HereInv, SameRequest
  <2>2. LoadInv'
    BY <1>1, Frames DEF IInv, PageInv
  <2>3. TypedInv'
    BY <1>1, <1>3 DEF IInv, PageInv, TypedInv, SameRequest
  <2>4. HeardInv'
    BY <1>1, <1>3 DEF IInv, PageInv, HeardInv, Telling, SameRequest
  <2> QED BY <2>1, <2>2, <2>3, <2>4
<1>6. ReadsInv' /\ FormInv'
  <2>1. \A q : Loading(q) <=> Loading(q)'
    BY <1>1 DEF Loading
  <2>2. \A q : Pending(q) => Pending(q)'
    BY <1>1, <1>3 DEF Pending, Telling, SameRequest
  <2>3. ReadsInv'
    BY <1>1, <2>1, <2>2 DEF IInv, PageInv, ReadsInv, Displayed, Shown
  <2>4. FormInv'
    BY <1>1, <2>1 DEF IInv, PageInv, FormInv, Displayed, Shown
  <2> QED BY <2>3, <2>4
<1>7. FieldsInv'
  <2>1. \A o : Saving(o) => Saving(o)'
    BY <1>1, <1>3 DEF Saving, SameRequest
  <2>2. NameInv'
    BY <1>1, <2>1 DEF IInv, PageInv, FieldsInv, NameInv, Displayed, Shown
  <2>3. OrgInv'
    BY <1>1, <2>1 DEF IInv, PageInv, FieldsInv, OrgInv, Displayed, Shown
  <2>4. PrefsInv'
    <3>1. \A t \in Toggling : \E u \in Toggling' : u.to = t.to
      BY <1>1, <1>3 DEF Toggling, SameRequest
    <3>2. \A u \in Toggling' : \E t \in Toggling : TRUE
      BY <1>1, <1>3 DEF Toggling, SameRequest
    <3> QED BY <1>1, <3>1, <3>2 DEF IInv, PageInv, FieldsInv, PrefsInv, Displayed, Shown
  <2> QED BY <2>2, <2>3, <2>4 DEF FieldsInv
<1>8. OfferedIsGranted'
  <2>1. w.op \in Ops
    BY <1>2 DEF Writes
  <2>2. why = "role" => <<w.from, w.op>> \in RoleGaps
    BY <1>2, <2>1, GrantedTo DEF RoleGrants, IInv, SessionInv, PressInv, Pressed
  <2>3. why = "assignment" => w.blind
    <3>1. why = "assignment" => w.op \in DOMAIN RoomOps /\ ~canAccessRoomByAssignment(server)
      BY <1>2, <2>1, GrantedTo DEF RoleGrants
    <3> QED BY <1>2, <3>1 DEF IInv, SessionInv, BlindInv, Founded, Writes
  <2>4. why = "cancelled" => w.blind
    <3>1. why = "cancelled" => w.op = "joinShared" /\ server.status = "cancelled"
      <4>1. RolePermits("joinShared", server.role) /\ "joinShared" \notin DOMAIN RoomOps
        BY Permits, Kinds DEF PublicOps, RoomOpNames
      <4> QED BY <1>2, <2>1, <4>1, GrantedTo
    <3> QED BY <1>2, <3>1 DEF IInv, SessionInv, BlindInv, Founded, Writes
  <2> QED BY <1>1, <2>2, <2>3, <2>4 DEF OfferedIsGranted
<1> QED BY <1>4, <1>5, <1>6, <1>7, <1>8 DEF IInv, PageInv

-----------------------------------------------------------------------------
(* The facts change.                                                           *)

\* A lost access changes what the pages of the room show.
LEMMA ChangedIs ==
  ASSUME IInv, NEW after \in Facts
  PROVE  /\ \A q \in Reads : q \in Changed(after) <=>
               Answer(q, after, filter) # Answer(q, server, filter)
         /\ \A q \in UserReads : q \in Changed(after) <=> after[q] # server[q]
         /\ AccessLost(after) => {"room", "form"} \subseteq Changed(after)
<1>1. /\ \A q \in Reads : q \in AllReads /\ q \notin UserReads
      /\ \A q \in UserReads : q \in AllReads
      /\ {"room", "form"} \subseteq Reads
  BY DEF AllReads, Reads, UserReads
<1>2. \A q \in Reads : q \in Changed(after) <=>
               Answer(q, after, filter) # Answer(q, server, filter)
  BY <1>1 DEF Changed, Current
<1>3. \A q \in UserReads : q \in Changed(after) <=> after[q] # server[q]
  BY <1>1 DEF Changed, Current
<1>4. AccessLost(after) => \A q \in {"room", "form"} :
            Answer(q, after, filter) = "refused" /\ Answer(q, server, filter) # "refused"
  BY Accessible DEF AccessLost, IInv, TypeOK
<1> QED BY <1>1, <1>2, <1>3, <1>4

\* What was given before goes on with what has changed after it.
LEMMA BecomesInv ==
  ASSUME IInv, NEW after \in Facts, Becomes(after),
         UNCHANGED <<status, me, page, mounted, view, filter>>,
         \A q \in AllReads : moved[q] => moved'[q],
         \A q \in UserReads : q \in Changed(after) => moved'[q]
  PROVE  /\ AuthInv' /\ ServedInv' /\ AccessInv' /\ LoadInv' /\ FormInv'
         /\ \A q : Loading(q) => Loading(q)'
<1>0. loads \subseteq Loads
  BY DEF IInv, TypeOK
<1>a. /\ \A l \in loads' : \E k \in loads : Aged(l, k, Changed(after))
      /\ \A k \in loads : \E l \in loads' : l.reads = k.reads
  BY <1>0, BecomesLoads
<1>1. server' = after /\ stale' = (stale \/ AccessLost(after)) /\ UserReads \subseteq AllReads
  BY DEF Becomes, UserReads, AllReads
<1>2. AuthInv'
  <2> SUFFICES ASSUME status = "authenticated"
               PROVE  me.role \in Roles /\ \A q \in UserReads : moved'[q] \/ me[q] = after[q]
    BY <1>1 DEF AuthInv
  <2>1. me.role \in Roles /\ \A q \in UserReads : moved[q] \/ me[q] = server[q]
    BY DEF IInv, SessionInv, AuthInv
  <2>2. \A q \in UserReads : q \in Changed(after) \/ after[q] = server[q]
    BY ChangedIs
  <2> QED BY <1>1, <2>1, <2>2
<1>3. ServedInv'
  <2> SUFFICES ASSUME NEW l \in loads', l.served
               PROVE  /\ \A q \in l.reads : q \in l.since \/ l.got[q] = Answer(q, after, l.for)
                      /\ "form" \in l.reads => l.got["form"] \in {"f0", "f1", "refused"}
    BY <1>1 DEF ServedInv
  <2>0. PICK k \in loads : Aged(l, k, Changed(after))
    BY <1>a
  <2>1. /\ l.reads = k.reads /\ l.for = k.for /\ l.served = k.served /\ l.got = k.got
        /\ l.since = IF k.served THEN k.since \cup (Changed(after) \cap k.reads) ELSE k.since
    BY <2>0 DEF Aged
  <2>2. k.reads \subseteq Reads
    BY DEF IInv, TypeOK, Loads
  <2>3. /\ \A q \in k.reads : q \in k.since \/ k.got[q] = Answer(q, server, k.for)
        /\ "form" \in k.reads => k.got["form"] \in {"f0", "f1", "refused"}
    BY <2>1 DEF IInv, SessionInv, ServedInv
  <2>4. ASSUME NEW q \in k.reads, Answer(q, after, k.for) # Answer(q, server, k.for)
        PROVE  q \in Changed(after)
    <3>1. CASE q = "log"
      <4>1. \A s \in Facts, f \in {"all", "some"} :
               Answer("log", s, f) = IF s.role = "admin" THEN f ELSE "refused"
        BY DEF Answer, Guarded
      <4>2. k.for \in {"all", "some"} /\ filter \in {"all", "some"} /\ server \in Facts
        BY DEF IInv, TypeOK, Loads
      <4>3. Answer("log", after, filter) # Answer("log", server, filter)
        BY <2>4, <3>1, <4>1, <4>2
      <4> QED BY <2>2, <3>1, <4>3, ChangedIs
    <3>2. CASE q # "log"
      BY <2>2, <2>4, <3>2, FilterFree, ChangedIs
    <3> QED BY <3>1, <3>2
  <2> QED BY <2>1, <2>3, <2>4
<1>4. AccessInv'
  BY <1>1 DEF IInv, SessionInv, AccessInv, AccessLost
<1>5. LoadInv'
  BY <1>a DEF IInv, PageInv, LoadInv, Aged
<1>6. \A q : Loading(q) => Loading(q)'
  BY <1>a DEF Loading
<1>7. FormInv'
  <2>1. "form" \in AllReads
    BY DEF AllReads, Reads
  <2> QED BY <1>6, <2>1 DEF IInv, PageInv, FormInv, Displayed, Shown
<1> QED BY <1>2, <1>3, <1>4, <1>5, <1>6, <1>7

\* A request that a change overtakes knows of it.
LEMMA OvertakenInv ==
  ASSUME IInv, NEW after \in Facts, NEW x \in Overtaken(writes, after)
  PROVE  /\ Pressed(x)
         /\ x.phase = "done" => Accounted(x, after)
         /\ Founded(x, after)
         /\ x.here /\ x.op # "logout" => mounted /\ Belongs(x.op, page)
         /\ x.here => /\ x.op = "saveDetails" => view["name"] = "n1"
                      /\ x.op = "saveOrg" => view["org"] = "o1"
<1>1. PICK w \in writes : /\ SameRequest(x, w) /\ x.phase = w.phase /\ x.got = w.got
                          /\ x.here = w.here
                          /\ x.since = IF w.phase = "done"
                                       THEN w.since \cup (Changed(after) \cap Heard(w.op))
                                       ELSE w.since
                          /\ ~x.blind => ~w.blind /\ ~TakenFrom(w.op, after)
  <2>1. writes \in SUBSET Writes
    BY DEF IInv, TypeOK
  <2> QED BY <2>1, OvertakenIs
<1>2. Pressed(x)
  BY <1>1 DEF IInv, SessionInv, PressInv, Pressed, SameRequest
<1>3. ASSUME x.phase = "done"
      PROVE  Accounted(x, after)
  <2>1. Accounted(w, server)
    BY <1>1, <1>3 DEF IInv, SessionInv, DoneInv
  <2>2. x.op = w.op /\ x.got = w.got /\ x.since = w.since \cup (Changed(after) \cap Heard(w.op))
    BY <1>1, <1>3 DEF SameRequest
  <2>3. ASSUME w.op \in Renewals
        PROVE  /\ w.got.user.role \in Roles
               /\ \A q \in UserReads : q \in x.since \/ w.got.user[q] = after[q]
    <3>1. Heard(w.op) = UserReads
      BY <2>3, Tells
    <3> QED BY <2>1, <2>2, <2>3, <3>1, ChangedIs DEF Accounted
  <2>4. \A q \in {"room", "form"} :
          q \in Changed(after) \/ Answer(q, after, "all") = Answer(q, server, "all")
    <3>1. \A q \in {"room", "form"} : q \in Reads \ {"log"}
      BY DEF Reads
    <3> QED BY <3>1, FilterFree, ChangedIs
  <2>5. ASSUME w.op \in {"start", "stop"}
        PROVE  "room" \in x.since \/ w.got.status = Answer("room", after, "all")
    BY <2>1, <2>2, <2>4, <2>5, Tells DEF Accounted
  <2>6. ASSUME w.op = "saveForm"
        PROVE  "form" \in x.since \/ Answer("form", after, "all") = "f1"
    BY <2>1, <2>2, <2>4, <2>6, Tells DEF Accounted
  <2> QED BY <2>2, <2>3, <2>5, <2>6 DEF Accounted
<1>4. Founded(x, after)
  <2> SUFFICES ASSUME x.phase = "sent", ~x.blind
               PROVE  /\ x.op \in DOMAIN RoomOps => canAccessRoomByAssignment(after)
                      /\ x.op = "joinShared" => after.status # "cancelled"
    BY DEF Founded
  <2>1. /\ x.op = w.op /\ w.phase = "sent" /\ ~w.blind /\ ~TakenFrom(w.op, after)
    BY <1>1 DEF SameRequest
  <2>2. /\ w.op \in DOMAIN RoomOps => canAccessRoomByAssignment(server)
        /\ w.op = "joinShared" => server.status # "cancelled"
    BY <2>1 DEF IInv, SessionInv, BlindInv, Founded
  <2>3. "joinShared" \notin DOMAIN RoomOps
    BY Kinds DEF RoomOpNames
  <2> QED BY <2>1, <2>2, <2>3 DEF TakenFrom, AccessLost
<1>5. x.here /\ x.op # "logout" => mounted /\ Belongs(x.op, page)
  BY <1>1 DEF IInv, PageInv, HereInv, SameRequest
<1>6. x.here => /\ x.op = "saveDetails" => view["name"] = "n1"
                /\ x.op = "saveOrg" => view["org"] = "o1"
  BY <1>1 DEF IInv, PageInv, TypedInv, SameRequest
<1> QED BY <1>2, <1>3, <1>4, <1>5, <1>6

\* A change by somebody else marks what it changes.
LEMMA OthersStep ==
  ASSUME IInv, TypeOK', NEW o \in Others, OthersWrite(o[1], o[2])
  PROVE  IInv'
<1> DEFINE after == [server EXCEPT ![o[1]] = o[2]]
<1>0. writes \in SUBSET Writes
  BY DEF IInv, TypeOK
<1>1. /\ Becomes(after) /\ moved' = Mark(Changed(after)) /\ writes' = Overtaken(writes, after)
      /\ UNCHANGED <<status, me, page, mounted, view, filter, refused>>
  BY DEF OthersWrite, auth
<1>2. after \in Facts
  BY ConsoleAssumption DEF IInv, TypeOK
<1> HIDE DEF after
<1>3. /\ server' = after
      /\ \A q \in AllReads : moved[q] => moved'[q]
      /\ \A q \in AllReads : q \in Changed(after) => moved'[q]
      /\ UserReads \subseteq AllReads /\ Reads \subseteq AllReads
  BY <1>1 DEF Becomes, Mark, UserReads, AllReads
<1>4. /\ AuthInv' /\ ServedInv' /\ AccessInv' /\ LoadInv' /\ FormInv'
      /\ \A q : Loading(q) => Loading(q)'
  BY <1>1, <1>2, <1>3, BecomesInv
<1>5. PressInv' /\ DoneInv' /\ BlindInv' /\ HereInv' /\ TypedInv'
  <2>1. \A x \in writes' : /\ Pressed(x)
                           /\ x.phase = "done" => Accounted(x, after)
                           /\ Founded(x, after)
                           /\ x.here /\ x.op # "logout" => mounted /\ Belongs(x.op, page)
                           /\ x.here => /\ x.op = "saveDetails" => view["name"] = "n1"
                                        /\ x.op = "saveOrg" => view["org"] = "o1"
    BY <1>1, <1>2, OvertakenInv
  <2> QED BY <1>1, <1>3, <2>1 DEF PressInv, DoneInv, BlindInv, HereInv, TypedInv
<1>6. ASSUME NEW x \in writes'
      PROVE  \E w \in writes : SameRequest(x, w) /\ x.phase = w.phase /\ x.here = w.here
  <2>1. x \in Overtaken(writes, after)
    BY <1>1, <1>6
  <2> QED BY <1>0, <2>1, OvertakenOf
<1>7. ASSUME NEW w \in writes
      PROVE  \E x \in writes' : SameRequest(x, w) /\ x.phase = w.phase /\ x.here = w.here
  BY <1>0, <1>1, <1>7, OvertakenHas
<1>8. HeardInv'
  <2> SUFFICES ASSUME NEW x \in writes', Telling(x),
                      x.op \in {"start", "stop", "saveForm"}, NEW q \in Heard(x.op),
                      ~canAccessRoomByAssignment(after)
               PROVE  moved'[q]
    BY <1>1, <1>3 DEF HeardInv
  <2>1. q \in {"room", "form"} /\ q \in AllReads
    BY Tells DEF AllReads, Reads
  <2>2. CASE canAccessRoomByAssignment(server)
    BY <1>2, <1>3, <2>1, <2>2, ChangedIs DEF AccessLost
  <2>3. CASE ~canAccessRoomByAssignment(server)
    BY <1>3, <1>6, <2>1, <2>3 DEF IInv, PageInv, HeardInv, Telling, SameRequest
  <2> QED BY <2>2, <2>3
<1>9. ReadsInv'
  <2>1. \A q : Pending(q) => Pending(q)'
    BY <1>7 DEF Pending, Telling, SameRequest
  <2>2. \A q \in Reads : q \in Changed(after) \/ Answer(q, after, filter) = Answer(q, server, filter)
    BY <1>2, ChangedIs
  <2> QED BY <1>1, <1>3, <1>4, <2>1, <2>2 DEF IInv, PageInv, ReadsInv, Displayed, Shown
<1>10. FieldsInv'
  <2>1. \A q \in {"name", "org", "prefs"} : moved'[q] \/ (~moved[q] /\ after[q] = server[q])
    <3>1. \A q \in {"name", "org", "prefs"} : q \in UserReads
      BY DEF UserReads
    <3> QED BY <1>2, <1>3, <3>1, ChangedIs
  <2>2. \A p : Saving(p) => Saving(p)'
    BY <1>7 DEF Saving, SameRequest
  <2>3. /\ after["name"] = after.name /\ after["org"] = after.org /\ after["prefs"] = after.prefs
        /\ server["name"] = server.name /\ server["org"] = server.org /\ server["prefs"] = server.prefs
    OBVIOUS
  <2>4. NameInv'
    BY <1>1, <1>3, <2>1, <2>2, <2>3 DEF IInv, PageInv, FieldsInv, NameInv, Displayed, Shown
  <2>5. OrgInv'
    BY <1>1, <1>3, <2>1, <2>2, <2>3 DEF IInv, PageInv, FieldsInv, OrgInv, Displayed, Shown
  <2>6. PrefsInv'
    <3>1. \A t \in Toggling : \E u \in Toggling' : u.to = t.to
      BY <1>7 DEF Toggling, SameRequest
    <3>2. \A u \in Toggling' : \E t \in Toggling : TRUE
      BY <1>6 DEF Toggling, SameRequest
    <3> QED BY <1>1, <1>3, <2>1, <2>3, <3>1, <3>2
            DEF IInv, PageInv, FieldsInv, PrefsInv, Displayed, Shown
  <2> QED BY <2>4, <2>5, <2>6 DEF FieldsInv
<1>11. OfferedIsGranted'
  BY <1>1, Frames DEF IInv
<1> QED BY <1>4, <1>5, <1>8, <1>9, <1>10, <1>11 DEF IInv, SessionInv, PageInv

\* An operation changes what its answer tells, or is marked as unheard.
LEMMA GrantStep ==
  ASSUME IInv, TypeOK', NEW w \in writes, w.phase = "sent", Granted(w.op, server), Grant(w),
         UNCHANGED <<auth, page, mounted, view, filter>>
  PROVE  IInv'
<1> DEFINE after == Effect(w.op, server, w.to)
           early == w.op = "saveDetails"
           x == [w EXCEPT !.phase = "done", !.got = AnswerOf(IF early THEN server ELSE after),
                          !.since = When(early, Changed(after) \cap UserReads)]
           quiet == w.here /\ w.op \notin Unheard \cup SignIns
<1>0. /\ writes \in SUBSET Writes /\ w \in Writes /\ w.op \in Ops /\ server \in Facts
      /\ after \in Facts /\ page \in Pages /\ filter \in {"all", "some"}
      /\ Pressed(w) /\ moved \in [AllReads -> BOOLEAN]
  <2>1. /\ writes \in SUBSET Writes /\ w \in Writes /\ w.op \in Ops /\ server \in Facts
        /\ page \in Pages /\ filter \in {"all", "some"} /\ moved \in [AllReads -> BOOLEAN]
    BY DEF IInv, TypeOK, Writes
  <2>2. Pressed(w)
    BY DEF IInv, SessionInv, PressInv
  <2> QED BY <2>1, <2>2, EffectFacts DEF Pressed
<1>1. /\ Becomes(after)
      /\ writes' = Overtaken(writes \ {w}, after) \cup {x}
      /\ moved' = IF quiet THEN moved ELSE Mark(Changed(after))
      /\ UNCHANGED <<status, me, page, mounted, view, filter, refused>>
  BY DEF Grant, auth
<1>2. /\ SameRequest(x, w) /\ x.phase = "done" /\ x.here = w.here
      /\ x.since = IF w.op = "saveDetails" THEN Changed(after) \cap UserReads ELSE {}
      /\ x.got = AnswerOf(IF w.op = "saveDetails" THEN server ELSE after)
  BY <1>0 DEF SameRequest, Writes, When
<1>3. ASSUME NEW y \in Overtaken(writes \ {w}, after)
      PROVE  y \in Overtaken(writes, after)
  BY <1>3 DEF Overtaken
<1>4. canAccessRoomByAssignment(server) /\ w.op # "finishOnboarding" =>
         canAccessRoomByAssignment(after)
  BY <1>0, EffectAccess
<1>5. /\ w.op \notin Unheard \cup SignIns => \A q \in UserReads : after[q] = server[q]
      /\ w.op = "togglePrefs" => after.prefs = w.to
      /\ w.op = "saveOrg" => after.org = "o1"
      /\ w.op = "saveDetails" => after.name = "n1"
  BY <1>0, EffectUser DEF Unheard, SignIns
<1>a. /\ w.op = "start" => after.status = "live"
      /\ w.op = "stop" => after.status = "ended"
      /\ w.op = "saveForm" => after.form = "f1"
      /\ w.op = "logout" => after = server
  BY <1>0 DEF Effect, Facts
<1>b. /\ w.op \in DOMAIN RoomOps => canAccessRoomByAssignment(server)
      /\ {"start", "stop", "saveForm"} \subseteq DOMAIN RoomOps
  BY <1>0, GrantedTo, Kinds DEF RoomOpNames
<1>6. ASSUME NEW q \in Reads, quiet, q \in Shows(page, me.role), q \in Changed(after)
      PROVE  q \in ToldBy(w.op)
  <2>1. Belongs(w.op, page)
    BY <1>6 DEF IInv, PageInv, HereInv, Belongs, AssignmentOps, SignIns
  <2>2. Answer(q, after, filter) # Answer(q, server, filter)
    BY <1>0, <1>6, ChangedIs
  <2> QED BY <1>0, <1>6, <2>1, <2>2, EffectTold
<1> HIDE DEF after, x, quiet
<1>7. /\ server' = after /\ UserReads \subseteq AllReads /\ Reads \subseteq AllReads
      /\ UserReads = {"prefs", "org", "name"}
      /\ \A q \in AllReads : moved[q] => moved'[q]
      /\ ~quiet => \A q \in AllReads : q \in Changed(after) => moved'[q]
      /\ \A q \in UserReads : q \in Changed(after) => moved'[q]
  <2>1. server' = after /\ UserReads \subseteq AllReads /\ Reads \subseteq AllReads
    BY <1>1 DEF Becomes, UserReads, AllReads
  <2>2. /\ \A q \in AllReads : moved[q] => moved'[q]
        /\ ~quiet => \A q \in AllReads : q \in Changed(after) => moved'[q]
    BY <1>0, <1>1 DEF Mark
  <2>3. quiet => \A q \in UserReads : q \notin Changed(after)
    BY <1>0, <1>5, ChangedIs DEF quiet
  <2> QED BY <2>1, <2>2, <2>3 DEF UserReads
<1>8. /\ AuthInv' /\ ServedInv' /\ AccessInv' /\ LoadInv' /\ FormInv'
      /\ \A q : Loading(q) => Loading(q)'
  BY <1>0, <1>1, <1>7, BecomesInv
<1>9. Accounted(x, after)
  <2>1. ASSUME w.op \in Renewals
        PROVE  /\ x.got.user.role \in Roles
               /\ \A q \in UserReads : q \in x.since \/ x.got.user[q] = after[q]
    <3>1. \A s \in Facts : /\ AnswerOf(s).user.role \in Roles
                           /\ \A q \in UserReads : AnswerOf(s).user[q] = s[q]
      BY DEF AnswerOf, AuthUser, UserReads, Facts
    <3>2. \A q \in UserReads : q \in Changed(after) \/ after[q] = server[q]
      BY <1>0, ChangedIs
    <3> QED BY <1>0, <1>2, <3>1, <3>2
  <2>2. ASSUME w.op \in {"start", "stop"}
        PROVE  x.got.status = Answer("room", after, "all")
    <3>1. canAccessRoomByAssignment(after)
      BY <1>4, <1>b, <2>2
    <3>2. x.got.status = after.status
      BY <1>2, <2>2 DEF AnswerOf
    <3> QED BY <1>0, <3>1, <3>2, Accessible
  <2>3. ASSUME w.op = "saveForm"
        PROVE  Answer("form", after, "all") = "f1"
    <3>1. canAccessRoomByAssignment(after)
      BY <1>4, <1>b, <2>3
    <3> QED BY <1>0, <1>a, <2>3, <3>1, Accessible
  <2> QED BY <1>2, <2>1, <2>2, <2>3 DEF Accounted, SameRequest
<1>10. PressInv' /\ DoneInv' /\ BlindInv' /\ HereInv' /\ TypedInv'
  <2>1. ASSUME NEW y \in writes', y # x
        PROVE  /\ Pressed(y)
               /\ y.phase = "done" => Accounted(y, after)
               /\ Founded(y, after)
               /\ y.here /\ y.op # "logout" => mounted /\ Belongs(y.op, page)
               /\ y.here => /\ y.op = "saveDetails" => view["name"] = "n1"
                            /\ y.op = "saveOrg" => view["org"] = "o1"
    <3>1. y \in Overtaken(writes, after)
      BY <1>1, <1>3, <2>1
    <3> QED BY <1>0, <3>1, OvertakenInv
  <2>2. /\ Pressed(x) /\ Founded(x, after)
        /\ x.here /\ x.op # "logout" => mounted /\ Belongs(x.op, page)
        /\ x.here => /\ x.op = "saveDetails" => view["name"] = "n1"
                     /\ x.op = "saveOrg" => view["org"] = "o1"
    <3>1. x.since \subseteq Heard(x.op)
      <4>1. "saveDetails" \in Renewals /\ x.op = w.op
        BY <1>2 DEF Renewals, SameRequest
      <4> QED BY <1>2, <4>1, Tells
    <3>2. Pressed(x)
      BY <1>0, <1>2, <3>1 DEF Pressed, SameRequest
    <3>3. /\ x.here /\ x.op # "logout" => mounted /\ Belongs(x.op, page)
          /\ x.here => /\ x.op = "saveDetails" => view["name"] = "n1"
                       /\ x.op = "saveOrg" => view["org"] = "o1"
      BY <1>2 DEF SameRequest, IInv, PageInv, HereInv, TypedInv
    <3> QED BY <1>2, <3>2, <3>3 DEF Founded
  <2>3. PressInv' /\ BlindInv'
    BY <1>2, <1>7, <2>1, <2>2 DEF PressInv, BlindInv
  <2>4. DoneInv'
    BY <1>7, <1>9, <2>1 DEF DoneInv
  <2>5. HereInv' /\ TypedInv'
    BY <1>1, <2>1, <2>2 DEF HereInv, TypedInv
  <2> QED BY <2>3, <2>4, <2>5
<1>11. ASSUME NEW y \in writes', y # x
       PROVE  \E v \in writes \ {w} : SameRequest(y, v) /\ y.phase = v.phase /\ y.here = v.here
  <2>1. y \in Overtaken(writes \ {w}, after)
    BY <1>1, <1>11
  <2>2. writes \ {w} \in SUBSET Writes
    BY <1>0
  <2> QED BY <2>1, <2>2, OvertakenOf
<1>12. ASSUME NEW v \in writes, v # w
       PROVE  \E y \in writes' : SameRequest(y, v) /\ y.phase = v.phase /\ y.here = v.here
  <2>1. writes \ {w} \in SUBSET Writes /\ v \in writes \ {w}
    BY <1>0, <1>12
  <2>2. \E y \in Overtaken(writes \ {w}, after) :
           SameRequest(y, v) /\ y.phase = v.phase /\ y.got = v.got /\ y.here = v.here
    BY <2>1, OvertakenHas
  <2> QED BY <1>1, <2>2
<1>13. HeardInv'
  <2> SUFFICES ASSUME NEW y \in writes', Telling(y),
                      y.op \in {"start", "stop", "saveForm"}, NEW q \in Heard(y.op),
                      ~canAccessRoomByAssignment(after)
               PROVE  moved'[q]
    BY <1>1, <1>7 DEF HeardInv
  <2>1. q \in {"room", "form"} /\ q \in AllReads
    BY Tells DEF AllReads, Reads
  <2>2. CASE canAccessRoomByAssignment(server)
    <3>1. w.op = "finishOnboarding"
      BY <1>4, <2>2
    <3>2. ~quiet /\ AccessLost(after)
      BY <2>2, <3>1 DEF quiet, SignIns, AccessLost
    <3> QED BY <1>0, <1>7, <2>1, <3>2, ChangedIs
  <2>3. CASE ~canAccessRoomByAssignment(server)
    <3>1. y # x
      BY <1>2, <1>b, <2>3 DEF SameRequest
    <3>2. \E v \in writes : SameRequest(y, v) /\ y.phase = v.phase /\ y.here = v.here
      BY <1>11, <3>1
    <3>3. moved[q]
      BY <2>3, <3>2 DEF IInv, PageInv, HeardInv, Telling, SameRequest
    <3> QED BY <1>7, <2>1, <3>3
  <2> QED BY <2>2, <2>3
<1>14. ReadsInv'
  <2> SUFFICES ASSUME NEW q \in Reads, Displayed, q \in Shows(page, me.role)
               PROVE  moved'[q] \/ Loading(q)' \/ Pending(q)' \/ view[q] = Answer(q, after, filter)
    BY <1>1, <1>7 DEF ReadsInv, Displayed, Shown
  <2>1. moved[q] \/ Loading(q) \/ Pending(q) \/ view[q] = Answer(q, server, filter)
    BY DEF IInv, PageInv, ReadsInv
  <2>2. Pending(q) => Pending(q)'
    <3> SUFFICES ASSUME NEW v \in writes, Telling(v), q \in ToldBy(v.op)
                 PROVE  Pending(q)'
      BY DEF Pending
    <3>1. CASE v = w
      <4>1. x \in writes' /\ Telling(x) /\ x.op = w.op
        BY <1>1, <1>2, <3>1 DEF Telling, SameRequest
      <4> QED BY <3>1, <4>1 DEF Pending
    <3>2. CASE v # w
      <4>1. \E y \in writes' : SameRequest(y, v) /\ y.phase = v.phase /\ y.here = v.here
        BY <1>12, <3>2
      <4> QED BY <4>1 DEF Pending, Telling, SameRequest
    <3> QED BY <3>1, <3>2
  <2>3. CASE Answer(q, after, filter) = Answer(q, server, filter)
    BY <1>7, <1>8, <2>1, <2>2, <2>3
  <2>4. CASE Answer(q, after, filter) # Answer(q, server, filter)
    <3>1. q \in Changed(after)
      BY <1>0, <2>4, ChangedIs
    <3>2. CASE quiet
      <4>1. q \in ToldBy(w.op) /\ w.here
        BY <1>6, <3>1, <3>2 DEF quiet
      <4>2. x \in writes'
        BY <1>1
      <4> QED BY <1>2, <4>1, <4>2 DEF Pending, Telling, SameRequest
    <3>3. CASE ~quiet
      BY <1>7, <3>1, <3>3
    <3> QED BY <3>2, <3>3
  <2> QED BY <2>3, <2>4
<1>15. FieldsInv'
  <2>1. \A q \in {"name", "org", "prefs"} : moved'[q] \/ (~moved[q] /\ after[q] = server[q])
    <3>1. \A q \in {"name", "org", "prefs"} : q \in UserReads
      BY DEF UserReads
    <3> QED BY <1>0, <1>7, <3>1, ChangedIs
  <2>2. \A p : Saving(p) => Saving(p)' \/ (w.here /\ w.op = p)
    <3> SUFFICES ASSUME NEW p, NEW v \in writes, v.here, v.op = p, v.phase # "done", v # w
                 PROVE  Saving(p)'
      BY DEF Saving
    <3> QED BY <1>12 DEF Saving, SameRequest
  <2>3. /\ after["name"] = after.name /\ after["org"] = after.org /\ after["prefs"] = after.prefs
        /\ server["name"] = server.name /\ server["org"] = server.org /\ server["prefs"] = server.prefs
    OBVIOUS
  <2>4. /\ w.here /\ w.op = "saveDetails" => view["name"] = after["name"]
        /\ w.here /\ w.op = "saveOrg" => view["org"] = after["org"]
    BY <1>5 DEF IInv, PageInv, TypedInv
  <2>5. NameInv'
    BY <1>1, <1>7, <2>1, <2>2, <2>3, <2>4 DEF IInv, PageInv, FieldsInv, NameInv, Displayed, Shown
  <2>6. OrgInv'
    BY <1>1, <1>7, <2>1, <2>2, <2>3, <2>4 DEF IInv, PageInv, FieldsInv, OrgInv, Displayed, Shown
  <2>7. PrefsInv'
    <3> SUFFICES ASSUME Displayed, page = "settings", ~moved'["prefs"]
                 PROVE  \/ Toggling' = {} /\ view["prefs"] = after.prefs
                        \/ \E u \in Toggling' : u.to # after.prefs
      BY <1>1, <1>7 DEF PrefsInv, Displayed, Shown
    <3>1. ~moved["prefs"] /\ after.prefs = server.prefs
      BY <2>1, <2>3
    <3>2. \/ Toggling = {} /\ view["prefs"] = server.prefs
          \/ \E t \in Toggling : t.to # server.prefs
      BY <3>1 DEF IInv, PageInv, FieldsInv, PrefsInv
    <3>3. \A u \in Toggling' : \E t \in Toggling : TRUE
      <4> SUFFICES ASSUME NEW u \in Toggling'
                   PROVE  \E t \in Toggling : TRUE
        OBVIOUS
      <4>1. u \in writes' /\ u.here /\ u.op = "togglePrefs" /\ u.phase # "done"
        BY DEF Toggling
      <4>2. u # x
        BY <1>2, <4>1
      <4> QED BY <1>11, <4>1, <4>2 DEF Toggling, SameRequest
    <3>4. ASSUME NEW t \in Toggling, t.to # server.prefs
          PROVE  \E u \in Toggling' : u.to # after.prefs
      <4>1. t \in writes /\ t.here /\ t.op = "togglePrefs" /\ t.phase # "done"
        BY DEF Toggling
      <4>2. t # w
        BY <1>5, <3>1, <3>4, <4>1
      <4> QED BY <1>12, <3>1, <3>4, <4>1, <4>2 DEF Toggling, SameRequest
    <3> QED BY <3>1, <3>2, <3>3, <3>4
  <2> QED BY <2>5, <2>6, <2>7 DEF FieldsInv
<1>16. OfferedIsGranted'
  BY <1>1, Frames DEF IInv
<1> QED BY <1>8, <1>10, <1>13, <1>14, <1>15, <1>16 DEF IInv, SessionInv, PageInv

\* The server serves a request: it grants or refuses it.
LEMMA ServeWriteStep ==
  ASSUME IInv, TypeOK', NEW w \in writes, ServeWrite(w)
  PROVE  IInv'
<1>0. w.phase = "sent" /\ UNCHANGED <<auth, page, mounted, view, filter>>
  BY DEF ServeWrite
<1>1. CASE Granted(w.op, server) /\ Grant(w)
  BY <1>0, <1>1, GrantStep
<1>2. CASE ~Granted(w.op, server) /\ \E why \in {"assignment", "role", "demoted", "cancelled"} :
             /\ why = "role" => w.as = server.role /\ ~RoleGrants(w.op)
             /\ why = "assignment" => RoleGrants(w.op)
             /\ IF why = "cancelled" THEN w.op = "joinShared" ELSE w.op # "joinShared"
             /\ Refuse(w, "refused", why)
  BY <1>0, <1>2, RefuseStep
<1>3. CASE \E why \in {"token", "session"} : Refuse(w, "unauthorized", why)
  BY <1>0, <1>3, RefuseStep
<1> QED BY <1>1, <1>2, <1>3 DEF ServeWrite

-----------------------------------------------------------------------------
(* Answers and failures.                                                       *)

\* The page stays: what the answer told is shown, marked or being read again.
LEMMA AnswerEnds ==
  ASSUME IInv, TypeOK', NEW w \in writes, w.phase = "done",
         UNCHANGED <<server, page, mounted, filter, stale, refused>>, AuthInv',
         \A x \in writes : x # w => x \in writes',
         \A x \in writes' : \/ x \in writes \ {w}
                            \/ x.op = "logout" /\ x.phase = "sent" /\ x.since = {},
         loads \subseteq loads',
         \A l \in loads' : \/ l \in loads
                           \/ /\ ~l.served /\ mounted /\ l.reads \in PageLoads(page)
                              /\ l.reads \cap {"team", "assigned", "log"} # {} => l.as = "admin",
         \A q \in UserReads : view'[q] = view[q] /\ (moved[q] => moved'[q]),
         \A q \in Reads : IF w.here /\ q \in ToldBy(w.op)
                          THEN moved'[q] \/ Loading(q)' \/ view'[q] = Answer(q, server, filter)
                          ELSE view'[q] = view[q] /\ (moved[q] => moved'[q]),
         \A q \in {"room", "form"} :
            moved[q] /\ ~canAccessRoomByAssignment(server) => moved'[q],
         \/ view'["form"] = "f1"
         \/ view'["form"] = view["form"] /\ (moved["form"] => moved'["form"]),
         Displayed' => Displayed,
         \A q \in Reads : Displayed' /\ q \in Shows(page, me'.role) =>
            q \in Shows(page, me.role) \/ Loading(q)'
  PROVE  IInv'
<1>0. UserReads = {"prefs", "org", "name"}
  BY DEF UserReads
<1>1. PressInv' /\ DoneInv' /\ BlindInv'
  <2>1. \A x : x.op = "logout" /\ x.since = {} => Pressed(x)
    BY Permits DEF Pressed, AuthOps
  <2>2. "logout" \notin DOMAIN RoomOps /\ "logout" # "joinShared"
    BY Kinds DEF RoomOpNames
  <2>3. PressInv'
    BY <2>1 DEF IInv, SessionInv, PressInv
  <2>4. DoneInv'
    BY DEF IInv, SessionInv, DoneInv
  <2>5. BlindInv'
    BY <2>2 DEF IInv, SessionInv, BlindInv, Founded
  <2> QED BY <2>3, <2>4, <2>5
<1>2. ServedInv' /\ LoadInv'
  <2>1. ServedInv'
    BY DEF IInv, SessionInv, ServedInv
  <2>2. LoadInv'
    BY DEF IInv, PageInv, LoadInv
  <2> QED BY <2>1, <2>2
<1>3. AccessInv' /\ OfferedIsGranted'
  BY Frames DEF IInv, SessionInv
<1>4. HereInv' /\ TypedInv' /\ HeardInv'
  <2>1. HereInv'
    BY DEF IInv, PageInv, HereInv
  <2>2. TypedInv'
    BY <1>0 DEF IInv, PageInv, TypedInv
  <2>3. HeardInv'
    <3> SUFFICES ASSUME NEW x \in writes', Telling(x),
                        x.op \in {"start", "stop", "saveForm"}, NEW q \in Heard(x.op),
                        ~canAccessRoomByAssignment(server)
                 PROVE  moved'[q]
      BY DEF HeardInv
    <3>1. q \in {"room", "form"}
      BY Tells
    <3>2. x \in writes
      OBVIOUS
    <3>3. moved[q]
      BY <3>2 DEF IInv, PageInv, HeardInv
    <3> QED BY <3>1, <3>3
  <2> QED BY <2>1, <2>2, <2>3
<1>5. \A q : Loading(q) => Loading(q)'
  BY DEF Loading
<1>6. ReadsInv'
  <2> SUFFICES ASSUME NEW q \in Reads, Displayed', q \in Shows(page, me'.role)
               PROVE  moved'[q] \/ Loading(q)' \/ Pending(q)' \/ view'[q] = Answer(q, server, filter)
    BY DEF ReadsInv
  <2>1. CASE q \notin Shows(page, me.role)
    BY <2>1
  <2>2. CASE w.here /\ q \in ToldBy(w.op)
    BY <2>2
  <2>3. CASE q \in Shows(page, me.role) /\ ~(w.here /\ q \in ToldBy(w.op))
    <3>1. moved[q] \/ Loading(q) \/ Pending(q) \/ view[q] = Answer(q, server, filter)
      BY <2>3 DEF IInv, PageInv, ReadsInv
    <3>2. Pending(q) => Pending(q)'
      <4> SUFFICES ASSUME NEW v \in writes, Telling(v), q \in ToldBy(v.op)
                   PROVE  Pending(q)'
        BY DEF Pending
      <4>1. v # w
        BY <2>3 DEF Telling
      <4> QED BY <4>1 DEF Pending
    <3> QED BY <1>5, <2>3, <3>1, <3>2
  <2> QED BY <2>1, <2>2, <2>3
<1>7. FormInv'
  BY <1>5 DEF IInv, PageInv, FormInv
<1>8. FieldsInv'
  <2>1. \A p : Saving(p) => Saving(p)'
    BY DEF Saving
  <2>2. Toggling' = Toggling
    BY DEF Toggling
  <2>3. NameInv'
    BY <1>0, <2>1 DEF IInv, PageInv, FieldsInv, NameInv
  <2>4. OrgInv'
    BY <1>0, <2>1 DEF IInv, PageInv, FieldsInv, OrgInv
  <2>5. PrefsInv'
    BY <1>0, <2>2 DEF IInv, PageInv, FieldsInv, PrefsInv
  <2> QED BY <2>3, <2>4, <2>5 DEF FieldsInv
<1> QED BY <1>1, <1>2, <1>3, <1>4, <1>6, <1>7, <1>8 DEF IInv, SessionInv, PageInv

\* The user is taken to another page.
LEMMA AnswerLeaves ==
  ASSUME IInv, TypeOK', NEW w \in writes, Answered(w), Goes(w.op) \notin {"stay", page}
  PROVE  IInv'
<1>1. /\ w.phase = "done" /\ Leave(Goes(w.op)) /\ stale' /\ UNCHANGED <<server, refused>>
      /\ writes' = {[x EXCEPT !.here = FALSE] : x \in writes \ {w}}
      /\ moved' = IF w.op \in SignIns THEN Exactly(w.since) ELSE Clear(Reads)
      /\ w.op \in SignIns \/ w.op = "createRoom"
      /\ IF w.op \in SignIns THEN applyAuth(w) ELSE UNCHANGED auth
  BY DEF Answered, Goes, SignIns, Exactly
<1>2. writes \ {w} \in SUBSET Writes
  BY DEF IInv, TypeOK
<1>3. \A x \in writes' : /\ ~x.here
                         /\ \E v \in writes : /\ SameRequest(x, v) /\ x.phase = v.phase
                                              /\ x.got = v.got /\ x.since = v.since
                                              /\ x.blind = v.blind
  BY <1>1, <1>2, OrphanedIs
<1>4. AuthInv'
  <2>1. CASE w.op \in SignIns
    <3>1. /\ w.got.user.role \in Roles
          /\ \A q \in UserReads : q \in w.since \/ w.got.user[q] = server[q]
      BY <1>1, <2>1 DEF IInv, SessionInv, DoneInv, Accounted, Renewals
    <3>2. me' = w.got.user /\ server' = server /\ \A q \in UserReads : q \in AllReads
      BY <1>1, <2>1 DEF applyAuth, AllReads
    <3>3. \A q \in AllReads : moved'[q] = (q \in w.since)
      BY <1>1, <2>1 DEF Exactly
    <3> QED BY <3>1, <3>2, <3>3 DEF AuthInv
  <2>2. CASE w.op \notin SignIns
    BY <1>1, <2>2 DEF AuthInv, IInv, SessionInv, Clear, auth, UserReads, Reads, AllReads
  <2> QED BY <2>1, <2>2
<1>5. PressInv' /\ DoneInv' /\ BlindInv' /\ AccessInv' /\ OfferedIsGranted'
  BY <1>1, <1>3, RequestsStay, Frames DEF IInv, AccessInv
<1>6. PageInv' /\ ServedInv'
  BY <1>1, <1>3, NoPage DEF Leave
<1> QED BY <1>4, <1>5, <1>6 DEF IInv, SessionInv

\* A tab signed out keeps only the pages that are open to everybody.
LEMMA SignedOut ==
  ASSUME TypeOK, TypeOK', Steady, UNCHANGED <<page, mounted>>, status' = "unauthenticated"
  PROVE  /\ Displayed' => Displayed /\ page \in OpenPages \cup GuestPages
         /\ \A q \in Reads : Displayed' /\ q \in Shows(page, me'.role) => q \in Shows(page, me.role)
<1>1. Displayed' => Displayed
  BY DEF Steady, Displayed
<1>2. Displayed' => page \in OpenPages \cup GuestPages
  <2>1. Displayed' => Rendered(page, status', me') = "page"
    BY DEF Displayed, Shown
  <2>2. page \in Pages /\ status' \in {"loading", "authenticated", "unauthenticated", "error"}
    BY DEF TypeOK
  <2> QED BY <2>1, <2>2, RenderedMeans
<1>3. page \in OpenPages \cup GuestPages => page # "dashboard"
  BY DEF OpenPages, GuestPages
<1>4. page \in Pages
  BY DEF TypeOK
<1> QED BY <1>1, <1>2, <1>3, <1>4, ShowsWhat

\* An answer that is a user, and whose page stays, makes it the tab's.
LEMMA RenewalStays ==
  ASSUME IInv, TypeOK', Steady, NEW w \in writes, Answered(w), Goes(w.op) \in {"stay", page},
         w.op \in Renewals
  PROVE  IInv'
<1>0. /\ page \in Pages /\ filter \in {"all", "some"} /\ me' \in Users
      /\ \A q \in UserReads : q \in AllReads
      /\ \A q \in Reads : q \in AllReads
  BY DEF IInv, TypeOK, AllReads
<1>1. /\ w.phase = "done" /\ writes' = writes \ {w}
      /\ view' = view /\ loads' = loads \cup EffectsOf(me') /\ moved' = Mark(w.since)
      /\ UNCHANGED <<server, page, mounted, filter, stale, refused>>
  <2>1. /\ w.op \in {"signIn", "signUp", "confirmEmail", "finishOnboarding", "saveDetails"}
        /\ Reloads(w) = {} /\ FromAnswer(w) = view
    BY DEF Renewals, SignIns, Reloads, FromAnswer, AssignmentOps
  <2>2. /\ w.phase = "done" /\ Fold(w) /\ writes' = writes \ {w}
        /\ UNCHANGED <<server, stale, refused>>
    BY <2>1 DEF Answered, When
  <2>3. /\ view' = view /\ moved' = Mark(w.since) /\ UNCHANGED <<page, mounted, filter>>
    BY <2>1, <2>2 DEF Fold
  <2>4. loads' = loads \cup EffectsOf(me')
    <3>1. When(w.here, {NewLoad(r, me.role, filter) : r \in Reloads(w)}) = {}
      BY <2>1 DEF When
    <3>2. When(w.op \in Renewals, EffectsOf(me')) = EffectsOf(me')
      BY DEF When
    <3> QED BY <2>2, <3>1, <3>2 DEF Fold
  <2> QED BY <2>2, <2>3, <2>4
<1>2. ToldBy(w.op) = {}
  BY Tells
<1>3. \A q \in AllReads : moved'[q] = (moved[q] \/ q \in w.since)
  BY <1>1 DEF Mark
<1>4. AuthInv'
  <2>1. /\ w.got.user.role \in Roles
        /\ \A q \in UserReads : q \in w.since \/ w.got.user[q] = server[q]
    BY <1>1 DEF IInv, SessionInv, DoneInv, Accounted
  <2>2. CASE me' = w.got.user
    BY <1>0, <1>1, <1>3, <2>1, <2>2 DEF AuthInv
  <2>3. CASE me' # w.got.user
    <3>1. me = Nobody /\ me' = me /\ status' = status
      <4>1. "saveDetails" \notin SignIns /\ (w.op \in SignIns \/ w.op = "saveDetails")
        BY DEF SignIns, Renewals
      <4>2. w.op \notin SignIns
        BY <2>3 DEF Answered, applyAuth, SignIns
      <4>3. updateUser(w)
        BY <4>1, <4>2 DEF Answered
      <4> QED BY <2>3, <4>3 DEF updateUser
    <3>2. Nobody.role \notin Roles
      BY DEF Nobody, Roles
    <3> QED BY <3>1, <3>2 DEF IInv, SessionInv, AuthInv
  <2> QED BY <2>2, <2>3
<1>5. \A l \in EffectsOf(me') : /\ mounted /\ l.reads \in PageLoads(page) /\ ~l.served
                                /\ l.reads \cap {"team", "assigned", "log"} # {} => l.as = "admin"
  BY <1>0, EffectsLoad
<1>6. Displayed' => Displayed
  BY <1>1 DEF Steady, Displayed
<1>7. \A l \in EffectsOf(me') : l \in loads'
  BY <1>1
<1>8. ASSUME NEW q \in Reads, Displayed', q \in Shows(page, me'.role)
      PROVE  q \in Shows(page, me.role) \/ Loading(q)'
  BY <1>1, <1>7, <1>8, NewUser DEF IInv
<1>9. \A l \in loads' : l \in loads \/ l \in EffectsOf(me')
  BY <1>1
<1>10. \A q \in {"room", "form"} : q \in Reads
  BY DEF Reads
<1> QED BY <1>0, <1>1, <1>2, <1>3, <1>4, <1>5, <1>6, <1>8, <1>9, <1>10, AnswerEnds

\* A sign-out whose page stays, open to everybody.
LEMMA SignOutStays ==
  ASSUME IInv, TypeOK', Steady, NEW w \in writes, Answered(w), w.op = "logout"
  PROVE  IInv'
<1>0. /\ page \in Pages /\ moved \in [AllReads -> BOOLEAN]
      /\ \A q \in UserReads : q \in AllReads
      /\ \A q \in Reads : q \in AllReads
  BY DEF IInv, TypeOK, AllReads
<1>1. /\ w.phase = "done" /\ writes' = writes \ {w} /\ status' = "unauthenticated"
      /\ view' = view /\ loads' = loads /\ moved' \in {moved, Told(Heard("logout"), w.since)}
      /\ UNCHANGED <<server, page, mounted, filter, stale, refused>>
  BY DEF Answered, Goes, Fold, FromAnswer, Reloads, SignOut, SignIns, Renewals, AssignmentOps, When
<1>2. ToldBy(w.op) = {} /\ Heard("logout") = {}
  BY Tells DEF SignIns, Renewals, AssignmentOps
<1>3. \A q \in AllReads : moved'[q] = moved[q]
  BY <1>0, <1>1, <1>2 DEF Told
<1>4. AuthInv'
  BY <1>1 DEF AuthInv
<1>5. \A q \in {"room", "form"} : q \in Reads
  BY DEF Reads
<1>6. /\ Displayed' => Displayed /\ page \in OpenPages \cup GuestPages
      /\ \A q \in Reads : Displayed' /\ q \in Shows(page, me'.role) => q \in Shows(page, me.role)
  BY <1>1, SignedOut DEF IInv
<1> QED BY <1>0, <1>1, <1>2, <1>3, <1>4, <1>5, <1>6, AnswerEnds

\* What an answer brings is what the server has, or is known to have changed since.
LEMMA Answers ==
  ASSUME IInv, NEW w \in writes, w.phase = "done", w.op \in {"start", "stop", "saveForm"},
         NEW q \in Heard(w.op)
  PROVE  /\ q = IF w.op = "saveForm" THEN "form" ELSE "room"
         /\ q \in w.since \/ FromAnswer(w)[q] = Answer(q, server, filter)
         /\ ~canAccessRoomByAssignment(server) => q \in w.since
<1>0. /\ server \in Facts /\ w \in Writes /\ view \in [AllReads -> Values]
      /\ "room" \in Reads \ {"log"} /\ "form" \in Reads \ {"log"}
      /\ "room" \in AllReads /\ "form" \in AllReads
  BY DEF IInv, TypeOK, Reads, AllReads
<1>1. q = IF w.op = "saveForm" THEN "form" ELSE "room"
  BY Tells
<1>2. Accounted(w, server)
  BY DEF IInv, SessionInv, DoneInv
<1>3. CASE w.op = "saveForm"
  <2>1. q = "form" /\ FromAnswer(w)[q] = "f1"
    BY <1>0, <1>1, <1>3 DEF FromAnswer
  <2>2. "form" \in w.since \/ Answer("form", server, "all") = "f1"
    BY <1>2, <1>3 DEF Accounted
  <2> QED BY <1>0, <1>1, <2>1, <2>2, FilterFree, Accessible
<1>4. CASE w.op # "saveForm"
  <2>1. q = "room" /\ FromAnswer(w)[q] = w.got.status
    BY <1>0, <1>1, <1>4 DEF FromAnswer
  <2>2. "room" \in w.since \/ w.got.status = Answer("room", server, "all")
    BY <1>2, <1>4 DEF Accounted
  <2>3. w.got.status # "refused"
    BY <1>0 DEF Writes, Statuses
  <2> QED BY <1>0, <1>1, <2>1, <2>2, <2>3, FilterFree, Accessible
<1> QED BY <1>3, <1>4

\* The page takes in the status or the schema that its answer brings.
LEMMA TellingStays ==
  ASSUME IInv, TypeOK', Steady, NEW w \in writes, Answered(w), w.here,
         w.op \in {"start", "stop", "saveForm"}
  PROVE  IInv'
<1>0. /\ page \in Pages /\ view \in [AllReads -> Values]
      /\ \A q \in UserReads : q \in AllReads /\ q \notin {"room", "form"}
      /\ \A q \in Reads : q \in AllReads
      /\ \A q \in {"room", "form"} : q \in Reads
  BY DEF IInv, TypeOK, AllReads, Reads, UserReads
<1>1. /\ w.phase = "done" /\ writes' = writes \ {w} /\ loads' = loads
      /\ view' = FromAnswer(w) /\ moved' = Told(Heard(w.op), w.since)
      /\ UNCHANGED <<server, status, me, page, mounted, filter, stale, refused>>
  BY DEF Answered, Goes, Fold, Reloads, auth, SignIns, Renewals, AssignmentOps, When
<1>2. /\ ToldBy(w.op) = Heard(w.op)
      /\ Heard(w.op) = IF w.op = "saveForm" THEN {"form"} ELSE {"room"}
  BY Tells
<1>3. /\ \A q \in AllReads : q \in Heard(w.op) => moved'[q] = (q \in w.since)
      /\ \A q \in AllReads : q \notin Heard(w.op) => moved'[q] = moved[q]
  BY <1>1 DEF Told
<1>4. /\ \A q \in AllReads : q \notin Heard(w.op) => view'[q] = view[q]
      /\ \/ view'["form"] = "f1"
         \/ view'["form"] = view["form"] /\ (moved["form"] => moved'["form"])
  BY <1>0, <1>1, <1>2, <1>3 DEF FromAnswer
<1>5. ASSUME NEW q \in Heard(w.op)
      PROVE  /\ moved'[q] \/ view'[q] = Answer(q, server, filter)
             /\ ~canAccessRoomByAssignment(server) => moved'[q]
  <2>1. q \in AllReads
    BY <1>0, <1>2
  <2> QED BY <1>1, <1>3, <2>1, Answers
<1>6. AuthInv'
  BY <1>0, <1>1, <1>2, <1>3 DEF IInv, SessionInv, AuthInv
<1>7. Displayed' => Displayed
  BY <1>1 DEF Steady, Displayed
<1>8. \A q \in {"room", "form"} :
         moved[q] /\ ~canAccessRoomByAssignment(server) => moved'[q]
  BY <1>0, <1>3, <1>5
<1>9. \A q \in UserReads : view'[q] = view[q] /\ (moved[q] => moved'[q])
  BY <1>0, <1>2, <1>3, <1>4
<1>10. \A q \in Reads : IF w.here /\ q \in ToldBy(w.op)
                        THEN moved'[q] \/ Loading(q)' \/ view'[q] = Answer(q, server, filter)
                        ELSE view'[q] = view[q] /\ (moved[q] => moved'[q])
  BY <1>0, <1>2, <1>3, <1>4, <1>5
<1> QED BY <1>1, <1>4, <1>6, <1>7, <1>8, <1>9, <1>10, AnswerEnds

\* The page reads again what the operation changed, and keeps what it shows until then.
LEMMA ReloadingStays ==
  ASSUME IInv, TypeOK', Steady, NEW w \in writes, Answered(w), Goes(w.op) \in {"stay", page},
         w.op \notin Renewals \cup {"logout"}, w.here => w.op \notin {"start", "stop", "saveForm"}
  PROVE  IInv'
<1>0. /\ page \in Pages /\ filter \in {"all", "some"} /\ moved \in [AllReads -> BOOLEAN]
      /\ \A q \in UserReads : q \in AllReads
      /\ \A q \in Reads : q \in AllReads
      /\ \A q \in {"room", "form"} : q \in Reads
      /\ w \in Writes /\ me.role \in Roles \cup {"nobody"}
      /\ status \in {"loading", "authenticated", "unauthenticated", "error"}
  BY DEF IInv, TypeOK, AllReads, Reads, UserReads, Users
<1> DEFINE again == When(w.here, {NewLoad(S, me.role, filter) : S \in Reloads(w)})
           next == [w EXCEPT !.op = "logout", !.phase = "sent", !.got = NoAnswer]
<1>1. /\ w.phase = "done" /\ writes' = (writes \ {w}) \cup When(w.op = "deleteMe", {next})
      /\ view' = view /\ loads' = loads \cup again
      /\ moved' \in {moved, Told(Heard(w.op), w.since)} /\ (~w.here => moved' = moved)
      /\ UNCHANGED <<server, status, me, page, mounted, filter, stale, refused>>
  BY DEF Answered, Fold, FromAnswer, auth, Renewals, When
<1>2. \A q \in AllReads : moved'[q] = moved[q]
  <2>1. w.here => Heard(w.op) = {}
    BY Tells
  <2> QED BY <1>0, <1>1, <2>1 DEF Told
<1>3. ASSUME NEW x \in writes', x \notin writes \ {w}
      PROVE  x.op = "logout" /\ x.phase = "sent" /\ x.since = {}
  <2>1. x = next /\ w.op = "deleteMe"
    BY <1>1, <1>3 DEF When
  <2>2. w.since = {}
    <3>1. Heard("deleteMe") = {}
      BY Tells DEF SignIns, Renewals, AssignmentOps
    <3> QED BY <2>1, <3>1 DEF IInv, SessionInv, PressInv, Pressed
  <2> QED BY <1>0, <2>1, <2>2 DEF Writes
<1>4. ASSUME w.here, NEW S \in Reloads(w)
      PROVE  /\ mounted /\ S \in PageLoads(page) /\ S \subseteq Reads
             /\ S \cap {"team", "assigned", "log"} # {} => me.role = "admin"
  <2>1. /\ mounted /\ Belongs(w.op, page)
        /\ \/ w.op \in AssignmentOps /\ S = {"team", "list", "assigned"}
           \/ w.op \in {"createUser", "deleteUser"} /\ S = {"team", "assigned"}
           \/ w.op = "photo" /\ S = {"activities"}
    BY <1>4 DEF Reloads, IInv, PageInv, HereInv
  <2>2. S \in PageLoads(page)
    <3>1. \/ page = "assignments" /\ S = {"team", "list", "assigned"}
          \/ page = "users" /\ S = {"team", "assigned"}
          \/ page = "live" /\ S = {"activities"}
      <4>1. /\ w.op \in AssignmentOps => page = "assignments"
            /\ w.op \in {"createUser", "deleteUser"} => page = "users"
            /\ w.op = "photo" => page = "live"
        BY <2>1 DEF Belongs
      <4> QED BY <2>1, <4>1, Zenon
    <3>2. /\ page = "assignments" => {"team", "list", "assigned"} \in PageLoads(page)
          /\ page = "users" => {"team", "assigned"} \in PageLoads(page)
          /\ page = "live" => PageLoads(page) = {{"room"}, {"activities"}, {"token"}}
      BY <1>0, LoadsWhat
    <3> QED BY <3>1, <3>2
  <2>3. S # {"activities"} => me.role = "admin"
    <3>1. S # {"activities"} => page \in {"users", "assignments"}
      BY <2>1 DEF Belongs
    <3>2. Shown = "page"
      BY <2>1 DEF Steady
    <3> QED BY <1>0, <3>1, <3>2, RenderedMeans, Routes DEF Shown, OpenPages, GuestPages
  <2> QED BY <1>0, <2>1, <2>2, <2>3, LoadsWhat
<1>5. ASSUME NEW l \in again
      PROVE  /\ ~l.served /\ mounted /\ l.reads \in PageLoads(page)
             /\ l.reads \cap {"team", "assigned", "log"} # {} => l.as = "admin"
  <2>1. PICK S \in Reloads(w) : l = NewLoad(S, me.role, filter) /\ w.here
    BY <1>5 DEF When
  <2>2. l.reads = S /\ l.as = me.role /\ ~l.served
    BY <1>0, <1>4, <2>1, NewLoadIs
  <2> QED BY <1>4, <2>1, <2>2
<1>6. ASSUME w.here, NEW q \in Reads, q \in ToldBy(w.op)
      PROVE  Loading(q)'
  <2>1. PICK S \in Reloads(w) : q \in S
    <3>1. w.op \in AssignmentOps \/ w.op \in {"createUser", "deleteUser"}
      BY <1>6, Tells
    <3>2. ToldBy(w.op) \in Reloads(w)
      <4>1. CASE w.op \in AssignmentOps
        <5>1. Reloads(w) = {{"team", "list", "assigned"}}
          BY <4>1 DEF Reloads, AssignmentOps
        <5> QED BY <4>1, <5>1, Tells
      <4>2. CASE w.op \in {"createUser", "deleteUser"}
        BY <4>2, Tells DEF Reloads, AssignmentOps
      <4> QED BY <3>1, <4>1, <4>2
    <3> QED BY <1>6, <3>2
  <2>2. NewLoad(S, me.role, filter) \in loads'
    BY <1>1, <1>6 DEF When
  <2> QED BY <1>0, <1>4, <1>6, <2>1, <2>2, NewLoadIs DEF Loading
<1> HIDE DEF again, next
<1>7. AuthInv'
  BY <1>0, <1>1, <1>2 DEF IInv, SessionInv, AuthInv
<1>8. Displayed' => Displayed
  BY <1>1 DEF Steady, Displayed
<1>9. \A x \in writes : x # w => x \in writes'
  BY <1>1
<1>10. \A l \in loads' : \/ l \in loads
                         \/ /\ ~l.served /\ mounted /\ l.reads \in PageLoads(page)
                            /\ l.reads \cap {"team", "assigned", "log"} # {} => l.as = "admin"
  BY <1>1, <1>5
<1> QED BY <1>0, <1>1, <1>2, <1>3, <1>6, <1>7, <1>8, <1>9, <1>10, AnswerEnds

\* An answer leads to another page, or leaves the one that is open.
LEMMA AnsweredStep ==
  ASSUME IInv, TypeOK', Steady, NEW w \in writes, Answered(w)
  PROVE  IInv'
<1>1. w.op \in {"start", "stop", "saveForm", "logout"} => Goes(w.op) = "stay"
  BY DEF Goes
<1> QED BY <1>1, AnswerLeaves, RenewalStays, SignOutStays, TellingStays, ReloadingStays

\* A failure: what may have changed for all that is marked, and a toggle that stood
\* for the last change goes back to what the server has.
LEMMA UndoEnds ==
  ASSUME IInv, TypeOK', NEW w \in writes, NEW extra, writes' = writes \ {w},
         view' = IF w.here /\ w.op = "togglePrefs"
                 THEN [view EXCEPT !.prefs = IF w.to = "on" THEN "off" ELSE "on"] ELSE view,
         moved' = Mark(Unsaved(w) \cup extra),
         w.phase = "done" => {"list", "room", "form", "team", "assigned", "prefs"} \subseteq extra,
         UNCHANGED <<server, page, mounted, loads, filter, stale, refused>>, AuthInv',
         Displayed' => Displayed,
         \A q \in Reads : Displayed' /\ q \in Shows(page, me'.role) => q \in Shows(page, me.role)
  PROVE  IInv'
<1>0. /\ view \in [AllReads -> Values] /\ server \in Facts /\ w \in Writes
      /\ UserReads = {"prefs", "org", "name"} /\ UserReads \cap Reads = {}
      /\ UserReads \subseteq AllReads /\ Reads \subseteq AllReads
      /\ {"list", "room", "form", "team", "assigned"} \subseteq Reads
  BY DEF IInv, TypeOK, AllReads, UserReads, Reads
<1>1. /\ \A q \in AllReads : moved[q] => moved'[q]
      /\ \A q \in AllReads : q \in Unsaved(w) \cup extra => moved'[q]
      /\ \A q \in AllReads : q # "prefs" => view'[q] = view[q]
  BY <1>0 DEF Mark
<1>2. \A x \in writes' : \E v \in writes :
         SameRequest(x, v) /\ x.phase = v.phase /\ x.got = v.got /\ x.since = v.since
           /\ x.blind = v.blind
  BY DEF SameRequest
<1>3. PressInv' /\ DoneInv' /\ BlindInv'
  BY <1>2, RequestsStay DEF IInv
<1>4. ServedInv' /\ AccessInv' /\ LoadInv' /\ OfferedIsGranted'
  BY Frames DEF IInv, SessionInv, PageInv
<1>5. HereInv'
  BY DEF IInv, PageInv, HereInv
<1>6. TypedInv'
  BY <1>0, <1>1 DEF IInv, PageInv, TypedInv
<1>7. HeardInv'
  <2>1. \A op \in {"start", "stop", "saveForm"} : \A q \in Heard(op) : q \in AllReads
    BY <1>0, Tells
  <2> QED BY <1>1, <2>1 DEF IInv, PageInv, HeardInv, Telling
<1>8. ReadsInv'
  <2> SUFFICES ASSUME NEW q \in Reads, Displayed', q \in Shows(page, me'.role)
               PROVE  moved'[q] \/ Loading(q)' \/ Pending(q)' \/ view'[q] = Answer(q, server, filter)
    BY DEF ReadsInv
  <2>1. moved[q] \/ Loading(q) \/ Pending(q) \/ view[q] = Answer(q, server, filter)
    BY DEF IInv, PageInv, ReadsInv
  <2>2. Loading(q) => Loading(q)'
    BY DEF Loading
  <2>3. Pending(q) => Pending(q)' \/ moved'[q]
    <3> SUFFICES ASSUME Telling(w), q \in ToldBy(w.op)
                 PROVE  moved'[q]
      BY DEF Pending
    <3>1. CASE w.phase = "done"
      <4>1. q \in {"list", "room", "form", "team", "assigned"}
        BY Tells
      <4> QED BY <1>0, <1>1, <3>1, <4>1
    <3>2. CASE w.op = "saveForm"
      <4>1. q = "form" /\ "form" \in Unsaved(w)
        BY <3>2, Tells DEF Unsaved, When
      <4> QED BY <1>0, <1>1, <4>1
    <3> QED BY <3>1, <3>2 DEF Telling
  <2>4. view'[q] = view[q]
    BY <1>0, <1>1
  <2> QED BY <1>0, <1>1, <2>1, <2>2, <2>3, <2>4
<1>9. FormInv'
  BY <1>0, <1>1 DEF IInv, PageInv, FormInv, Loading
<1>10. FieldsInv'
  <2>1. \A p : Saving(p) => Saving(p)' \/ w.op = p
    BY DEF Saving
  <2>2. /\ w.op = "saveDetails" => moved'["name"]
        /\ w.op = "saveOrg" => moved'["org"]
    BY <1>0, <1>1 DEF Unsaved, When
  <2>3. NameInv'
    BY <1>0, <1>1, <2>1, <2>2 DEF IInv, PageInv, FieldsInv, NameInv
  <2>4. OrgInv'
    BY <1>0, <1>1, <2>1, <2>2 DEF IInv, PageInv, FieldsInv, OrgInv
  <2>5. PrefsInv'
    <3> SUFFICES ASSUME Displayed', page = "settings", ~moved'["prefs"]
                 PROVE  \/ Toggling' = {} /\ view'["prefs"] = server.prefs
                        \/ \E t \in Toggling' : t.to # server.prefs
      BY DEF PrefsInv
    <3>1. /\ \/ Toggling = {} /\ view["prefs"] = server.prefs
             \/ \E t \in Toggling : t.to # server.prefs
          /\ w.phase # "done"
      BY <1>0, <1>1 DEF IInv, PageInv, FieldsInv, PrefsInv
    <3>2. CASE w.here /\ w.op = "togglePrefs"
      <4>1. \A x \in writes \ {w} : x.op # "togglePrefs"
        BY <1>0, <1>1, <3>2 DEF Unsaved, When
      <4>2. Toggling = {w} /\ Toggling' = {}
        BY <3>1, <3>2, <4>1 DEF Toggling
      <4>3. w.to # server.prefs /\ w.to \in {"on", "off"} /\ server.prefs \in {"on", "off"}
        BY <1>0, <3>1, <3>2, <4>2 DEF IInv, SessionInv, PressInv, Pressed, Facts
      <4>4. view'["prefs"] = IF w.to = "on" THEN "off" ELSE "on"
        BY <1>0, <3>2
      <4> QED BY <4>2, <4>3, <4>4
    <3>3. CASE ~(w.here /\ w.op = "togglePrefs")
      <4>1. Toggling' = Toggling /\ view' = view
        BY <3>3 DEF Toggling
      <4> QED BY <3>1, <4>1
    <3> QED BY <3>2, <3>3
  <2> QED BY <2>3, <2>4, <2>5 DEF FieldsInv
<1> QED BY <1>3, <1>4, <1>5, <1>6, <1>7, <1>8, <1>9, <1>10 DEF IInv, SessionInv, PageInv

\* A refusal, or an answer that is lost.
LEMMA UndoSteps ==
  ASSUME IInv, TypeOK', Steady, NEW w \in writes, RefusedAnswer(w) \/ LoseWrite(w)
  PROVE  IInv'
<1> DEFINE extra == IF RefusedAnswer(w) THEN {}
                    ELSE When(w.phase = "done", {"list", "room", "form", "team", "assigned", "prefs"})
<1>1. /\ Undo(w) /\ UNCHANGED <<server, stale, refused>>
      /\ \/ UNCHANGED <<status, me>>
         \/ status' = "unauthenticated"
  BY DEF RefusedAnswer, LoseWrite, SignOut, auth
<1>2. /\ writes' = writes \ {w} /\ UNCHANGED <<page, mounted, loads, filter>>
      /\ view' = IF w.here /\ w.op = "togglePrefs"
                 THEN [view EXCEPT !.prefs = IF w.to = "on" THEN "off" ELSE "on"] ELSE view
  BY <1>1 DEF Undo
<1>3. /\ moved' = Mark(Unsaved(w) \cup extra)
      /\ w.phase = "done" => {"list", "room", "form", "team", "assigned", "prefs"} \subseteq extra
  <2>1. CASE RefusedAnswer(w)
    <3>1. Unsaved(w) \cup {} = Unsaved(w)
      OBVIOUS
    <3> QED BY <2>1, <3>1 DEF RefusedAnswer
  <2>2. CASE ~RefusedAnswer(w)
    BY <2>2 DEF LoseWrite, When
  <2> QED BY <2>1, <2>2
<1> HIDE DEF extra
<1>4. AuthInv'
  <2>1. \A q \in UserReads : moved[q] => moved'[q]
    BY <1>3 DEF Mark, AllReads
  <2> QED BY <1>1, <2>1 DEF IInv, SessionInv, AuthInv
<1>5. /\ Displayed' => Displayed
      /\ \A q \in Reads : Displayed' /\ q \in Shows(page, me'.role) => q \in Shows(page, me.role)
  <2>1. CASE UNCHANGED <<status, me>>
    BY <1>2, <2>1 DEF Displayed, Shown
  <2>2. CASE status' = "unauthenticated"
    BY <1>2, <2>2, SignedOut DEF IInv
  <2> QED BY <1>1, <2>1, <2>2
<1> QED BY <1>1, <1>2, <1>3, <1>4, <1>5, UndoEnds

-----------------------------------------------------------------------------
(* The invariant.                                                              *)

\* A tab that has nothing yet.
LEMMA Initially == Init => IInv
<1> SUFFICES ASSUME Init
             PROVE  IInv
  OBVIOUS
<1> USE DEF Init
<1>1. TypeOK
  <2>1. server \in Facts /\ page \in Pages /\ left \in Nat
    BY ConsoleAssumption
  <2>2. /\ Nobody \in Users /\ Unread \in [AllReads -> Values]
        /\ [q \in AllReads |-> FALSE] \in [AllReads -> BOOLEAN]
    BY DEF Nobody, Users, Unread, Values
  <2> QED BY <2>1, <2>2 DEF TypeOK
<1>2. AuthInv /\ PressInv /\ ServedInv /\ DoneInv /\ AccessInv /\ BlindInv
  BY DEF AuthInv, PressInv, ServedInv, DoneInv, AccessInv, BlindInv
<1>3. HereInv /\ LoadInv /\ TypedInv /\ HeardInv
  BY DEF HereInv, LoadInv, TypedInv, HeardInv
<1>4. ReadsInv /\ FormInv /\ NameInv /\ OrgInv /\ PrefsInv
  BY DEF ReadsInv, FormInv, NameInv, OrgInv, PrefsInv, Displayed
<1>5. OfferedIsGranted
  BY DEF OfferedIsGranted, NoRefusal
<1> QED BY <1>1, <1>2, <1>3, <1>4, <1>5 DEF IInv, SessionInv, PageInv, FieldsInv

\* Every step keeps the invariant.
LEMMA Preserved == IInv /\ [Next]_vars => IInv'
<1> SUFFICES ASSUME IInv, [Next]_vars
             PROVE  IInv'
  OBVIOUS
<1>0. TypeOK /\ AuthInv /\ PressInv
  BY DEF IInv, SessionInv
<1>1. CASE Render
  BY <1>0, <1>1, TypePages, LeaveSteps
<1>2. CASE Mount
  BY <1>0, <1>2, TypePages, MountStep
<1>3. CASE refreshOnce \/ RefreshServed \/ RefreshLost \/ doRefresh \/ TokenExpires \/ SessionEnds
  BY <1>0, <1>3, TypeSession, TokenSteps
<1>4. CASE Steady /\ (handleUnauthorized \/ AuthMe)
  BY <1>0, <1>4, TypePages, Unauthorized, AuthMeStep
<1>5. CASE Steady /\ (retryAuth \/ AuthMeLost)
  BY <1>0, <1>5, TypeSession, StatusSteps
<1>6. CASE Reload \/ SetFilter
  BY <1>0, <1>6, TypePages, LeaveSteps, FilterStep
<1>7. CASE \E l \in loads : Serve(l) \/ AnswerLoad(l) \/ LoseLoad(l)
  BY <1>0, <1>7, TypeLoads, ServeStep, LoadSteps
<1>8. CASE Steady /\ \E w \in writes : ServeWrite(w) \/ Answered(w) \/ RefusedAnswer(w) \/ LoseWrite(w)
  BY <1>0, <1>8, TypeWrites, ServeWriteStep, AnsweredStep, UndoSteps
<1>9. CASE \E from \in {page, "layout"} : \E c \in Offering(from) : c \in Pages /\ Follow(from, c)
  BY <1>0, <1>9, TypePages, FollowStep
<1>10. CASE \E from \in {page, "layout"} : \E c \in Offering(from) :
              c \in Ops /\ \E to \in Arguments(c) : Press(from, c, to)
  BY <1>0, <1>10, TypeWrites, PressStep
<1>11. CASE \E o \in Others : OthersWrite(o[1], o[2])
  BY <1>0, <1>11, TypeWrites, OthersStep
<1>12. CASE UNCHANGED vars
  <2>1. /\ UNCHANGED <<server, cookie, token, status, me, boot, refreshing, awaiting>>
        /\ UNCHANGED <<page, mounted, view, loads, filter, writes, moved>>
        /\ UNCHANGED <<stale, refused, left>>
    BY <1>12 DEF vars, tab, auth
  <2>2. TypeOK'
    BY <1>0, <2>1 DEF TypeOK
  <2>3. SessionInv' /\ OfferedIsGranted'
    BY <2>1, Frames DEF IInv, SessionInv
  <2>4. Displayed' => Displayed
    BY <2>1 DEF Displayed, Shown
  <2>5. PageInv'
    BY <2>1, <2>4, PageFrame DEF IInv
  <2> QED BY <2>2, <2>3, <2>5 DEF IInv
<1> QED BY <1>1, <1>2, <1>3, <1>4, <1>5, <1>6, <1>7, <1>8, <1>9, <1>10, <1>11, <1>12
        DEF Next, Progress, User, Environment

\* The conjunction is inductive.
LEMMA Invariant == Spec => []IInv
<1>1. Init => IInv
  BY Initially
<1>2. IInv /\ [Next]_vars => IInv'
  BY Preserved
<1> QED BY <1>1, <1>2, PTL DEF Spec

\* Every variable keeps its type, whatever the facts, the entry pages and the bound.
THEOREM ConsoleTypes == Spec => []TypeOK
<1>1. IInv => TypeOK
  BY DEF IInv
<1> QED BY <1>1, Invariant, PTL

\* What a page offers, the server grants to the role that presses it: it refuses an
\* operation for the role only where the page and the server are known to differ (the
\* named gaps) or the role has changed since, and for the assignment only where the page
\* could not know of it yet.
THEOREM OffersAreGranted == Spec => []OfferedIsGranted
<1>1. IInv => OfferedIsGranted
  BY DEF IInv
<1> QED BY <1>1, Invariant, PTL

\* With nothing on its way no read of an open page is excused, but for what it never hears.
LEMMA RestIsCurrent == IInv => SettledIsCurrent
<1> SUFFICES ASSUME IInv, AtRest, NEW q \in Shows(page, me.role)
             PROVE  moved[q] \/ view[q] = Current(q, server, filter)
  BY DEF SettledIsCurrent
<1>1. Displayed /\ loads = {} /\ writes = {} /\ page \in Pages
  BY DEF AtRest, Displayed, IInv, TypeOK
<1>2. CASE q \in Reads
  <2>1. ~Loading(q) /\ ~Pending(q)
    BY <1>1 DEF Loading, Pending
  <2>2. q \notin UserReads
    BY <1>2 DEF Reads, UserReads
  <2> QED BY <1>1, <1>2, <2>1, <2>2 DEF IInv, PageInv, ReadsInv, Current
<1>3. CASE q \in UserReads
  <2>1. /\ q \in {"name", "org", "prefs"} /\ Current(q, server, filter) = server[q]
        /\ q = "name" => page = "profile"
        /\ q \in {"org", "prefs"} => page = "settings"
    BY <1>1, <1>3, ShowsWhat DEF UserReads, Current
  <2>2. \A op : ~Saving(op)
    BY <1>1 DEF Saving
  <2>3. Toggling = {}
    BY <1>1 DEF Toggling
  <2> QED BY <1>1, <2>1, <2>2, <2>3 DEF IInv, PageInv, FieldsInv, NameInv, OrgInv, PrefsInv
<1>4. q \in AllReads
  BY <1>1, ShowsWhat
<1> QED BY <1>2, <1>3, <1>4 DEF AllReads

\* A page that is open with nothing on its way shows what the server has, but for the
\* changes that no answer and no event tells it of: whatever answers cross, overtake each
\* other or arrive after the page that asked for them is gone.
THEOREM RestingPagesAreCurrent == Spec => []SettledIsCurrent
<1> QED BY RestIsCurrent, Invariant, PTL
=============================================================================
