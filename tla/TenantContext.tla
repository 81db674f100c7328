--------------------------- MODULE TenantContext ---------------------------
(* The tenant-scoped transactions of requests and background jobs, and the    *)
(* pool they borrow connections from (middleware/tenantContext.ts,            *)
(* db/backgroundTenantContext.ts, db/index.ts).                               *)
(*                                                                            *)
(* A request pins one connection, on which `db` runs all its statements: the  *)
(* store of AsyncLocalStorage holds the connection for as long as the handler *)
(* runs, whoever has the connection by then.  authDb borrows a second one for *)
(* a statement; without AUTH_DATABASE_URL that is of the same pool.           *)
(*                                                                            *)
(* The listeners that end the transaction are added after BEGIN: of a client  *)
(* that leaves earlier they hear nothing, and a response that cannot be       *)
(* written never finishes.  Only PostgreSQL's timeout gets that one back.     *)
EXTENDS Naturals

CONSTANTS Requests,     \* HTTP requests with a tenant
          Jobs,         \* background contexts: polls, workers, deferred callbacks
          Conns,        \* DB_POOL_MAX connections
          SharedPool    \* AUTH_DATABASE_URL is not set: authPool = pool

None == "none"

ASSUME TenantAssumption ==
    /\ SharedPool \in BOOLEAN
    /\ Requests \cap Jobs = {}
    /\ None \notin Requests \cup Jobs \cup Conns

Actors == Requests \cup Jobs

VARIABLES
    pc,       \* progress of an actor's own code
    store,    \* the connection its AsyncLocalStorage store holds
    owner,    \* per connection: the actor that pinned it, or None
    tx,       \* per connection: whose BEGIN and set_config are in force, or None
    borrowed, \* the connection a statement on authDb has borrowed from the pool
    open,     \* the client still waits for the response of a request
    ended,    \* what cleanup did with its transaction: "no", "commit", "rollback"
    released, \* how often its connection was given back
    strayed   \* a statement of it ran in another's transaction, or in none

tcVars == <<pc, store, owner, tx, borrowed, open, ended, released, strayed>>

Steps == {"idle", "acquire", "begin", "running", "nested", "answered", "over", "failed"}

TCInit ==
    /\ pc = [a \in Actors |-> "idle"]
    /\ store = [a \in Actors |-> None]
    /\ owner = [c \in Conns |-> None]
    /\ tx = [c \in Conns |-> None]
    /\ borrowed = [a \in Actors |-> None]
    /\ open = [a \in Actors |-> a \in Requests]
    /\ ended = [a \in Actors |-> "no"]
    /\ released = [a \in Actors |-> 0]
    /\ strayed = [a \in Actors |-> FALSE]

Goto(a, step) == pc' = [pc EXCEPT ![a] = step]

Lent == {borrowed[a] : a \in Actors}
Free == {c \in Conns : owner[c] = None /\ c \notin Lent}
Mine(a) == {c \in Conns : owner[c] = a}

-----------------------------------------------------------------------------
(* Opening a context.                                                         *)

\* setTenantContext and runInTenantContext.  The exempt paths (the SSE stream)
\* and requests without an organisation never come here.
Arrive(r) ==
    /\ pc[r] = "idle" /\ r \in Requests
    /\ Goto(r, "acquire")
    /\ UNCHANGED <<store, owner, tx, borrowed, open, ended, released, strayed>>

\* Mutant: a deferred callback runs in the context of the request that scheduled it.
MutantDefer(j, r) ==
    /\ pc[j] = "idle" /\ j \in Jobs
    /\ pc[r] = "running" /\ store[r] # None
    /\ store' = [store EXCEPT ![j] = store[r]]
    /\ Goto(j, "running")
    /\ UNCHANGED <<owner, tx, borrowed, open, ended, released, strayed>>

\* runInBackgroundTenantContext: a callback that a request's handler scheduled
\* inherits the handler's store, and opens its own context all the same.
Defer(j, r) ==
    /\ pc[j] = "idle" /\ j \in Jobs
    /\ pc[r] = "running" /\ store[r] # None
    /\ Goto(j, "acquire")
    /\ UNCHANGED <<store, owner, tx, borrowed, open, ended, released, strayed>>

\* A poll or a queue worker starts on its own.
Wake(j) ==
    /\ pc[j] = "idle" /\ j \in Jobs
    /\ Goto(j, "acquire")
    /\ UNCHANGED <<store, owner, tx, borrowed, open, ended, released, strayed>>

Acquire(a) ==
    /\ pc[a] = "acquire"
    /\ \E c \in Free : owner' = [owner EXCEPT ![c] = a]
    /\ Goto(a, "begin")
    /\ UNCHANGED <<store, tx, borrowed, open, ended, released, strayed>>

\* connectionTimeoutMillis: a request answers 500, a job throws.
AcquireTimesOut(a) ==
    /\ pc[a] = "acquire" /\ Free = {}
    /\ Goto(a, "failed")
    /\ UNCHANGED <<store, owner, tx, borrowed, open, ended, released, strayed>>

\* The client leaves before the listeners exist: its "close" is not heard.
LeaveEarly(r) ==
    /\ r \in Requests /\ open[r] /\ pc[r] \in {"acquire", "begin"}
    /\ open' = [open EXCEPT ![r] = FALSE]
    /\ UNCHANGED <<pc, store, owner, tx, borrowed, ended, released, strayed>>

\* BEGIN and set_config; the store is bound once both have succeeded.
Begin(a) ==
    /\ pc[a] = "begin"
    /\ \E c \in Mine(a) : /\ tx' = [tx EXCEPT ![c] = a]
                          /\ store' = [store EXCEPT ![a] = c]
    /\ Goto(a, "running")
    /\ UNCHANGED <<owner, borrowed, open, ended, released, strayed>>

\* Mutant: the connection is released with its transaction still open.
MutantGiveBack(a) ==
    /\ owner' = [c \in Conns |-> IF owner[c] = a THEN None ELSE owner[c]]
    /\ released' = [released EXCEPT ![a] = @ + 1]
    /\ UNCHANGED tx

GiveBack(a) ==
    /\ owner' = [c \in Conns |-> IF owner[c] = a THEN None ELSE owner[c]]
    /\ tx' = [c \in Conns |-> IF owner[c] = a THEN None ELSE tx[c]]
    /\ released' = [released EXCEPT ![a] = @ + 1]

BeginFails(a) ==
    /\ pc[a] = "begin"
    /\ GiveBack(a)
    /\ Goto(a, "failed")
    /\ UNCHANGED <<store, borrowed, open, ended, strayed>>

-----------------------------------------------------------------------------
(* The handler's statements.                                                  *)

\* `db`: the statement runs on the store's connection, in whatever transaction
\* is open there now.
Statement(a) ==
    /\ pc[a] = "running" /\ store[a] # None
    /\ strayed' = [strayed EXCEPT ![a] = @ \/ tx[store[a]] # a]
    /\ UNCHANGED <<pc, store, owner, tx, borrowed, open, ended, released>>

\* authDb, while the pinned connection is kept.
CallAuthDb(a) ==
    /\ pc[a] = "running" /\ SharedPool
    /\ Goto(a, "nested")
    /\ UNCHANGED <<store, owner, tx, borrowed, open, ended, released, strayed>>

Borrow(a) ==
    /\ pc[a] = "nested" /\ borrowed[a] = None
    /\ \E c \in Free : borrowed' = [borrowed EXCEPT ![a] = c]
    /\ UNCHANGED <<pc, store, owner, tx, open, ended, released, strayed>>

Return(a) ==
    /\ pc[a] = "nested" /\ borrowed[a] # None
    /\ borrowed' = [borrowed EXCEPT ![a] = None]
    /\ Goto(a, "running")
    /\ UNCHANGED <<store, owner, tx, open, ended, released, strayed>>

\* Mutant: without connectionTimeoutMillis, pool.connect() never rejects.
MutantBorrowTimesOut(a) == FALSE /\ UNCHANGED tcVars

\* The statement throws; the handler may catch it and go on to answer.
BorrowTimesOut(a) ==
    /\ pc[a] = "nested" /\ borrowed[a] = None /\ Free = {}
    /\ Goto(a, "running")
    /\ UNCHANGED <<store, owner, tx, borrowed, open, ended, released, strayed>>

-----------------------------------------------------------------------------
(* Ending a context.                                                          *)

\* Mutant: cleanup does not remember that it has run.
MutantFinished(a) == FALSE

Finished(a) == ended[a] # "no"

\* cleanup(commit): the first event wins; the connection goes back either way.
Cleanup(a, how) ==
    IF Finished(a) THEN UNCHANGED <<owner, tx, released, ended>>
    ELSE /\ ended' = [ended EXCEPT ![a] = how]
         /\ GiveBack(a)

\* The handler, or the error handler for it, ends the response.
AnswerRequest(r) ==
    /\ pc[r] = "running" /\ r \in Requests
    /\ Goto(r, "answered")
    /\ UNCHANGED <<store, owner, tx, borrowed, open, ended, released, strayed>>

\* res "finish", if the client is still there to take the bytes.
ResponseFinishes(r) ==
    /\ pc[r] = "answered" /\ open[r]
    /\ Cleanup(r, "commit")
    /\ Goto(r, "over")
    /\ UNCHANGED <<store, borrowed, open, strayed>>

\* res "close" after "finish", or a client that went away: the abort of a
\* fetch, a closed tab.  The handler is not told.
ConnectionCloses(r) ==
    /\ r \in Requests /\ open[r] /\ pc[r] \in {"running", "nested", "answered", "over"}
    /\ open' = [open EXCEPT ![r] = FALSE]
    /\ Cleanup(r, IF pc[r] = "over" THEN "commit" ELSE "rollback")
    /\ UNCHANGED <<pc, store, borrowed, strayed>>

\* The handler of a request whose client left comes to its end.
AnswerNobody(r) ==
    /\ pc[r] = "answered" /\ ~open[r]
    /\ Goto(r, "over")
    /\ UNCHANGED <<store, owner, tx, borrowed, open, ended, released, strayed>>

\* Mutant: sessions without idle_in_transaction_session_timeout.
MutantIdleInTransaction(r) == FALSE /\ UNCHANGED tcVars

\* idle_in_transaction_session_timeout: client "error", and cleanup(false).
IdleInTransaction(r) ==
    /\ r \in Requests /\ pc[r] \in {"running", "nested", "answered", "over"} /\ Mine(r) # {}
    /\ Cleanup(r, "rollback")
    /\ UNCHANGED <<pc, store, borrowed, open, strayed>>

\* runInBackgroundTenantContext: COMMIT, or ROLLBACK when fn throws, and release.
JobEnds(j) ==
    /\ pc[j] = "running" /\ j \in Jobs
    /\ \E how \in {"commit", "rollback"} : Cleanup(j, how)
    /\ Goto(j, "over")
    /\ UNCHANGED <<store, borrowed, open, strayed>>

-----------------------------------------------------------------------------
Open(a)  == Arrive(a) \/ (\E r \in Requests : Defer(a, r)) \/ Wake(a)
Enter(a) == Acquire(a) \/ AcquireTimesOut(a) \/ Begin(a) \/ BeginFails(a)
Abandon(a) == LeaveEarly(a) \/ ConnectionCloses(a) \/ IdleInTransaction(a)
Auth(a)  == Borrow(a) \/ Return(a) \/ BorrowTimesOut(a)
EndHandler(a) == AnswerRequest(a) \/ ResponseFinishes(a) \/ AnswerNobody(a) \/ JobEnds(a)

TCNext == \E a \in Actors :
    \/ Open(a) \/ Enter(a) \/ Statement(a) \/ CallAuthDb(a) \/ Auth(a) \/ EndHandler(a) \/ Abandon(a)

\* A pool hands a free connection to someone or lets the wait time out; a
\* handler comes to its end (it does not call authDb for ever); PostgreSQL ends
\* a session that sits in a transaction after its handler is through.
Fairness == \A a \in Actors :
    /\ WF_tcVars(Enter(a)) /\ WF_tcVars(Auth(a)) /\ SF_tcVars(EndHandler(a))
    /\ WF_tcVars(pc[a] = "over" /\ IdleInTransaction(a))

TCSpec == TCInit /\ [][TCNext]_tcVars
FairSpec == TCSpec /\ Fairness

-----------------------------------------------------------------------------
\* Types of the state.
TCTypeOK ==
    /\ pc \in [Actors -> Steps]
    /\ store \in [Actors -> Conns \cup {None}]
    /\ owner \in [Conns -> Actors \cup {None}]
    /\ tx \in [Conns -> Actors \cup {None}]
    /\ borrowed \in [Actors -> Conns \cup {None}]
    /\ open \in [Actors -> BOOLEAN]
    /\ ended \in [Actors -> {"no", "commit", "rollback"}]
    /\ released \in [Actors -> Nat]
    /\ strayed \in [Actors -> BOOLEAN]

\* A connection belongs to one actor at a time: what one pinned is not lent for
\* a statement of another, and its transaction is that of the actor it belongs to.
ConnectionsAreExclusive ==
    /\ \A c \in Conns : tx[c] \in {None, owner[c]}
    /\ \A c \in Lent \ {None} : owner[c] = None
    /\ \A a, b \in Actors : a # b /\ borrowed[a] = borrowed[b] => borrowed[a] = None
    /\ \A c, d \in Conns : owner[c] = owner[d] /\ c # d => owner[c] = None

\* However "finish", "close" and "error" follow each other, an actor gives its
\* connection back once; a second release would hand it to two borrowers.
ReleasedOnce == \A a \in Actors : released[a] <= 1

\* Only the handler of a request that was rolled back under it (its client left,
\* or its session timed out) runs a statement outside its own transaction.  In
\* particular no background job does, although it may be scheduled from a
\* handler whose connection is someone else's by the time it runs.
OnlyAbandonedHandlersStray ==
    \A a \in Actors : strayed[a] => a \in Requests /\ ended[a] = "rollback"

\* A statement on authDb that waits while its request keeps a connection gets
\* one or fails, even when every connection is pinned by such a request.
NestedWaitEnds == \A a \in Actors : pc[a] = "nested" ~> pc[a] # "nested"

\* Every pinned connection comes back to the pool, also that of a client that
\* left while the request still waited for it.
ConnectionsComeBack == \A c \in Conns : owner[c] # None ~> owner[c] = None
=============================================================================
