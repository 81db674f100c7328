------------------------------- MODULE Console -------------------------------
(* One browser tab of the web client, its user and the API: the session in    *)
(* memory and its refresh, the page that is open, what it has loaded, the     *)
(* requests its controls send and what it does with their answers, while      *)
(* others change the same facts.                                              *)
EXTENDS ConsolePages, Naturals

CONSTANTS
    Start,      \* the facts a run starts from
    Entry,      \* the pages a tab is opened at
    Others,     \* the facts others may change, and to what: pairs of a fact and a value
    MaxChoices  \* how often the user, others, time or the network choose a step

ASSUME ConsoleAssumption ==
    /\ Start \subseteq Facts /\ Entry \subseteq Pages
    \* No request of the API changes the role of another account.
    /\ \A s \in Facts, o \in Others : /\ [s EXCEPT ![o[1]] = o[2]] \in Facts
                                      /\ [s EXCEPT ![o[1]] = o[2]].role = s.role
    /\ MaxChoices \in Nat

VARIABLES
    server,     \* the facts in the database
    cookie,     \* the refresh session: "live", "dead" or "none"
    token,      \* the access token in memory: "none", "good" or "expired"
    status,     \* useAuth's status
    me,         \* useAuth's user
    boot,       \* the boot effect of useAuth: "refresh", "me" or "no"
    refreshing, \* the refresh in flight, shared by all who wait for it
    awaiting,   \* a request that got a 401 waits for it
    page,       \* the path
    mounted,    \* the page's component is mounted and its effects have run
    view,       \* what it shows
    loads,      \* its loads in flight
    writes,     \* requests of controls in flight
    filter,     \* the audit log's filter
    moved,      \* history: reads that have changed since without the page being told
    stale,      \* history: the page was opened by a link that could be out of date
    refused,    \* history: the last refusal
    left        \* the choices left

tab == <<page, mounted, view, loads, filter>>
auth == <<token, status, me, boot, refreshing, awaiting>>
vars == <<server, cookie, auth, tab, writes, moved, stale, refused, left>>

AllReads == Reads \cup UserReads
Nobody == [role |-> "nobody", org |-> "none", prefs |-> "on", name |-> "n0"]
Unread == [q \in AllReads |-> "unread"]
NoRefusal == [page |-> "none", control |-> "none", why |-> "none", excused |-> TRUE]

AuthUser(s) == [role |-> s.role, org |-> s.org, prefs |-> s.prefs, name |-> s.name]

\* What an answer carries back of the facts.
NoAnswer == [status |-> "none", user |-> Nobody]
AnswerOf(s) == [status |-> s.status, user |-> AuthUser(s)]

Current(q, s, f) == IF q \in UserReads THEN s[q] ELSE Answer(q, s, f)

\* Reads whose answer the step from server to s changes.
Changed(s) == {q \in AllReads : Current(q, s, filter) # Current(q, server, filter)}

Mark(S) == [q \in AllReads |-> moved[q] \/ q \in S]
Clear(S) == [q \in AllReads |-> moved[q] /\ q \notin S]
\* An answer brings the reads S; those in "since" have changed after it was given.
Told(S, since) == [q \in AllReads |-> IF q \in S THEN q \in since ELSE moved[q]]

\* Access to the room that the step from server to s takes away; of a guest, who needs
\* none, it takes away the room.
AccessLost(s) == canAccessRoomByAssignment(server) /\ ~canAccessRoomByAssignment(s)
TakenFrom(op, s) ==
    IF op = "joinShared" THEN server.status # "cancelled" /\ s.status = "cancelled"
    ELSE AccessLost(s)

Choose == left > 0 /\ left' = left - 1

Shown == Rendered(page, status, me)

Authorized == token = "good" /\ cookie = "live"

\* The page had not read, or no longer shows, what the server has.
Behind == \E q \in Shows(page, me.role) : moved[q]

\* "as": the role it was sent with; "here": its page is still open; "since": history,
\* what has changed after its answer was given; "blind": pressed on a page that was
\* behind, or the room was taken away since.
NewWrite(op, to, from) ==
    [op |-> op, to |-> to, from |-> from, as |-> me.role, here |-> TRUE, phase |-> "sent",
     got |-> NoAnswer, since |-> {}, blind |-> Behind]

NewLoad(reads, as, f) ==
    [reads |-> reads, as |-> as, for |-> f, served |-> FALSE,
     got |-> [q \in Reads |-> "unread"], since |-> {}]

-----------------------------------------------------------------------------
(* Opening and leaving pages.                                                  *)

Leave(p) ==
    /\ page' = p
    /\ mounted' = FALSE
    /\ view' = Unread
    /\ loads' = {}
    /\ filter' = "all"

\* Requests of the page that is left go on without it.
Orphaned == {[w EXCEPT !.here = FALSE] : w \in writes}

\* Reloading the page: a new document, with nothing in memory.
Reload ==
    /\ Choose
    /\ Leave(page)
    /\ token' = "none" /\ status' = "loading" /\ me' = Nobody
    /\ boot' = "refresh" /\ refreshing' = "no" /\ awaiting' = FALSE
    /\ writes' = {}
    /\ moved' = [q \in AllReads |-> FALSE]
    /\ stale' = TRUE
    /\ UNCHANGED <<server, cookie, refused>>

\* React renders a change of state, redirects included, before it takes another event.
Steady == Shown \notin Pages /\ (mounted => Shown = "page")

\* A redirect, or a notice that takes the place of the page.
Render ==
    /\ ~Steady
    /\ Leave(IF Shown \in Pages THEN Shown ELSE page)
    /\ writes' = Orphaned
    /\ moved' = Clear(Reads)
    /\ stale' = TRUE
    /\ UNCHANGED <<server, cookie, auth, refused, left>>

\* The component's first render and its effects.
Mount ==
    /\ Shown = "page" /\ ~mounted
    /\ mounted' = TRUE
    /\ loads' = {NewLoad(reads, me.role, filter) : reads \in InitialLoads(page, me.role)}
    /\ view' = [q \in AllReads |-> IF q \in UserReads THEN me[q] ELSE "unread"]
    /\ writes' = writes \cup When(page = "verify",
                     {NewWrite("confirmEmail", "none", page)})
    /\ UNCHANGED <<server, cookie, auth, page, filter, moved, stale, refused, left>>

\* The dashboard's effects run again when useAuth has another user: the list is
\* asked for each time, the team when the permission or the organisation is new.
EffectsOf(user) ==
    When(mounted /\ page = "dashboard" /\ user.org # "none",
         {NewLoad(reads, user.role, filter) : reads \in
            {{"list"}} \cup When(/\ hasRolePermission(user.role, "manage_users")
                                /\ \/ ~hasRolePermission(me.role, "manage_users")
                                   \/ user.org # me.org, {{"assigned", "team"}})})

\* Controls on the screen: the page's own once its loads have ended, and the
\* layout's.
OnPage == When(Shown = "page" /\ mounted /\ loads = {}, PageOffers(page, me.role, view))
OnLayout == When(page \in DashboardPages /\ Shown \in {"page", "denied"},
                 DashboardLayout(me.role))
Offering(from) == IF from = "layout" THEN OnLayout ELSE OnPage

Follow(from, p) ==
    /\ p # page
    /\ Choose
    /\ Leave(p)
    /\ writes' = Orphaned
    /\ moved' = Clear(Reads)
    /\ stale' = Behind
    /\ refused' = IF Rendered(p, status, me) = "denied"
                  THEN [page |-> from, control |-> p, why |-> "role", excused |-> FALSE]
                  ELSE refused
    /\ UNCHANGED <<server, cookie, auth>>

-----------------------------------------------------------------------------
(* The session in memory: useAuth and the API client's shared refresh.         *)

\* A request that needs a session and has not been let through.
Waiting ==
    \/ \E l \in loads : ~l.served /\ l.reads # {"shared"}
    \/ \E w \in writes : w.phase = "sent" /\ w.op \notin AuthOps \cup PublicOps

\* refreshOnce: the boot effect and every 401 share one request.
refreshOnce ==
    /\ \/ boot = "refresh" /\ refreshing = "no" /\ UNCHANGED awaiting
       \/ Waiting /\ ~Authorized /\ ~awaiting /\ awaiting' = TRUE
    /\ refreshing' = IF refreshing = "no" THEN "asked" ELSE refreshing
    /\ UNCHANGED <<server, cookie, token, status, me, boot, tab, writes, moved, stale,
                   refused, left>>

RefreshServed ==
    /\ refreshing = "asked"
    /\ refreshing' = IF cookie = "live" THEN "granted" ELSE "denied"
    /\ UNCHANGED <<server, cookie, token, status, me, boot, awaiting, tab, writes, moved,
                   stale, refused, left>>

\* doRefresh answers null to a network failure, as it does to a refusal.
RefreshLost ==
    /\ refreshing \in {"asked", "granted"}
    /\ Choose
    /\ refreshing' = "denied"
    /\ UNCHANGED <<server, cookie, token, status, me, boot, awaiting, tab, writes, moved,
                   stale, refused>>

doRefresh ==
    /\ refreshing = "granted"
    /\ refreshing' = "no" /\ token' = "good" /\ awaiting' = FALSE
    /\ boot' = IF boot = "refresh" THEN "me" ELSE boot
    /\ UNCHANGED <<server, cookie, status, me, tab, writes, moved, stale, refused, left>>

\* The boot effect ends signed out; whoever waited is answered 401 and the
\* handler signs the tab out.
handleUnauthorized ==
    /\ refreshing = "denied"
    /\ refreshing' = "no" /\ awaiting' = FALSE
    /\ boot' = IF boot = "refresh" THEN "no" ELSE boot
    /\ status' = IF boot = "refresh" \/ awaiting THEN "unauthenticated" ELSE status
    /\ token' = IF awaiting THEN "none" ELSE token
    /\ me' = IF awaiting THEN Nobody ELSE me
    /\ loads' = {l \in loads : l.reads = {"shared"} \/ ~awaiting}
    /\ writes' = {w \in writes : \/ w.phase # "sent" \/ w.op \in AuthOps \cup PublicOps
                                 \/ ~awaiting}
    /\ UNCHANGED <<server, cookie, page, mounted, view, filter, moved, stale,
                   refused, left>>

\* GET /auth/me after the boot's refresh; an open page's fields keep what they had.
AuthMe ==
    /\ boot = "me" /\ boot' = "no"
    /\ \/ /\ Authorized
          /\ status' = "authenticated" /\ me' = AuthUser(server)
          /\ moved' = IF mounted THEN moved ELSE Clear(UserReads)
          /\ loads' = loads \cup EffectsOf(me')
       \/ /\ ~Authorized
          /\ status' = "error" /\ UNCHANGED <<me, moved, loads>>
    /\ UNCHANGED <<server, cookie, token, refreshing, awaiting, page, mounted, view, filter, writes, stale, refused, left>>

AuthMeLost ==
    /\ boot = "me" /\ Choose
    /\ boot' = "no" /\ status' = "error"
    /\ UNCHANGED <<server, cookie, token, me, refreshing, awaiting, tab, writes, moved,
                   stale, refused>>

\* The Retry button of ConnectionError.
retryAuth ==
    /\ Shown = "error" /\ Choose
    /\ status' = "loading" /\ boot' = "refresh"
    /\ UNCHANGED <<server, cookie, token, me, refreshing, awaiting, tab, writes, moved,
                   stale, refused>>

-----------------------------------------------------------------------------
(* Loads.                                                                      *)

\* A guard of the server says no: because of the role, whatever is assigned, or
\* because of the assignment.
RoleRefuses(q) == Answer(q, [server EXCEPT !.assigned = "active"], filter) = "refused"

\* The requests of a load are sent together; the server answers them here in one step.
Serve(l) ==
    LET got == [q \in Reads |-> IF q \in l.reads THEN Answer(q, server, l.for) ELSE "unread"]
        \* A shared link comes from outside the console.
        no  == {q \in l.reads \ {"shared"} : got[q] = "refused"}
    IN
    /\ ~l.served
    /\ Authorized \/ l.reads = {"shared"}
    /\ loads' = (loads \ {l}) \cup {[l EXCEPT !.served = TRUE, !.got = got]}
    /\ refused' = IF no = {} THEN refused
                  ELSE [page |-> "link", control |-> page, excused |-> stale,
                        why |-> IF \A q \in no : ~RoleRefuses(q) THEN "assignment"
                                ELSE IF l.as = server.role THEN "role" ELSE "demoted"]
    /\ UNCHANGED <<server, cookie, auth, page, mounted, view, filter, writes, moved,
                   stale, left>>

\* The records page does without a form it cannot read.
Optional(p) == IF p = "records" THEN {"form"} ELSE {}

Failing(l) == \E q \in l.reads \ Optional(page) : l.got[q] = "refused"

\* The load ends without an answer the page can show: it keeps what it had, beside an
\* error or not, and asks for nothing that was to follow.
Fail(l) ==
    /\ view' = view
    /\ loads' = loads \ {l}
    /\ moved' = Mark(l.reads \cup UNION Follows(page, l.reads))

\* The loads that follow a load's success: none when the activities, already shown, were
\* read again after a photo.
Then(l) ==
    When(~(l.reads = {"activities"} /\ view["activities"] = "rows"),
         {NewLoad(reads, me.role, filter) : reads \in Follows(page, l.reads)})

\* A load's end: what it read is shown, or the error is.
AnswerLoad(l) ==
    /\ l.served
    /\ IF Failing(l) THEN Fail(l)
       ELSE /\ view' = [q \in AllReads |-> IF q \in l.reads THEN l.got[q] ELSE view[q]]
            /\ loads' = (loads \ {l}) \cup Then(l)
            /\ moved' = Told(l.reads, l.since \cup When(l.for # filter, {"log"}))
    /\ UNCHANGED <<server, cookie, auth, page, mounted, filter, writes, stale, refused, left>>

LoseLoad(l) ==
    /\ Choose
    /\ Fail(l)
    /\ UNCHANGED <<server, cookie, auth, page, mounted, filter, writes, stale, refused>>

\* Another filter: the log is read again, without waiting for an earlier answer.
SetFilter ==
    /\ page = "audit" /\ mounted /\ Shown = "page"
    /\ Choose
    /\ filter' = IF filter = "all" THEN "some" ELSE "all"
    /\ loads' = loads \cup {NewLoad({"log"}, me.role, filter')}
    /\ UNCHANGED <<server, cookie, auth, page, mounted, view, writes, moved, stale, refused>>

-----------------------------------------------------------------------------
(* Requests of controls.                                                       *)

\* The requests whose being in flight disables the control, or covers it with a modal.
DisabledBy(op) ==
    CASE op \in AssignmentOps -> AssignmentOps
      [] op \in {"createUser", "deleteUser"} -> {"createUser", "deleteUser"}
      [] op \in {"signIn", "signUp"} -> {"signIn", "signUp"}
      [] op = "saveDetails"   -> {"saveDetails", "avatarUpload"}
      [] op = "togglePrefs"   -> {}
      [] OTHER                -> {op}

Arguments(op) ==
    CASE op = "togglePrefs"      -> {IF view.prefs = "on" THEN "off" ELSE "on"}
      [] op = "finishOnboarding" -> {"admin", "volunteer"}
      [] OTHER                   -> {"none"}

\* Fields that show what was typed or toggled before the server has it. (What is
\* typed and not yet sent is left out.)
Typed(op, to) ==
    CASE op = "togglePrefs" -> [view EXCEPT !.prefs = to]
      [] op = "saveOrg"     -> [view EXCEPT !.org = "o1"]
      [] op = "saveDetails" -> [view EXCEPT !.name = "n1"]
      [] op = "saveForm"    -> [view EXCEPT !.form = "f1"]
      [] OTHER              -> view

Press(from, op, to) ==
    /\ ~ \E w \in writes : w.here /\ w.op \in DisabledBy(op)
    /\ Choose
    /\ writes' = writes \cup {NewWrite(op, to, from)}
    /\ view' = Typed(op, to)
    /\ UNCHANGED <<server, cookie, auth, page, mounted, loads, filter, moved, stale,
                   refused>>

\* Operations after which the client keeps what it had: the card of a cancelled
\* room, and the user in memory after a change of its settings.
Unheard == {"cancelRoom", "togglePrefs", "saveOrg", "saveDetails"}

\* Operations whose answer is the signed-in user.
SignIns == {"signIn", "signUp", "confirmEmail", "finishOnboarding"}

\* Operations after which useAuth has another user.
Renewals == SignIns \cup {"saveDetails"}

\* Session effects of the account operations.
SessionAfter(op) ==
    CASE op \in {"signIn", "confirmEmail"} -> "live"
      [] op \in {"resetPassword", "deleteMe"} -> IF cookie = "live" THEN "dead" ELSE cookie
      [] op = "logout" -> "none"
      [] OTHER -> cookie

\* What the answer to an operation brings, by itself.
Heard(op) ==
    CASE op \in {"start", "stop"} -> {"room"}
      [] op = "saveForm"          -> {"form"}
      [] op \in Renewals          -> UserReads
      [] OTHER                    -> {}

\* The facts become those of "after": answers given before it are now out of date.
Becomes(after) ==
    /\ server' = after
    /\ loads' = {[l EXCEPT !.since = IF l.served THEN @ \cup (Changed(after) \cap l.reads)
                                     ELSE @] : l \in loads}
    /\ stale' = (stale \/ AccessLost(after))

Overtaken(W, after) ==
    {[w EXCEPT !.since = IF w.phase = "done" THEN @ \cup (Changed(after) \cap Heard(w.op))
                         ELSE @,
               !.blind = @ \/ TakenFrom(w.op, after)] : w \in W}

\* The handler commits. The profile's answer was read back on another connection before
\* that: it is the user as it was.
Grant(w) ==
    LET after == Effect(w.op, server, w.to)
        early == w.op = "saveDetails"
    IN
    /\ Becomes(after)
    /\ cookie' = SessionAfter(w.op)
    /\ writes' = Overtaken(writes \ {w}, after)
                   \cup {[w EXCEPT !.phase = "done",
                                   !.got = AnswerOf(IF early THEN server ELSE after),
                                   !.since = When(early, Changed(after) \cap UserReads)]}
    /\ moved' = IF w.here /\ w.op \notin Unheard \cup SignIns THEN moved
                ELSE Mark(Changed(after))
    /\ UNCHANGED refused

Refuse(w, phase, why) ==
    /\ writes' = (writes \ {w}) \cup {[w EXCEPT !.phase = phase]}
    /\ refused' = [page |-> w.from, control |-> w.op, why |-> why,
                   excused |-> w.blind]
    /\ UNCHANGED <<server, cookie, loads, moved, stale>>

RoleGrants(op) == Granted(op, [server EXCEPT !.assigned = "active"])

ServeWrite(w) ==
    /\ w.phase = "sent"
    /\ \/ /\ Authorized \/ w.op \in PublicOps
          /\ \/ Granted(w.op, server) /\ Grant(w)
             \/ /\ ~Granted(w.op, server)
                /\ Refuse(w, "refused", IF w.op = "joinShared" THEN "cancelled"
                                        ELSE IF RoleGrants(w.op) THEN "assignment"
                                        ELSE IF w.as = server.role THEN "role" ELSE "demoted")
       \* fetchWithAuth renews nothing for the account routes.
       \/ /\ ~Authorized /\ w.op \in AuthOps \ PublicOps
          /\ Refuse(w, "unauthorized", IF cookie = "live" THEN "token" ELSE "session")
    /\ UNCHANGED <<auth, page, mounted, view, filter, left>>

\* applyAuth: registering answers no token, and signs the tab in without one.
applyAuth(w) ==
    /\ token' = IF w.op = "signUp" THEN "none" ELSE "good"
    /\ status' = "authenticated"
    /\ me' = w.got.user
    /\ UNCHANGED <<boot, refreshing, awaiting>>

\* updateUser: the whole answered user is merged into the one there is.
updateUser(w) ==
    /\ me' = IF me = Nobody THEN me ELSE w.got.user
    /\ UNCHANGED <<token, status, boot, refreshing, awaiting>>

SignOut ==
    /\ token' = "none" /\ status' = "unauthenticated" /\ me' = Nobody
    /\ UNCHANGED <<boot, refreshing, awaiting>>

\* Mutant: a created event is opened at a path no route has.
MutantGoes(op) == CASE op \in {"signIn", "signUp", "finishOnboarding"} -> "dashboard"
                    [] op = "createRoom" -> "room"
                    [] OTHER -> "stay"

\* Where an operation's success takes the user.
Goes(op) == CASE op \in {"signIn", "signUp", "finishOnboarding", "createRoom"} -> "dashboard"
              [] OTHER -> "stay"

\* The reads a page loads again, and those it takes from the answer.
Reloads(w) ==
    CASE w.op \in AssignmentOps -> {{"team", "list", "assigned"}}
      [] w.op \in {"createUser", "deleteUser"} -> {{"team", "assigned"}}
      [] w.op = "photo" -> {{"activities"}}
      [] OTHER -> {}

\* Mutant: after a save the builder shows the form it had opened with.
MutantFromAnswer(w) ==
    CASE w.op \in {"start", "stop"} -> [view EXCEPT !.room = w.got.status]
      [] w.op = "saveForm"          -> [view EXCEPT !.form = "f0"]
      [] OTHER                      -> view

\* The room as it is now; the form stays as it was typed.
FromAnswer(w) ==
    CASE w.op \in {"start", "stop"} -> [view EXCEPT !.room = w.got.status]
      [] w.op = "saveForm"          -> [view EXCEPT !.form = "f1"]
      [] OTHER                      -> view

\* What the components do with a success while their page stays.
Fold(w) ==
    /\ view' = IF w.here THEN FromAnswer(w) ELSE view
    /\ loads' = loads \cup When(w.here, {NewLoad(r, me.role, filter) : r \in Reloads(w)})
                      \cup When(w.op \in Renewals, EffectsOf(me'))
    /\ moved' = IF w.op \in Renewals THEN Mark(w.since)
                ELSE IF w.here THEN Told(Heard(w.op), w.since) ELSE moved
    /\ UNCHANGED <<page, mounted, filter>>

\* To navigate to the page that is open leaves it as it is.
Answered(w) ==
    /\ w.phase = "done"
    /\ CASE w.op \in SignIns -> applyAuth(w)
         [] w.op = "saveDetails" -> updateUser(w)
         [] w.op = "logout" -> SignOut
         [] OTHER -> UNCHANGED auth
    /\ IF Goes(w.op) \in {"stay", page}
       THEN /\ Fold(w)
            /\ writes' = (writes \ {w})
                 \* Settings signs out after the account is deleted.
                 \cup When(w.op = "deleteMe",
                           {[w EXCEPT !.op = "logout", !.phase = "sent", !.got = NoAnswer]})
            /\ UNCHANGED stale
       ELSE /\ Leave(Goes(w.op))
            /\ writes' = {[x EXCEPT !.here = FALSE] : x \in writes \ {w}}
            /\ moved' = IF w.op \in SignIns THEN [q \in AllReads |-> q \in w.since]
                        ELSE Clear(Reads)
            /\ stale' = TRUE
    /\ UNCHANGED <<server, cookie, refused, left>>

\* A failure: a message, and a toggle returns to the opposite of what it was set to.
Undo(w) ==
    /\ writes' = writes \ {w}
    /\ view' = IF w.here /\ w.op = "togglePrefs"
               THEN [view EXCEPT !.prefs = IF w.to = "on" THEN "off" ELSE "on"] ELSE view
    /\ UNCHANGED <<page, mounted, loads, filter>>

\* Fields keep what was typed although it was not saved, and a toggle is set back
\* although another press of it is on its way.
Unsaved(w) ==
    When(w.op = "saveOrg", {"org"}) \cup When(w.op = "saveDetails", {"name"})
      \cup When(w.op = "saveForm", {"form"})
      \cup When(w.op = "togglePrefs" /\ \E x \in writes \ {w} : x.op = "togglePrefs", {"prefs"})

RefusedAnswer(w) ==
    /\ w.phase \in {"refused", "unauthorized"}
    /\ Undo(w)
    /\ moved' = Mark(Unsaved(w))
    /\ UNCHANGED <<server, cookie, auth, stale, refused, left>>

\* The request or its answer is lost: the server may have committed. logout
\* signs the tab out all the same.
LoseWrite(w) ==
    /\ w.phase \in {"sent", "done"}
    /\ Choose
    /\ Undo(w)
    /\ IF w.op = "logout" THEN SignOut ELSE UNCHANGED auth
    /\ moved' = Mark(Unsaved(w) \cup
                     When(w.phase = "done", {"list", "room", "form", "team", "assigned", "prefs"}))
    /\ UNCHANGED <<server, cookie, stale, refused>>

-----------------------------------------------------------------------------
(* Everyone else, and time.                                                    *)

\* Another user, or another tab of this one, changes a fact.
OthersWrite(fact, value) ==
    LET after == [server EXCEPT ![fact] = value] IN
    /\ Choose
    /\ Becomes(after)
    /\ moved' = Mark(Changed(after))
    /\ writes' = Overtaken(writes, after)
    /\ UNCHANGED <<cookie, auth, page, mounted, view, filter, refused>>

TokenExpires ==
    /\ token = "good" /\ Choose
    /\ token' = "expired"
    /\ UNCHANGED <<server, cookie, status, me, boot, refreshing, awaiting, tab, writes, moved,
                   stale, refused>>

\* The session ends elsewhere: revoked, expired or replaced.
SessionEnds ==
    /\ cookie = "live" /\ Choose
    /\ cookie' = "dead"
    /\ UNCHANGED <<server, auth, tab, writes, moved, stale, refused>>

-----------------------------------------------------------------------------

Init ==
    /\ server \in Start
    /\ cookie \in {"live", "none"}
    /\ token = "none" /\ status = "loading" /\ me = Nobody
    /\ boot = "refresh" /\ refreshing = "no" /\ awaiting = FALSE
    /\ page \in Entry
    /\ mounted = FALSE /\ view = Unread /\ loads = {} /\ filter = "all"
    /\ writes = {}
    /\ moved = [q \in AllReads |-> FALSE]
    /\ stale = TRUE
    /\ refused = NoRefusal
    /\ left = MaxChoices

\* Steps the tab and the server take by themselves.
Progress ==
    \/ Render
    \/ Steady /\ (\/ Mount
                  \/ refreshOnce \/ RefreshServed \/ doRefresh \/ handleUnauthorized \/ AuthMe
                  \/ \E l \in loads : Serve(l) \/ AnswerLoad(l)
                  \/ \E w \in writes : ServeWrite(w) \/ Answered(w) \/ RefusedAnswer(w))

User ==
    \/ Reload
    \/ \E from \in {page, "layout"} :
         \E c \in Offering(from) :
            \/ c \in Pages /\ Follow(from, c)
            \/ c \in Ops /\ \E to \in Arguments(c) : Press(from, c, to)
    \/ SetFilter \/ retryAuth

Environment ==
    \/ \E o \in Others : OthersWrite(o[1], o[2])
    \/ TokenExpires \/ SessionEnds \/ RefreshLost \/ AuthMeLost
    \/ \E l \in loads : LoseLoad(l)
    \/ \E w \in writes : LoseWrite(w)

Next == Progress \/ (Steady /\ (User \/ Environment))

Spec == Init /\ [][Next]_vars /\ WF_vars(Progress)

-----------------------------------------------------------------------------

Users == [role: Roles \cup {"nobody"}, org: {"none", "o0", "o1"}, prefs: {"on", "off"},
          name: {"n0", "n1"}]
Loads == [reads: SUBSET Reads, as: Roles \cup {"nobody"}, for: {"all", "some"},
          served: BOOLEAN, got: [Reads -> Values], since: SUBSET AllReads]
Writes == [op: Ops, to: {"none", "on", "off", "admin", "volunteer"},
           from: Pages \cup {"layout"}, as: Roles \cup {"nobody"}, here: BOOLEAN,
           phase: {"sent", "done", "refused", "unauthorized"},
           got: [status: Statuses \cup {"none"}, user: Users], since: SUBSET AllReads,
           blind: BOOLEAN]

\* Every variable has its type (useAuth.tsx, api.ts and the pages' useState).
TypeOK ==
    /\ server \in Facts
    /\ cookie \in {"live", "dead", "none"} /\ token \in {"none", "good", "expired"}
    /\ status \in {"loading", "authenticated", "unauthenticated", "error"} /\ me \in Users
    /\ boot \in {"refresh", "me", "no"}
    /\ refreshing \in {"no", "asked", "granted", "denied"} /\ awaiting \in BOOLEAN
    /\ page \in Pages /\ mounted \in BOOLEAN
    /\ view \in [AllReads -> Values] /\ moved \in [AllReads -> BOOLEAN]
    /\ filter \in {"all", "some"}
    /\ loads \subseteq Loads /\ writes \subseteq Writes
    /\ stale \in BOOLEAN /\ left \in Nat

\* Controls known to be offered to roles the API or the route then refuses.
RoleGaps ==
    {<<"rooms", "builder">>, <<"layout", "create">>, <<"layout", "reports">>,
     <<"dashboard", "reports">>, <<"records", "report">>, <<"settings", "deleteMe">>,
     <<"profile", "logoUpload">>}

\* A control on the screen is one the API and the routes grant.  What is refused to
\* the role that pressed it is a named gap between a page and the guard behind it;
\* what is refused for want of an assignment, or to a guest because the room is
\* cancelled, was pressed on a page that had not read the room as it is, or the room
\* was taken away after the press.
OfferedIsGranted ==
    /\ refused.why = "role" => <<refused.page, refused.control>> \in RoleGaps
    /\ refused.why \in {"assignment", "cancelled"} => refused.excused

AtRest == Shown = "page" /\ mounted /\ loads = {} /\ writes = {}

\* A page at rest, beside an error or not, shows what the server has, unless it was told
\* by nobody: someone else changed it since, a load failed, what was typed could not be
\* saved, an answer was lost, the page that wrote had been left, an older filter's answer
\* came last, or the write is one the client never folds back.
SettledIsCurrent ==
    AtRest => \A q \in Shows(page, me.role) : moved[q] \/ view[q] = Current(q, server, filter)

Settled ==
    /\ boot = "no" /\ refreshing = "no" /\ writes = {} /\ loads = {}
    /\ Shown \in {"page", "denied", "error"} /\ (Shown = "page" => mounted)

\* Whatever is in flight, the tab comes to rest: on a page, on a notice or signed
\* out, and never in redirects from page to page or behind a load without end.
ComesToRest == []<>Settled
=============================================================================
