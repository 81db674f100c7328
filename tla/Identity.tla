------------------------------ MODULE Identity ------------------------------
(* One person's account: registration, invitation, sign-in, refresh rotation, *)
(* password changes and deletion (services/auth, session.service.ts,          *)
(* admin.service.ts), with the copies of the user row and of the session rows *)
(* that Redis keeps.                                                          *)
(*                                                                            *)
(* A request is a process; other requests run at each of its awaits.  Most    *)
(* statements commit by themselves (authDb); updateUserProfile and            *)
(* deleteUserAccount write in the transaction tenantContext.ts pins to the    *)
(* request, which holds the row lock and commits after the response.          *)
(* Accounts do not interact, so one suffices.  Redis may be closed at any     *)
(* call (redisClient.isOpen): the call is skipped.                            *)
EXTENDS Integers

CONSTANTS Requests,      \* HTTP requests in progress, at most
          Tokens,        \* refresh tokens, each the key of one session row
          Links,         \* emailed single-use tokens (verification, reset)
          MaxSent,       \* bound on the requests ever sent
          MaxPassword    \* passwords are 1..MaxPassword; 0 is a null hash

NoToken == "notoken"

ASSUME IdentityAssumption ==
    MaxSent \in Nat /\ MaxPassword \in Nat /\ NoToken \notin Tokens

VARIABLES
    account,    \* the committed row of users, or Nobody
    lock,       \* the request whose open transaction has written the row
    draft,      \* the row as that transaction wrote it
    userKey,    \* Redis user:<id>: a copy of the row, or NoCopy
    emailKey,   \* Redis email:<address>: "none", "null" (no such account), "id"
    sessions,   \* per token: no row, or a live or revoked one
    family,     \* the token whose sign-in began a session's family
    sessionKey, \* Redis session:token:<hash>: a copy's state, or "none"
    links,      \* per emailed token: "free", "verify", "reset", "used"
    wins,       \* how many requests each emailed token let through
    sent,       \* how many requests there have been
    kind, pc,   \* a request's operation and its next step
    wrote,      \* it has written its change of the account
    seen,       \* the row its last findUser returned
    tok,        \* the refresh token presented to it
    copy,       \* the session state findSessionByToken returned
    doomed      \* tokens whose Redis copies it still has to delete

rowVars     == <<account, lock, draft>>
cacheVars   == <<userKey, emailKey, sessionKey>>
sessionVars == <<sessions, family>>
linkVars    == <<links, wins>>
localVars   == <<wrote, seen, tok, copy, doomed>>
vars == <<rowVars, cacheVars, sessionVars, linkVars, sent, kind, pc, localVars>>

Passwords == 0..MaxPassword
Rows == [active : BOOLEAN, verified : BOOLEAN, pw : Passwords, name : {0, 1}]
NoRow(mark) == [active |-> FALSE, verified |-> FALSE, pw |-> mark, name |-> 0]
Nobody == NoRow(-1)    \* no row has this address
NoCopy == NoRow(-2)    \* the key is absent; or: nothing was found yet
States == {"none", "live", "revoked"}

ByEmail == {"register", "google", "login", "resend", "forgot"}
ById    == {"me", "onboard"}
ByToken == {"refresh", "logout"}
ByLink  == {"verify", "reset"}
Direct  == {"invite", "change", "setInitial", "profile", "delete"}
Kinds   == ByEmail \cup ById \cup ByToken \cup ByLink \cup Direct
Steps   == {"idle", "email", "user", "select", "fill", "found", "ready", "session",
            "sessionSelect", "sessionFill", "rotate", "retire", "uncache", "revokeSelect",
            "revoke", "consume", "direct", "setPw", "setVerified", "remove", "burn", "mint",
            "invalidate", "issue", "answer"}

FirstStep == [k \in Kinds |-> CASE k \in ByEmail -> "email"
                                [] k \in ById    -> "user"
                                [] k \in ByToken -> "session"
                                [] k \in ByLink  -> "consume"
                                [] k \in Direct  -> "direct"]

Fresh(verified, p) == [active |-> TRUE, verified |-> verified, pw |-> p, name |-> 0]

Init ==
    /\ account \in {Nobody, Fresh(FALSE, 0)} \cup {Fresh(TRUE, p) : p \in Passwords}
    /\ lock = {} /\ draft = Nobody
    /\ userKey \in {NoCopy} \cup ({account} \ {Nobody})
    /\ emailKey = IF account = Nobody THEN "none" ELSE "id"
    /\ sessions \in [Tokens -> {"none", "live"}]
    /\ \A t, u \in Tokens : sessions[t] = "live" /\ sessions[u] = "live" =>
          account.verified /\ t = u
    /\ family = [t \in Tokens |-> t]
    /\ sessionKey = [t \in Tokens |-> "none"]
    /\ links = [l \in Links |-> "free"]
    /\ wins = [l \in Links |-> 0]
    /\ sent = 0
    /\ kind = [r \in Requests |-> "me"]
    /\ pc = [r \in Requests |-> "idle"]
    /\ wrote = [r \in Requests |-> FALSE]
    /\ seen = [r \in Requests |-> NoCopy]
    /\ tok = [r \in Requests |-> NoToken]
    /\ copy = [r \in Requests |-> "none"]
    /\ doomed = [r \in Requests |-> {}]

Goto(r, step) == pc' = [pc EXCEPT ![r] = step]

\* The request answers and drops what it holds; another may take its place.
End(r) ==
    /\ Goto(r, "idle")
    /\ kind' = [kind EXCEPT ![r] = "me"]
    /\ wrote' = [wrote EXCEPT ![r] = FALSE]
    /\ seen' = [seen EXCEPT ![r] = NoCopy]
    /\ tok' = [tok EXCEPT ![r] = NoToken]
    /\ copy' = [copy EXCEPT ![r] = "none"]
    /\ doomed' = [doomed EXCEPT ![r] = {}]
    /\ UNCHANGED sent

\* requireAuth: only a sign-in gives an access token, so the requests of the
\* person's own come after one.  "delete" may be another's, "invite" is.
Start(r, k) ==
    /\ pc[r] = "idle" /\ sent < MaxSent
    /\ sent' = sent + 1
    /\ k \in ById \cup (Direct \ {"invite", "delete"}) => account.verified
    /\ k = "delete" => account # Nobody
    /\ kind' = [kind EXCEPT ![r] = k]
    /\ Goto(r, FirstStep[k])
    /\ UNCHANGED <<rowVars, cacheVars, sessionVars, linkVars, localVars>>

-----------------------------------------------------------------------------
(* findUserByEmail and findUserById: read the key, else SELECT, then SETEX.   *)

Return(r) == IF wrote[r] THEN "ready" ELSE "found"

EmailKeyHit(r) ==
    /\ pc[r] = "email" /\ emailKey # "none"
    /\ IF emailKey = "null"
       THEN Goto(r, "found") /\ seen' = [seen EXCEPT ![r] = Nobody]
       ELSE Goto(r, "user") /\ UNCHANGED seen
    /\ UNCHANGED <<rowVars, cacheVars, sessionVars, linkVars, sent, kind, wrote, tok, copy, doomed>>

UserKeyHit(r) ==
    /\ pc[r] = "user" /\ userKey # NoCopy
    /\ seen' = [seen EXCEPT ![r] = userKey]
    /\ Goto(r, Return(r))
    /\ UNCHANGED <<rowVars, cacheVars, sessionVars, linkVars, sent, kind, wrote, tok, copy, doomed>>

\* The key is absent or Redis is closed.
CacheMiss(r) ==
    /\ \/ pc[r] = "email"
       \/ pc[r] = "user"
    /\ Goto(r, "select")
    /\ UNCHANGED <<rowVars, cacheVars, sessionVars, linkVars, sent, kind, localVars>>

\* Mutant: the SELECT runs on the request's own connection and reads its draft.
MutantSelectUser(r) ==
    /\ pc[r] = "select"
    /\ seen' = [seen EXCEPT ![r] = IF r \in lock THEN draft ELSE account]
    /\ Goto(r, "fill")
    /\ UNCHANGED <<rowVars, cacheVars, sessionVars, linkVars, sent, kind, wrote, tok, copy, doomed>>

\* authDb: another connection than the request's, so it reads the committed row.
SelectUser(r) ==
    /\ pc[r] = "select"
    /\ seen' = [seen EXCEPT ![r] = account]
    /\ Goto(r, "fill")
    /\ UNCHANGED <<rowVars, cacheVars, sessionVars, linkVars, sent, kind, wrote, tok, copy, doomed>>

FillUser(r) ==
    /\ pc[r] = "fill"
    /\ \/ UNCHANGED <<userKey, emailKey>>                    \* Redis is closed
       \/ /\ seen[r] = Nobody
          /\ emailKey' = "null" /\ UNCHANGED userKey
       \/ /\ seen[r] # Nobody
          /\ userKey' = seen[r]
          /\ emailKey' = IF kind[r] \in ByEmail /\ ~wrote[r] THEN "id" ELSE emailKey
    /\ Goto(r, Return(r))
    /\ UNCHANGED <<rowVars, sessionKey, sessionVars, linkVars, sent, kind, localVars>>

\* invalidateUserCache; only some callers pass the address.
InvalidateUser(r) ==
    /\ pc[r] = "invalidate"
    /\ \/ UNCHANGED <<userKey, emailKey>>                    \* Redis is closed
       \/ /\ userKey' = NoCopy
          /\ emailKey' = IF kind[r] \in {"register", "google", "invite", "delete"}
                         THEN "none" ELSE emailKey
    /\ IF kind[r] \in {"invite", "reset", "change", "setInitial"}
       THEN End(r)
       ELSE /\ Goto(r, CASE kind[r] \in {"register", "verify", "onboard", "profile"} -> "user"
                         [] kind[r] = "google" -> "issue"
                         [] kind[r] = "delete" -> "answer")
            /\ UNCHANGED <<sent, kind, localVars>>
    /\ UNCHANGED <<rowVars, sessionKey, sessionVars, linkVars>>

\* TTL: 120 s for a row, 30 s for "null".
KeyExpires ==
    /\ \/ /\ userKey # NoCopy
          /\ userKey' = NoCopy /\ UNCHANGED emailKey
       \/ /\ emailKey # "none"
          /\ emailKey' = "none" /\ UNCHANGED userKey
    /\ UNCHANGED <<rowVars, sessionKey, sessionVars, linkVars, sent, kind, pc, localVars>>

-----------------------------------------------------------------------------
(* Statements on the users row.  An UPDATE waits for a lock held by another.  *)

Wrote(r) == wrote' = [wrote EXCEPT ![r] = TRUE]

\* The insert of registerUser, createOrgUser or loginWithGoogle, committed.
Insert(r, row) ==
    /\ account = Nobody
    /\ account' = row
    /\ Wrote(r) /\ Goto(r, "invalidate")
    /\ seen' = [seen EXCEPT ![r] = NoCopy]
    /\ UNCHANGED <<lock, draft, cacheVars, sessionVars, sent, kind, tok, copy, doomed>>

\* The insert comes with its verification link, in one transaction.
InsertUnverified(r, p) ==
    /\ Insert(r, Fresh(FALSE, p))
    /\ \E l \in Links : links[l] = "free" /\ links' = [links EXCEPT ![l] = "verify"]
    /\ UNCHANGED wins

Register(r) ==
    /\ pc[r] = "found" /\ kind[r] = "register" /\ seen[r] = Nobody
    /\ \E p \in Passwords \ {0} : InsertUnverified(r, p)

\* createOrgUser; the administrator may leave the password to the invited person.
Invite(r) ==
    /\ pc[r] = "direct" /\ kind[r] = "invite"
    /\ \E p \in Passwords : InsertUnverified(r, p)

GoogleCreate(r) ==
    /\ pc[r] = "found" /\ kind[r] = "google" /\ seen[r] = Nobody
    /\ Insert(r, Fresh(TRUE, 0))
    /\ UNCHANGED linkVars

\* users_email_unique refuses a second row; or findUser found one before.
EmailTaken(r) ==
    /\ account # Nobody
    /\ \/ pc[r] = "found" /\ kind[r] \in {"register", "google"} /\ seen[r] = Nobody
       \/ pc[r] = "found" /\ kind[r] = "register" /\ seen[r] # Nobody
       \/ pc[r] = "direct" /\ kind[r] = "invite"
    /\ End(r)
    /\ UNCHANGED <<rowVars, cacheVars, sessionVars, linkVars>>

\* An UPDATE that commits by itself.
Update(r, row, next) ==
    /\ lock = {}
    /\ account' = row
    /\ Wrote(r) /\ Goto(r, next)
    /\ UNCHANGED <<lock, draft, cacheVars, sessionVars, linkVars, sent, kind, tok, copy, doomed>>

GoogleLink(r) ==
    /\ pc[r] = "found" /\ kind[r] = "google"
    /\ seen[r] \in Rows /\ seen[r].active
    /\ Update(r, [account EXCEPT !.verified = TRUE], "invalidate")
    /\ seen' = [seen EXCEPT ![r] = account']

SetVerified(r) ==
    /\ pc[r] = "setVerified"
    /\ Update(r, [account EXCEPT !.verified = TRUE], "invalidate")
    /\ UNCHANGED seen

\* changeUserPassword and setInitialPassword read the row itself, and check it.
CheckPassword(r) ==
    /\ pc[r] = "direct" /\ kind[r] \in {"change", "setInitial"}
    /\ (kind[r] = "setInitial") <=> (account.pw = 0)
    /\ Goto(r, "setPw")
    /\ UNCHANGED <<rowVars, cacheVars, sessionVars, linkVars, sent, kind, localVars>>

SetPassword(r) ==
    /\ pc[r] = "setPw"
    /\ \E p \in Passwords \ {0} :
          Update(r, [account EXCEPT !.pw = p],
                 IF kind[r] = "setInitial" THEN "invalidate" ELSE "revokeSelect")
    /\ UNCHANGED seen

\* completeOnboarding's transaction changes role and organisation only.
Onboard(r) ==
    /\ pc[r] = "found" /\ kind[r] = "onboard" /\ seen[r].active
    /\ Update(r, account, "invalidate")
    /\ UNCHANGED seen

\* An UPDATE in the request's transaction.
UpdateDraft(r, row) ==
    /\ lock = {} /\ lock' = {r} /\ draft' = row
    /\ Wrote(r) /\ Goto(r, "invalidate")
    /\ UNCHANGED <<account, cacheVars, sessionVars, linkVars, sent, kind, seen, tok, copy, doomed>>

UpdateProfile(r) ==
    /\ pc[r] = "direct" /\ kind[r] = "profile"
    /\ UpdateDraft(r, [account EXCEPT !.name = 1 - account.name])

\* The target must not be deleted yet; the role checks that follow may refuse.
CheckDelete(r) ==
    /\ pc[r] = "direct" /\ kind[r] = "delete" /\ account.active
    /\ Goto(r, "remove")
    /\ UNCHANGED <<rowVars, cacheVars, sessionVars, linkVars, sent, kind, localVars>>

Remove(r) ==
    /\ pc[r] = "remove"
    /\ UpdateDraft(r, [account EXCEPT !.active = FALSE])

Commit(r) ==
    /\ r \in lock
    /\ \/ pc[r] = "answer"
       \/ pc[r] = "ready" /\ kind[r] = "profile"
    /\ account' = draft /\ lock' = {}
    /\ draft' = Nobody
    /\ End(r)
    /\ UNCHANGED <<cacheVars, sessionVars, linkVars>>

\* A failed statement (the audit entry), a disconnect or a stop.
RollBack(r) ==
    /\ r \in lock
    /\ lock' = {} /\ draft' = Nobody
    /\ End(r)
    /\ UNCHANGED <<account, cacheVars, sessionVars, linkVars>>

-----------------------------------------------------------------------------
(* Emailed tokens.                                                            *)

\* Mutant: whether the token was used is not part of the UPDATE's condition.
MutantConsumable(r) == {l \in Links : links[l] # "free"}

Consumable(r) == {l \in Links : links[l] = kind[r]}

\* UPDATE ... SET used_at WHERE used_at IS NULL: check and mark in one statement.
Consume(r) ==
    /\ pc[r] = "consume"
    /\ \E l \in Consumable(r) :
          /\ links' = [links EXCEPT ![l] = "used"]
          /\ wins' = [wins EXCEPT ![l] = @ + 1]
    /\ Goto(r, IF kind[r] = "verify" THEN "setVerified" ELSE "setPw")
    /\ UNCHANGED <<rowVars, cacheVars, sessionVars, sent, kind, localVars>>

\* resendVerificationToken first retires the earlier links ...
Burn(r) ==
    /\ pc[r] = "found" /\ kind[r] = "resend"
    /\ seen[r] \in Rows /\ ~seen[r].verified
    /\ links' = [l \in Links |-> IF links[l] = "verify" THEN "used" ELSE links[l]]
    /\ Goto(r, "mint")
    /\ UNCHANGED <<rowVars, cacheVars, sessionVars, wins, sent, kind, localVars>>

\* ... and then inserts the new one; forgotPassword inserts without retiring.
Mint(r) ==
    /\ \/ pc[r] = "mint"
       \/ pc[r] = "found" /\ kind[r] = "forgot" /\ seen[r] # Nobody
    /\ \E l \in Links :
          /\ links[l] = "free"
          /\ links' = [links EXCEPT ![l] = IF kind[r] = "forgot" THEN "reset" ELSE "verify"]
    /\ End(r)
    /\ UNCHANGED <<rowVars, cacheVars, sessionVars, wins>>

-----------------------------------------------------------------------------
(* Sessions.                                                                  *)

NewSession(t, f) ==
    /\ sessions[t] = "none"
    /\ sessions' = [sessions EXCEPT ![t] = "live"]
    /\ family' = [family EXCEPT ![t] = f]

\* Mutant: loginUser does not look at emailVerifiedAt.
MutantMayLogIn(row) == row \in Rows /\ row.pw # 0 /\ row.active

MayLogIn(row) == row \in Rows /\ row.pw # 0 /\ row.active /\ row.verified

\* issueTokensFor.  A Google account that is linked already goes straight to it.
IssueTokens(r) ==
    /\ \/ pc[r] = "found" /\ kind[r] = "login" /\ MayLogIn(seen[r])
       \/ pc[r] = "found" /\ kind[r] = "google" /\ seen[r] \in Rows
             /\ seen[r].active /\ seen[r].verified
       \/ pc[r] = "ready" /\ kind[r] \in {"verify", "onboard"}
       \/ pc[r] = "issue"
    /\ \E t \in Tokens : NewSession(t, t)
    /\ End(r)
    /\ UNCHANGED <<rowVars, cacheVars, linkVars>>

\* findSessionByToken
PresentToken(r) ==
    /\ pc[r] = "session"
    /\ \E t \in Tokens :
          /\ sessions[t] # "none"
          /\ tok' = [tok EXCEPT ![r] = t]
          /\ \/ /\ sessionKey[t] # "none"
                /\ copy' = [copy EXCEPT ![r] = sessionKey[t]]
                /\ Goto(r, IF kind[r] = "refresh" THEN "user" ELSE "retire")
             \/ Goto(r, "sessionSelect") /\ UNCHANGED copy
    /\ UNCHANGED <<rowVars, cacheVars, sessionVars, linkVars, sent, kind, wrote, seen, doomed>>

SelectSession(r) ==
    /\ pc[r] = "sessionSelect"
    /\ copy' = [copy EXCEPT ![r] = sessions[tok[r]]]
    /\ Goto(r, "sessionFill")
    /\ UNCHANGED <<rowVars, cacheVars, sessionVars, linkVars, sent, kind, wrote, seen, tok, doomed>>

FillSession(r) ==
    /\ pc[r] = "sessionFill"
    /\ \/ UNCHANGED sessionKey                               \* Redis is closed
       \/ sessionKey' = [sessionKey EXCEPT ![tok[r]] = copy[r]]
    /\ Goto(r, IF kind[r] = "refresh" THEN "user" ELSE "retire")
    /\ UNCHANGED <<rowVars, userKey, emailKey, sessionVars, linkVars, sent, kind, localVars>>

SessionKeyExpires ==
    /\ \E t \in Tokens :
          sessionKey[t] # "none" /\ sessionKey' = [sessionKey EXCEPT ![t] = "none"]
    /\ UNCHANGED <<rowVars, userKey, emailKey, sessionVars, linkVars, sent, kind, pc, localVars>>

\* refreshSession, once the account is known to be active: rotateSession.
Rotate(r) ==
    /\ pc[r] = "found" /\ kind[r] = "refresh" /\ seen[r] \in Rows /\ seen[r].active
    /\ copy[r] = "live"
    /\ \E t \in Tokens : NewSession(t, family[tok[r]])
    /\ Goto(r, "retire")
    /\ UNCHANGED <<rowVars, cacheVars, linkVars, sent, kind, localVars>>

ReuseDetected(r) ==
    /\ pc[r] = "found" /\ kind[r] = "refresh" /\ seen[r] \in Rows /\ seen[r].active
    /\ copy[r] = "revoked"
    /\ Goto(r, "revokeSelect")
    /\ UNCHANGED <<rowVars, cacheVars, sessionVars, linkVars, sent, kind, localVars>>

\* Mutant: the copy in Redis is marked before the row is updated.
MutantRetire(r) ==
    /\ pc[r] = "retire" /\ copy[r] = "live"
    /\ IF sessionKey[tok[r]] = "revoked"
       THEN /\ sessions' = [sessions EXCEPT ![tok[r]] = "revoked"]
            /\ doomed' = [doomed EXCEPT ![r] = {tok[r]}]
            /\ Goto(r, "uncache") /\ UNCHANGED sessionKey
       ELSE /\ sessionKey' = [sessionKey EXCEPT ![tok[r]] = "revoked"]
            /\ UNCHANGED <<sessions, doomed, pc>>
    /\ UNCHANGED <<rowVars, userKey, emailKey, family, linkVars, sent, kind, wrote, seen, tok, copy>>

\* The presented token's row is revoked: by its successor's rotation or a logout.
Retire(r) ==
    /\ pc[r] = "retire" /\ copy[r] = "live"
    /\ sessions' = [sessions EXCEPT ![tok[r]] = "revoked"]
    /\ doomed' = [doomed EXCEPT ![r] = {tok[r]}]
    /\ Goto(r, "uncache")
    /\ UNCHANGED <<rowVars, cacheVars, family, linkVars, sent, kind, wrote, seen, tok, copy>>

\* revokeSessionFamily after a reuse, revokeAllUserSessions after a password change.
Revocable(r) ==
    {t \in Tokens : /\ sessions[t] = "live"
                    /\ kind[r] = "refresh" => family[t] = family[tok[r]]}

SelectRevocable(r) ==
    /\ pc[r] = "revokeSelect"
    /\ doomed' = [doomed EXCEPT ![r] = Revocable(r)]
    /\ Goto(r, "revoke")
    /\ UNCHANGED <<rowVars, cacheVars, sessionVars, linkVars, sent, kind, wrote, seen, tok, copy>>

\* The UPDATE has its own WHERE: it may revoke rows the SELECT did not list.
Revoke(r) ==
    /\ pc[r] = "revoke"
    /\ sessions' = [t \in Tokens |-> IF t \in Revocable(r) THEN "revoked" ELSE sessions[t]]
    /\ Goto(r, "uncache")
    /\ UNCHANGED <<rowVars, cacheVars, family, linkVars, sent, kind, localVars>>

UncacheSession(r) ==
    /\ pc[r] = "uncache"
    /\ \E t \in doomed[r] :
          /\ doomed' = [doomed EXCEPT ![r] = @ \ {t}]
          /\ \/ UNCHANGED sessionKey                         \* Redis is closed
             \/ sessionKey' = [sessionKey EXCEPT ![t] = "none"]
    /\ UNCHANGED <<rowVars, userKey, emailKey, sessionVars, linkVars, sent, kind, pc, wrote, seen, tok, copy>>

Uncached(r) ==
    /\ pc[r] = "uncache" /\ doomed[r] = {}
    /\ IF kind[r] \in ByToken
       THEN End(r)
       ELSE Goto(r, "invalidate") /\ UNCHANGED <<sent, kind, localVars>>
    /\ UNCHANGED <<rowVars, cacheVars, sessionVars, linkVars>>

-----------------------------------------------------------------------------
\* Nothing is left to do, the request is refused, or a statement of it fails.
Finish(r) ==
    /\ pc[r] # "idle" /\ r \notin lock
    /\ End(r)
    /\ UNCHANGED <<rowVars, cacheVars, sessionVars, linkVars>>

Account(r) ==
    \/ Register(r) \/ Invite(r) \/ GoogleCreate(r) \/ EmailTaken(r) \/ GoogleLink(r)
    \/ SetVerified(r) \/ CheckPassword(r) \/ SetPassword(r) \/ Onboard(r)
    \/ UpdateProfile(r) \/ CheckDelete(r) \/ Remove(r) \/ Commit(r) \/ RollBack(r)
    \/ Consume(r) \/ Burn(r) \/ Mint(r)

Lookup(r) ==
    \/ EmailKeyHit(r) \/ UserKeyHit(r) \/ CacheMiss(r) \/ SelectUser(r) \/ FillUser(r)
    \/ InvalidateUser(r)

Session(r) ==
    \/ IssueTokens(r) \/ PresentToken(r) \/ SelectSession(r) \/ FillSession(r)
    \/ Rotate(r) \/ ReuseDetected(r) \/ Retire(r) \/ SelectRevocable(r) \/ Revoke(r)
    \/ UncacheSession(r) \/ Uncached(r)

Next ==
    \/ \E r \in Requests : \/ \E k \in Kinds : Start(r, k)
                           \/ Account(r) \/ Lookup(r) \/ Session(r) \/ Finish(r)
    \/ KeyExpires \/ SessionKeyExpires

Spec == Init /\ [][Next]_vars

-----------------------------------------------------------------------------
\* Types of the state.
TypeOK ==
    /\ account \in Rows \cup {Nobody} /\ draft \in Rows \cup {Nobody}
    /\ lock \in {{}} \cup {{r} : r \in Requests}
    /\ userKey \in Rows \cup {NoCopy}
    /\ emailKey \in {"none", "null", "id"}
    /\ sessions \in [Tokens -> States] /\ sessionKey \in [Tokens -> States]
    /\ family \in [Tokens -> Tokens]
    /\ links \in [Links -> {"free", "verify", "reset", "used"}]
    /\ wins \in [Links -> Nat] /\ sent \in 0..MaxSent
    /\ kind \in [Requests -> Kinds] /\ pc \in [Requests -> Steps]
    /\ wrote \in [Requests -> BOOLEAN]
    /\ seen \in [Requests -> Rows \cup {Nobody, NoCopy}]
    /\ tok \in [Requests -> Tokens \cup {NoToken}]
    /\ copy \in [Requests -> States]
    /\ doomed \in [Requests -> SUBSET Tokens]

\* A session is only ever issued to an account whose address was verified, on
\* whichever of the five sign-in paths and however stale the row it looked at.
OnlyVerifiedSignIn ==
    (\E t \in Tokens : sessions[t] # "none") => account.verified

\* Reuse is only detected of a token that was really revoked: no copy, in Redis
\* or held by a request, says "revoked" of a live session.  A false alarm would
\* sign the whole family out.
AlarmIsTrue ==
    /\ \A t \in Tokens : sessionKey[t] = "revoked" => sessions[t] = "revoked"
    /\ \A r \in Requests : copy[r] = "revoked" => sessions[tok[r]] = "revoked"

\* An emailed token lets one request through, however many present it at once.
LinkUsedOnce == \A l \in Links : wins[l] <= 1

RowCopiesCurrent ==
    /\ userKey \in {NoCopy, account}
    /\ emailKey = "null" => account = Nobody
    /\ \A r \in Requests : seen[r] \in {NoCopy, account}

SessionCopiesCurrent ==
    /\ \A t \in Tokens : sessionKey[t] \in {"none", sessions[t]}
    /\ \A r \in Requests : copy[r] # "none" => copy[r] = sessions[tok[r]]

\* What is cached comes from committed rows: once the copies of the row (of the
\* sessions) in Redis and in running requests are current, only a write of the
\* row (of a session) makes one stale.  So a path that looks at isActive, at the
\* password or at the revocation of a token goes by the row as it stands, once the
\* last stale copy has expired.  verifyEmailToken looks at none of them: whoever
\* has an open link of a deleted account still gets tokens.
OnlyWritesMakeStale ==
    [][/\ RowCopiesCurrent /\ UNCHANGED account => RowCopiesCurrent'
       /\ SessionCopiesCurrent /\ UNCHANGED sessions => SessionCopiesCurrent']_vars
=============================================================================
