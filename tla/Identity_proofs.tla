--------------------------- MODULE Identity_proofs ---------------------------
(* The invariants of Identity hold for any number of requests, refresh tokens *)
(* and emailed links.                                                         *)
EXTENDS Identity, TLAPS

\* A row that was read earlier, against the row of now: verification is never
\* taken back and a row stays (deletion only clears is_active).
Behind(row) == row \in Rows => account \in Rows /\ (row.verified => account.verified)

RowInv ==
    /\ Behind(userKey)
    /\ \A r \in Requests : Behind(seen[r])
    /\ \A l \in Links : links[l] # "free" => account \in Rows
    /\ lock # {} => account \in Rows /\ draft \in Rows /\ (account.verified => draft.verified)

Writers == {"register", "invite", "google", "verify", "onboard", "profile", "delete",
            "reset", "change", "setInitial"}

\* What the step a request has reached says of its operation and of the account.
StageInv == \A r \in Requests :
    /\ pc[r] \in {"fill", "found"} => seen[r] # NoCopy
    /\ pc[r] \in {"idle", "session"} => copy[r] = "none"
    /\ pc[r] = "idle" => ~wrote[r]
    /\ pc[r] \in {"ready", "issue"} => wrote[r]
    /\ pc[r] = "invalidate" => kind[r] \in Writers /\ wrote[r]
    /\ pc[r] \in {"uncache", "revoke", "revokeSelect"} => kind[r] \in ByToken \cup {"reset", "change"}
    /\ pc[r] \in {"uncache", "revoke", "revokeSelect"} /\ kind[r] \notin ByToken => wrote[r]
    /\ pc[r] \in {"session", "sessionSelect", "sessionFill", "retire"} => kind[r] \in ByToken
    /\ pc[r] \in {"setVerified", "setPw", "mint", "remove"} => account \in Rows
    /\ pc[r] = "setVerified" => kind[r] = "verify"
    /\ pc[r] = "remove" => kind[r] = "delete"
    /\ pc[r] = "setPw" => kind[r] \in {"reset", "change", "setInitial"}
    /\ pc[r] = "consume" => kind[r] \in ByLink
    /\ pc[r] = "issue" => kind[r] = "google"
    /\ kind[r] \in {"change", "setInitial", "profile", "delete", "onboard"} => account \in Rows
    /\ kind[r] = "onboard" => account.verified
    /\ kind[r] \in {"verify", "google"} /\ wrote[r] => account.verified

SessionInv ==
    /\ OnlyVerifiedSignIn
    /\ AlarmIsTrue
    /\ \A r \in Requests :
          /\ kind[r] \in ByToken /\ pc[r] \notin {"idle", "session"} =>
                tok[r] \in Tokens /\ sessions[tok[r]] # "none"
          /\ copy[r] # "none" => tok[r] \in Tokens /\ sessions[tok[r]] # "none"

LinkInv == \A l \in Links : wins[l] <= 1 /\ (links[l] # "used" => wins[l] = 0)

IInv == TypeOK /\ RowInv /\ StageInv /\ SessionInv /\ LinkInv

-----------------------------------------------------------------------------
(* Steps of the sets and markers the state is typed with.                     *)

LEMMA Markers ==
    /\ Nobody \notin Rows /\ NoCopy \notin Rows /\ Nobody # NoCopy
    /\ ~Nobody.verified /\ ~NoCopy.verified /\ ~Nobody.active /\ ~NoCopy.active
    /\ \A v \in BOOLEAN, p \in Passwords : /\ Fresh(v, p) \in Rows
                                             /\ Fresh(v, p).verified = v
                                             /\ Fresh(v, p).active
    /\ 0 \in Passwords
  BY IdentityAssumption DEF Nobody, NoCopy, NoRow, Rows, Passwords, Fresh

\* What the UPDATEs make of a row.
LEMMA Edits ==
  ASSUME NEW row \in Rows
  PROVE  /\ [row EXCEPT !.verified = TRUE] \in Rows /\ [row EXCEPT !.verified = TRUE].verified
         /\ \A p \in Passwords : /\ [row EXCEPT !.pw = p] \in Rows
                                 /\ [row EXCEPT !.pw = p].verified = row.verified
         /\ [row EXCEPT !.name = 1 - row.name] \in Rows
         /\ [row EXCEPT !.name = 1 - row.name].verified = row.verified
         /\ [row EXCEPT !.active = FALSE] \in Rows
         /\ [row EXCEPT !.active = FALSE].verified = row.verified
<1>1. /\ [row EXCEPT !.verified = TRUE] \in Rows /\ [row EXCEPT !.verified = TRUE].verified
      /\ [row EXCEPT !.active = FALSE] \in Rows
      /\ [row EXCEPT !.active = FALSE].verified = row.verified
  BY DEF Rows
<1>2. \A p \in Passwords : /\ [row EXCEPT !.pw = p] \in Rows
                            /\ [row EXCEPT !.pw = p].verified = row.verified
  BY DEF Rows
<1>3. 1 - row.name \in {0, 1}
  BY DEF Rows
<1>4. \A n \in {0, 1} : /\ [row EXCEPT !.name = n] \in Rows
                         /\ [row EXCEPT !.name = n].verified = row.verified
  BY DEF Rows
<1> QED BY <1>1, <1>2, <1>3, <1>4

\* Whatever row an INSERT commits.
LEMMA InsertKeeps ==
  ASSUME IInv, NEW r \in Requests, NEW row \in Rows, Insert(r, row),
         kind[r] \in {"register", "invite", "google"}, kind[r] = "google" => row.verified,
         UNCHANGED wins,
         \/ UNCHANGED links
         \/ \E l \in Links : links[l] = "free" /\ links' = [links EXCEPT ![l] = "verify"]
  PROVE  IInv'
<1> USE IdentityAssumption, Markers DEF IInv, Insert, Wrote, Goto, cacheVars, sessionVars
<1>1. TypeOK'
  BY DEF TypeOK, Steps
<1>2. RowInv'
  BY DEF TypeOK, RowInv, Behind
<1>3. StageInv'
  BY DEF TypeOK, StageInv, ByToken, ByLink, Writers
<1>4. SessionInv'
  BY DEF TypeOK, SessionInv, OnlyVerifiedSignIn, AlarmIsTrue, ByToken
<1>5. LinkInv'
  BY DEF TypeOK, LinkInv
<1> QED BY <1>1, <1>2, <1>3, <1>4, <1>5

\* Whatever row an UPDATE commits by itself.
LEMMA UpdateKeeps ==
  ASSUME IInv, NEW r \in Requests, NEW row \in Rows,
         NEW next \in {"invalidate", "revokeSelect"}, Update(r, row, next),
         account \in Rows, account.verified => row.verified, kind[r] \in Writers,
         next = "revokeSelect" => kind[r] \in {"reset", "change"},
         kind[r] \in {"verify", "google"} => row.verified,
         UNCHANGED seen \/ seen' = [seen EXCEPT ![r] = row]
  PROVE  IInv'
<1> USE IdentityAssumption, Markers DEF IInv, Update, Wrote, Goto, cacheVars, sessionVars, linkVars
<1>1. TypeOK'
  BY DEF TypeOK, Steps
<1>2. RowInv'
  BY DEF TypeOK, RowInv, Behind
<1>3. StageInv'
  BY DEF TypeOK, StageInv, ByToken, ByLink, Writers
<1>4. SessionInv'
  BY DEF TypeOK, SessionInv, OnlyVerifiedSignIn, AlarmIsTrue, ByToken, Writers
<1>5. LinkInv'
  BY DEF TypeOK, LinkInv
<1> QED BY <1>1, <1>2, <1>3, <1>4, <1>5

\* Whatever row an UPDATE leaves in the request's transaction.
LEMMA DraftKeeps ==
  ASSUME IInv, NEW r \in Requests, NEW row \in Rows, UpdateDraft(r, row),
         account \in Rows, account.verified => row.verified, kind[r] \in {"profile", "delete"}
  PROVE  IInv'
<1> USE IdentityAssumption, Markers DEF IInv, UpdateDraft, Wrote, Goto, cacheVars, sessionVars, linkVars
<1>1. TypeOK'
  BY DEF TypeOK, Steps
<1>2. RowInv'
  BY DEF TypeOK, RowInv, Behind
<1>3. StageInv'
  BY DEF TypeOK, StageInv, ByToken, ByLink, Writers
<1>4. SessionInv'
  BY DEF TypeOK, SessionInv, OnlyVerifiedSignIn, AlarmIsTrue, ByToken
<1>5. LinkInv'
  BY DEF TypeOK, LinkInv
<1> QED BY <1>1, <1>2, <1>3, <1>4, <1>5

\* What a request drops when it ends.
LEMMA EndTypes ==
  ASSUME TypeOK, NEW r \in Requests, End(r)
  PROVE  /\ sent' \in 0..MaxSent /\ kind' \in [Requests -> Kinds] /\ pc' \in [Requests -> Steps]
         /\ wrote' \in [Requests -> BOOLEAN]
         /\ seen' \in [Requests -> Rows \cup {Nobody, NoCopy}]
         /\ tok' \in [Requests -> Tokens \cup {NoToken}]
         /\ copy' \in [Requests -> States]
         /\ doomed' \in [Requests -> SUBSET Tokens]
  BY DEF End, Goto, TypeOK, Kinds, ById, Steps, States

LEMMA InitIInv == Init => IInv
<1> SUFFICES ASSUME Init PROVE IInv OBVIOUS
<1> USE IdentityAssumption, Markers DEF Init
<1>1. account \in Rows \cup {Nobody} /\ userKey \in {NoCopy, account} /\ Behind(userKey)
  BY DEF Behind
<1>2. TypeOK
  BY <1>1 DEF TypeOK, States, Kinds, ById, Steps
<1>3. RowInv /\ StageInv /\ LinkInv
  BY <1>1 DEF RowInv, Behind, StageInv, LinkInv
<1>4. SessionInv
  BY DEF SessionInv, OnlyVerifiedSignIn, AlarmIsTrue
<1> QED BY <1>1, <1>2, <1>3, <1>4 DEF IInv

-----------------------------------------------------------------------------
(* The account, its transactions and its emailed links.                       *)

LEMMA RegisterKeeps == ASSUME IInv, NEW r \in Requests, Register(r) PROVE IInv'
  BY Markers, InsertKeeps DEF Register, InsertUnverified, linkVars

LEMMA InviteKeeps == ASSUME IInv, NEW r \in Requests, Invite(r) PROVE IInv'
  BY Markers, InsertKeeps DEF Invite, InsertUnverified

LEMMA GoogleCreateKeeps == ASSUME IInv, NEW r \in Requests, GoogleCreate(r) PROVE IInv'
  BY Markers, InsertKeeps DEF GoogleCreate, linkVars

LEMMA EmailTakenKeeps == ASSUME IInv, NEW r \in Requests, EmailTaken(r) PROVE IInv'
<1> USE IdentityAssumption, Markers DEF IInv, EmailTaken, Goto, rowVars, cacheVars, sessionVars, linkVars, localVars
<1>1. TypeOK'
  BY DEF End, TypeOK, RowInv, StageInv, SessionInv, Behind, States, Kinds, ByEmail, ById, ByToken, ByLink, Direct, Steps, Writers
<1>2. RowInv'
  BY DEF End, TypeOK, RowInv, StageInv, Behind, ByLink
<1>3. StageInv'
  BY DEF End, TypeOK, RowInv, StageInv, SessionInv, Behind, OnlyVerifiedSignIn, ByToken, ByLink, Kinds, ById, ByEmail, Direct, Writers
<1>4. SessionInv'
  BY DEF End, TypeOK, RowInv, StageInv, SessionInv, Behind, OnlyVerifiedSignIn, AlarmIsTrue, ByToken, ByLink, Kinds, ById, ByEmail, Direct, Writers
<1>5. LinkInv'
  BY DEF End, TypeOK, StageInv, LinkInv, ByLink
<1> QED BY <1>1, <1>2, <1>3, <1>4, <1>5

LEMMA GoogleLinkKeeps == ASSUME IInv, NEW r \in Requests, GoogleLink(r) PROVE IInv'
<1>1. account \in Rows
  BY DEF GoogleLink, IInv, RowInv, Behind
<1> QED BY <1>1, Edits, UpdateKeeps DEF GoogleLink, Update, Writers

LEMMA SetVerifiedKeeps == ASSUME IInv, NEW r \in Requests, SetVerified(r) PROVE IInv'
<1>1. account \in Rows /\ kind[r] = "verify"
  BY DEF SetVerified, IInv, StageInv
<1> QED BY <1>1, Edits, UpdateKeeps DEF SetVerified, Writers

LEMMA CheckPasswordKeeps == ASSUME IInv, NEW r \in Requests, CheckPassword(r) PROVE IInv'
<1> USE IdentityAssumption, Markers DEF IInv, CheckPassword, Goto, rowVars, cacheVars, sessionVars, linkVars, localVars
<1>1. TypeOK'
  BY DEF TypeOK, RowInv, StageInv, SessionInv, Behind, States, Kinds, ByEmail, ById, ByToken, ByLink, Direct, Steps, Writers
<1>2. RowInv'
  BY DEF TypeOK, RowInv, StageInv, Behind, ByLink
<1>3. StageInv'
  BY DEF TypeOK, RowInv, StageInv, SessionInv, Behind, OnlyVerifiedSignIn, ByToken, ByLink, Kinds, ById, ByEmail, Direct, Writers
<1>4. SessionInv'
  BY DEF TypeOK, RowInv, StageInv, SessionInv, Behind, OnlyVerifiedSignIn, AlarmIsTrue, ByToken, ByLink, Kinds, ById, ByEmail, Direct, Writers
<1>5. LinkInv'
  BY DEF TypeOK, StageInv, LinkInv, ByLink
<1> QED BY <1>1, <1>2, <1>3, <1>4, <1>5

LEMMA SetPasswordKeeps == ASSUME IInv, NEW r \in Requests, SetPassword(r) PROVE IInv'
<1>1. account \in Rows /\ kind[r] \in {"reset", "change", "setInitial"}
  BY DEF SetPassword, IInv, StageInv
<1> QED BY <1>1, Edits, UpdateKeeps DEF SetPassword, Writers

LEMMA OnboardKeeps == ASSUME IInv, NEW r \in Requests, Onboard(r) PROVE IInv'
<1>1. account \in Rows
  BY DEF Onboard, IInv, StageInv
<1> QED BY <1>1, UpdateKeeps DEF Onboard, Writers

LEMMA UpdateProfileKeeps == ASSUME IInv, NEW r \in Requests, UpdateProfile(r) PROVE IInv'
<1>1. account \in Rows
  BY DEF UpdateProfile, IInv, StageInv
<1>2. UpdateDraft(r, [account EXCEPT !.name = 1 - account.name]) /\ kind[r] = "profile"
  BY DEF UpdateProfile
<1>3. /\ [account EXCEPT !.name = 1 - account.name] \in Rows
      /\ [account EXCEPT !.name = 1 - account.name].verified = account.verified
  BY <1>1, Edits
<1> QED BY <1>1, <1>2, <1>3, DraftKeeps

LEMMA CheckDeleteKeeps == ASSUME IInv, NEW r \in Requests, CheckDelete(r) PROVE IInv'
<1> USE IdentityAssumption, Markers DEF IInv, CheckDelete, Goto, rowVars, cacheVars, sessionVars, linkVars, localVars
<1>1. TypeOK'
  BY DEF TypeOK, RowInv, StageInv, SessionInv, Behind, States, Kinds, ByEmail, ById, ByToken, ByLink, Direct, Steps, Writers
<1>2. RowInv'
  BY DEF TypeOK, RowInv, StageInv, Behind, ByLink
<1>3. StageInv'
  BY DEF TypeOK, RowInv, StageInv, SessionInv, Behind, OnlyVerifiedSignIn, ByToken, ByLink, Kinds, ById, ByEmail, Direct, Writers
<1>4. SessionInv'
  BY DEF TypeOK, RowInv, StageInv, SessionInv, Behind, OnlyVerifiedSignIn, AlarmIsTrue, ByToken, ByLink, Kinds, ById, ByEmail, Direct, Writers
<1>5. LinkInv'
  BY DEF TypeOK, StageInv, LinkInv, ByLink
<1> QED BY <1>1, <1>2, <1>3, <1>4, <1>5

LEMMA RemoveKeeps == ASSUME IInv, NEW r \in Requests, Remove(r) PROVE IInv'
<1>1. account \in Rows /\ kind[r] = "delete"
  BY DEF Remove, IInv, StageInv
<1> QED BY <1>1, Edits, DraftKeeps DEF Remove

LEMMA CommitKeeps == ASSUME IInv, NEW r \in Requests, Commit(r) PROVE IInv'
<1> USE IdentityAssumption, Markers DEF IInv, Commit, Goto, rowVars, cacheVars, sessionVars, linkVars, localVars
<1>1. TypeOK'
  BY DEF End, TypeOK, RowInv, StageInv, SessionInv, Behind, States, Kinds, ByEmail, ById, ByToken, ByLink, Direct, Steps, Writers
<1>2. RowInv'
  BY DEF End, TypeOK, RowInv, StageInv, Behind, ByLink
<1>3. StageInv'
  BY DEF End, TypeOK, RowInv, StageInv, SessionInv, Behind, OnlyVerifiedSignIn, ByToken, ByLink, Kinds, ById, ByEmail, Direct, Writers
<1>4. SessionInv'
  BY DEF End, TypeOK, RowInv, StageInv, SessionInv, Behind, OnlyVerifiedSignIn, AlarmIsTrue, ByToken, ByLink, Kinds, ById, ByEmail, Direct, Writers
<1>5. LinkInv'
  BY DEF End, TypeOK, StageInv, LinkInv, ByLink
<1> QED BY <1>1, <1>2, <1>3, <1>4, <1>5

LEMMA RollBackKeeps == ASSUME IInv, NEW r \in Requests, RollBack(r) PROVE IInv'
<1> USE IdentityAssumption, Markers DEF IInv, RollBack, Goto, rowVars, cacheVars, sessionVars, linkVars, localVars
<1>1. TypeOK'
  BY DEF End, TypeOK, RowInv, StageInv, SessionInv, Behind, States, Kinds, ByEmail, ById, ByToken, ByLink, Direct, Steps, Writers
<1>2. RowInv'
  BY DEF End, TypeOK, RowInv, StageInv, Behind, ByLink
<1>3. StageInv'
  BY DEF End, TypeOK, RowInv, StageInv, SessionInv, Behind, OnlyVerifiedSignIn, ByToken, ByLink, Kinds, ById, ByEmail, Direct, Writers
<1>4. SessionInv'
  BY DEF End, TypeOK, RowInv, StageInv, SessionInv, Behind, OnlyVerifiedSignIn, AlarmIsTrue, ByToken, ByLink, Kinds, ById, ByEmail, Direct, Writers
<1>5. LinkInv'
  BY DEF End, TypeOK, StageInv, LinkInv, ByLink
<1> QED BY <1>1, <1>2, <1>3, <1>4, <1>5

LEMMA ConsumeKeeps == ASSUME IInv, NEW r \in Requests, Consume(r) PROVE IInv'
<1> USE IdentityAssumption, Markers DEF IInv, Consume, Goto, rowVars, cacheVars, sessionVars, linkVars, localVars
<1>1. TypeOK'
  BY DEF Consumable, TypeOK, RowInv, StageInv, SessionInv, Behind, States, Kinds, ByEmail, ById, ByToken, ByLink, Direct, Steps, Writers
<1>2. RowInv'
  BY DEF Consumable, TypeOK, RowInv, StageInv, Behind, ByLink
<1>3. StageInv'
  BY DEF Consumable, TypeOK, RowInv, StageInv, SessionInv, Behind, OnlyVerifiedSignIn, ByToken, ByLink, Kinds, ById, ByEmail, Direct, Writers
<1>4. SessionInv'
  BY DEF Consumable, TypeOK, RowInv, StageInv, SessionInv, Behind, OnlyVerifiedSignIn, AlarmIsTrue, ByToken, ByLink, Kinds, ById, ByEmail, Direct, Writers
<1>5. LinkInv'
  BY DEF Consumable, TypeOK, StageInv, LinkInv, ByLink
<1> QED BY <1>1, <1>2, <1>3, <1>4, <1>5

LEMMA BurnKeeps == ASSUME IInv, NEW r \in Requests, Burn(r) PROVE IInv'
<1> USE IdentityAssumption, Markers DEF IInv, Burn, Goto, rowVars, cacheVars, sessionVars, linkVars, localVars
<1>1. TypeOK'
  BY DEF TypeOK, RowInv, StageInv, SessionInv, Behind, States, Kinds, ByEmail, ById, ByToken, ByLink, Direct, Steps, Writers
<1>2. RowInv'
  BY DEF TypeOK, RowInv, StageInv, Behind, ByLink
<1>3. StageInv'
  BY DEF TypeOK, RowInv, StageInv, SessionInv, Behind, OnlyVerifiedSignIn, ByToken, ByLink, Kinds, ById, ByEmail, Direct, Writers
<1>4. SessionInv'
  BY DEF TypeOK, RowInv, StageInv, SessionInv, Behind, OnlyVerifiedSignIn, AlarmIsTrue, ByToken, ByLink, Kinds, ById, ByEmail, Direct, Writers
<1>5. LinkInv'
  BY DEF TypeOK, StageInv, LinkInv, ByLink
<1> QED BY <1>1, <1>2, <1>3, <1>4, <1>5

LEMMA MintKeeps == ASSUME IInv, NEW r \in Requests, Mint(r) PROVE IInv'
<1> USE IdentityAssumption, Markers DEF IInv, Mint, Goto, rowVars, cacheVars, sessionVars, linkVars, localVars
<1>1. TypeOK'
  BY DEF End, TypeOK, RowInv, StageInv, SessionInv, Behind, States, Kinds, ByEmail, ById, ByToken, ByLink, Direct, Steps, Writers
<1>2. RowInv'
  BY DEF End, TypeOK, RowInv, StageInv, Behind, ByLink
<1>3. StageInv'
  BY DEF End, TypeOK, RowInv, StageInv, SessionInv, Behind, OnlyVerifiedSignIn, ByToken, ByLink, Kinds, ById, ByEmail, Direct, Writers
<1>4. SessionInv'
  BY DEF End, TypeOK, RowInv, StageInv, SessionInv, Behind, OnlyVerifiedSignIn, AlarmIsTrue, ByToken, ByLink, Kinds, ById, ByEmail, Direct, Writers
<1>5. LinkInv'
  BY DEF End, TypeOK, StageInv, LinkInv, ByLink
<1> QED BY <1>1, <1>2, <1>3, <1>4, <1>5

-----------------------------------------------------------------------------
(* The copies of the row.                                                     *)

LEMMA EmailKeyHitKeeps == ASSUME IInv, NEW r \in Requests, EmailKeyHit(r) PROVE IInv'
<1> USE IdentityAssumption, Markers DEF IInv, EmailKeyHit, Goto, rowVars, cacheVars, sessionVars, linkVars, localVars
<1>1. TypeOK'
  BY DEF TypeOK, RowInv, StageInv, SessionInv, Behind, States, Kinds, ByEmail, ById, ByToken, ByLink, Direct, Steps, Writers
<1>2. RowInv'
  BY DEF TypeOK, RowInv, StageInv, Behind, ByLink
<1>3. StageInv'
  BY DEF TypeOK, RowInv, StageInv, SessionInv, Behind, OnlyVerifiedSignIn, ByToken, ByLink, Kinds, ById, ByEmail, Direct, Writers
<1>4. SessionInv'
  BY DEF TypeOK, RowInv, StageInv, SessionInv, Behind, OnlyVerifiedSignIn, AlarmIsTrue, ByToken, ByLink, Kinds, ById, ByEmail, Direct, Writers
<1>5. LinkInv'
  BY DEF TypeOK, StageInv, LinkInv, ByLink
<1> QED BY <1>1, <1>2, <1>3, <1>4, <1>5

LEMMA UserKeyHitKeeps == ASSUME IInv, NEW r \in Requests, UserKeyHit(r) PROVE IInv'
<1> USE IdentityAssumption, Markers DEF IInv, UserKeyHit, Goto, rowVars, cacheVars, sessionVars, linkVars, localVars
<1>1. TypeOK'
  BY DEF Return, TypeOK, RowInv, StageInv, SessionInv, Behind, States, Kinds, ByEmail, ById, ByToken, ByLink, Direct, Steps, Writers
<1>2. RowInv'
  BY DEF Return, TypeOK, RowInv, StageInv, Behind, ByLink
<1>3. StageInv'
  BY DEF Return, TypeOK, RowInv, StageInv, SessionInv, Behind, OnlyVerifiedSignIn, ByToken, ByLink, Kinds, ById, ByEmail, Direct, Writers
<1>4. SessionInv'
  BY DEF Return, TypeOK, RowInv, StageInv, SessionInv, Behind, OnlyVerifiedSignIn, AlarmIsTrue, ByToken, ByLink, Kinds, ById, ByEmail, Direct, Writers
<1>5. LinkInv'
  BY DEF Return, TypeOK, StageInv, LinkInv, ByLink
<1> QED BY <1>1, <1>2, <1>3, <1>4, <1>5

LEMMA CacheMissKeeps == ASSUME IInv, NEW r \in Requests, CacheMiss(r) PROVE IInv'
<1> USE IdentityAssumption, Markers DEF IInv, CacheMiss, Goto, rowVars, cacheVars, sessionVars, linkVars, localVars
<1>1. TypeOK'
  BY DEF TypeOK, RowInv, StageInv, SessionInv, Behind, States, Kinds, ByEmail, ById, ByToken, ByLink, Direct, Steps, Writers
<1>2. RowInv'
  BY DEF TypeOK, RowInv, StageInv, Behind, ByLink
<1>3. StageInv'
  BY DEF TypeOK, RowInv, StageInv, SessionInv, Behind, OnlyVerifiedSignIn, ByToken, ByLink, Kinds, ById, ByEmail, Direct, Writers
<1>4. SessionInv'
  BY DEF TypeOK, RowInv, StageInv, SessionInv, Behind, OnlyVerifiedSignIn, AlarmIsTrue, ByToken, ByLink, Kinds, ById, ByEmail, Direct, Writers
<1>5. LinkInv'
  BY DEF TypeOK, StageInv, LinkInv, ByLink
<1> QED BY <1>1, <1>2, <1>3, <1>4, <1>5

LEMMA SelectUserKeeps == ASSUME IInv, NEW r \in Requests, SelectUser(r) PROVE IInv'
<1> USE IdentityAssumption, Markers DEF IInv, SelectUser, Goto, rowVars, cacheVars, sessionVars, linkVars, localVars
<1>1. TypeOK'
  BY DEF TypeOK, RowInv, StageInv, SessionInv, Behind, States, Kinds, ByEmail, ById, ByToken, ByLink, Direct, Steps, Writers
<1>2. RowInv'
  BY DEF TypeOK, RowInv, StageInv, Behind, ByLink
<1>3. StageInv'
  BY DEF TypeOK, RowInv, StageInv, SessionInv, Behind, OnlyVerifiedSignIn, ByToken, ByLink, Kinds, ById, ByEmail, Direct, Writers
<1>4. SessionInv'
  BY DEF TypeOK, RowInv, StageInv, SessionInv, Behind, OnlyVerifiedSignIn, AlarmIsTrue, ByToken, ByLink, Kinds, ById, ByEmail, Direct, Writers
<1>5. LinkInv'
  BY DEF TypeOK, StageInv, LinkInv, ByLink
<1> QED BY <1>1, <1>2, <1>3, <1>4, <1>5

LEMMA FillUserKeeps == ASSUME IInv, NEW r \in Requests, FillUser(r) PROVE IInv'
<1> USE IdentityAssumption, Markers DEF IInv, FillUser, Goto, rowVars, cacheVars, sessionVars, linkVars, localVars
<1>1. TypeOK'
  BY DEF Return, TypeOK, RowInv, StageInv, SessionInv, Behind, States, Kinds, ByEmail, ById, ByToken, ByLink, Direct, Steps, Writers
<1>2. RowInv'
  BY DEF Return, TypeOK, RowInv, StageInv, Behind, ByLink
<1>3. StageInv'
  BY DEF Return, TypeOK, RowInv, StageInv, SessionInv, Behind, OnlyVerifiedSignIn, ByToken, ByLink, Kinds, ById, ByEmail, Direct, Writers
<1>4. SessionInv'
  BY DEF Return, TypeOK, RowInv, StageInv, SessionInv, Behind, OnlyVerifiedSignIn, AlarmIsTrue, ByToken, ByLink, Kinds, ById, ByEmail, Direct, Writers
<1>5. LinkInv'
  BY DEF Return, TypeOK, StageInv, LinkInv, ByLink
<1> QED BY <1>1, <1>2, <1>3, <1>4, <1>5

LEMMA InvalidateUserKeeps == ASSUME IInv, NEW r \in Requests, InvalidateUser(r) PROVE IInv'
<1> USE IdentityAssumption, Markers DEF IInv, InvalidateUser, Goto, rowVars, cacheVars, sessionVars, linkVars, localVars
<1>1. TypeOK'
  <2>1. emailKey' \in {"none", "null", "id"} /\ userKey' \in Rows \cup {NoCopy}
    BY DEF TypeOK
  <2>2. CASE kind[r] \in {"invite", "reset", "change", "setInitial"}
    BY <2>1, <2>2, EndTypes DEF TypeOK
  <2>3. CASE kind[r] \notin {"invite", "reset", "change", "setInitial"}
    <3>1. kind[r] \in {"register", "verify", "onboard", "profile", "google", "delete"}
      BY <2>3 DEF StageInv, Writers
    <3>2. pc' \in [Requests -> Steps] /\ UNCHANGED <<sent, kind, wrote, seen, tok, copy, doomed>>
      BY <2>3, <3>1 DEF TypeOK, Steps
    <3> QED BY <2>1, <3>2 DEF TypeOK
  <2> QED BY <2>2, <2>3
<1>2. RowInv'
  BY DEF End, Writers, TypeOK, RowInv, StageInv, Behind, ByLink
<1>3. StageInv'
  BY DEF End, Writers, TypeOK, RowInv, StageInv, SessionInv, Behind, OnlyVerifiedSignIn, ByToken, ByLink, Kinds, ById, ByEmail, Direct, Writers
<1>4. SessionInv'
  BY DEF End, Writers, TypeOK, RowInv, StageInv, SessionInv, Behind, OnlyVerifiedSignIn, AlarmIsTrue, ByToken, ByLink, Kinds, ById, ByEmail, Direct, Writers
<1>5. LinkInv'
  BY DEF End, Writers, TypeOK, StageInv, LinkInv, ByLink
<1> QED BY <1>1, <1>2, <1>3, <1>4, <1>5

-----------------------------------------------------------------------------
(* The refresh tokens.                                                        *)

LEMMA IssueTokensKeeps == ASSUME IInv, NEW r \in Requests, IssueTokens(r) PROVE IInv'
<1> USE IdentityAssumption, Markers DEF IInv, IssueTokens, Goto, rowVars, cacheVars, sessionVars, linkVars, localVars
<1>1. TypeOK'
  BY DEF NewSession, MayLogIn, End, TypeOK, RowInv, StageInv, SessionInv, Behind, States, Kinds, ByEmail, ById, ByToken, ByLink, Direct, Steps, Writers
<1>2. RowInv'
  BY DEF NewSession, MayLogIn, End, TypeOK, RowInv, StageInv, Behind, ByLink
<1>3. StageInv'
  BY DEF NewSession, MayLogIn, End, TypeOK, RowInv, StageInv, SessionInv, Behind, OnlyVerifiedSignIn, ByToken, ByLink, Kinds, ById, ByEmail, Direct, Writers
<1>4. SessionInv'
  BY DEF NewSession, MayLogIn, End, TypeOK, RowInv, StageInv, SessionInv, Behind, OnlyVerifiedSignIn, AlarmIsTrue, ByToken, ByLink, Kinds, ById, ByEmail, Direct, Writers
<1>5. LinkInv'
  BY DEF NewSession, MayLogIn, End, TypeOK, StageInv, LinkInv, ByLink
<1> QED BY <1>1, <1>2, <1>3, <1>4, <1>5

LEMMA PresentTokenKeeps == ASSUME IInv, NEW r \in Requests, PresentToken(r) PROVE IInv'
<1> USE IdentityAssumption, Markers DEF IInv, PresentToken, Goto, rowVars, cacheVars, sessionVars, linkVars, localVars
<1>1. TypeOK'
  BY DEF TypeOK, RowInv, StageInv, SessionInv, Behind, States, Kinds, ByEmail, ById, ByToken, ByLink, Direct, Steps, Writers
<1>2. RowInv'
  BY DEF TypeOK, RowInv, StageInv, Behind, ByLink
<1>3. StageInv'
  BY DEF TypeOK, RowInv, StageInv, SessionInv, Behind, OnlyVerifiedSignIn, ByToken, ByLink, Kinds, ById, ByEmail, Direct, Writers
<1>4. SessionInv'
  BY DEF TypeOK, RowInv, StageInv, SessionInv, Behind, OnlyVerifiedSignIn, AlarmIsTrue, ByToken, ByLink, Kinds, ById, ByEmail, Direct, Writers
<1>5. LinkInv'
  BY DEF TypeOK, StageInv, LinkInv, ByLink
<1> QED BY <1>1, <1>2, <1>3, <1>4, <1>5

LEMMA SelectSessionKeeps == ASSUME IInv, NEW r \in Requests, SelectSession(r) PROVE IInv'
<1> USE IdentityAssumption, Markers DEF IInv, SelectSession, Goto, rowVars, cacheVars, sessionVars, linkVars, localVars
<1>1. TypeOK'
  BY DEF TypeOK, RowInv, StageInv, SessionInv, Behind, States, Kinds, ByEmail, ById, ByToken, ByLink, Direct, Steps, Writers
<1>2. RowInv'
  BY DEF TypeOK, RowInv, StageInv, Behind, ByLink
<1>3. StageInv'
  BY DEF TypeOK, RowInv, StageInv, SessionInv, Behind, OnlyVerifiedSignIn, ByToken, ByLink, Kinds, ById, ByEmail, Direct, Writers
<1>4. SessionInv'
  BY DEF TypeOK, RowInv, StageInv, SessionInv, Behind, OnlyVerifiedSignIn, AlarmIsTrue, ByToken, ByLink, Kinds, ById, ByEmail, Direct, Writers
<1>5. LinkInv'
  BY DEF TypeOK, StageInv, LinkInv, ByLink
<1> QED BY <1>1, <1>2, <1>3, <1>4, <1>5

LEMMA FillSessionKeeps == ASSUME IInv, NEW r \in Requests, FillSession(r) PROVE IInv'
<1> USE IdentityAssumption, Markers DEF IInv, FillSession, Goto, rowVars, cacheVars, sessionVars, linkVars, localVars
<1>1. TypeOK'
  BY DEF TypeOK, RowInv, StageInv, SessionInv, Behind, States, Kinds, ByEmail, ById, ByToken, ByLink, Direct, Steps, Writers
<1>2. RowInv'
  BY DEF TypeOK, RowInv, StageInv, Behind, ByLink
<1>3. StageInv'
  BY DEF TypeOK, RowInv, StageInv, SessionInv, Behind, OnlyVerifiedSignIn, ByToken, ByLink, Kinds, ById, ByEmail, Direct, Writers
<1>4. SessionInv'
  BY DEF TypeOK, RowInv, StageInv, SessionInv, Behind, OnlyVerifiedSignIn, AlarmIsTrue, ByToken, ByLink, Kinds, ById, ByEmail, Direct, Writers
<1>5. LinkInv'
  BY DEF TypeOK, StageInv, LinkInv, ByLink
<1> QED BY <1>1, <1>2, <1>3, <1>4, <1>5

LEMMA RotateKeeps == ASSUME IInv, NEW r \in Requests, Rotate(r) PROVE IInv'
<1> USE IdentityAssumption, Markers DEF IInv, Rotate, Goto, rowVars, cacheVars, sessionVars, linkVars, localVars
<1>1. TypeOK'
  BY DEF NewSession, TypeOK, RowInv, StageInv, SessionInv, Behind, States, Kinds, ByEmail, ById, ByToken, ByLink, Direct, Steps, Writers
<1>2. RowInv'
  BY DEF NewSession, TypeOK, RowInv, StageInv, Behind, ByLink
<1>3. StageInv'
  BY DEF NewSession, TypeOK, RowInv, StageInv, SessionInv, Behind, OnlyVerifiedSignIn, ByToken, ByLink, Kinds, ById, ByEmail, Direct, Writers
<1>4. SessionInv'
  BY DEF NewSession, TypeOK, RowInv, StageInv, SessionInv, Behind, OnlyVerifiedSignIn, AlarmIsTrue, ByToken, ByLink, Kinds, ById, ByEmail, Direct, Writers
<1>5. LinkInv'
  BY DEF NewSession, TypeOK, StageInv, LinkInv, ByLink
<1> QED BY <1>1, <1>2, <1>3, <1>4, <1>5

LEMMA ReuseDetectedKeeps == ASSUME IInv, NEW r \in Requests, ReuseDetected(r) PROVE IInv'
<1> USE IdentityAssumption, Markers DEF IInv, ReuseDetected, Goto, rowVars, cacheVars, sessionVars, linkVars, localVars
<1>1. TypeOK'
  BY DEF TypeOK, RowInv, StageInv, SessionInv, Behind, States, Kinds, ByEmail, ById, ByToken, ByLink, Direct, Steps, Writers
<1>2. RowInv'
  BY DEF TypeOK, RowInv, StageInv, Behind, ByLink
<1>3. StageInv'
  BY DEF TypeOK, RowInv, StageInv, SessionInv, Behind, OnlyVerifiedSignIn, ByToken, ByLink, Kinds, ById, ByEmail, Direct, Writers
<1>4. SessionInv'
  BY DEF TypeOK, RowInv, StageInv, SessionInv, Behind, OnlyVerifiedSignIn, AlarmIsTrue, ByToken, ByLink, Kinds, ById, ByEmail, Direct, Writers
<1>5. LinkInv'
  BY DEF TypeOK, StageInv, LinkInv, ByLink
<1> QED BY <1>1, <1>2, <1>3, <1>4, <1>5

LEMMA RetireKeeps == ASSUME IInv, NEW r \in Requests, Retire(r) PROVE IInv'
<1> USE IdentityAssumption, Markers DEF IInv, Retire, Goto, rowVars, cacheVars, sessionVars, linkVars, localVars
<1>1. TypeOK'
  BY DEF TypeOK, RowInv, StageInv, SessionInv, Behind, States, Kinds, ByEmail, ById, ByToken, ByLink, Direct, Steps, Writers
<1>2. RowInv'
  BY DEF TypeOK, RowInv, StageInv, Behind, ByLink
<1>3. StageInv'
  BY DEF TypeOK, RowInv, StageInv, SessionInv, Behind, OnlyVerifiedSignIn, ByToken, ByLink, Kinds, ById, ByEmail, Direct, Writers
<1>4. SessionInv'
  BY DEF TypeOK, RowInv, StageInv, SessionInv, Behind, OnlyVerifiedSignIn, AlarmIsTrue, ByToken, ByLink, Kinds, ById, ByEmail, Direct, Writers
<1>5. LinkInv'
  BY DEF TypeOK, StageInv, LinkInv, ByLink
<1> QED BY <1>1, <1>2, <1>3, <1>4, <1>5

LEMMA SelectRevocableKeeps == ASSUME IInv, NEW r \in Requests, SelectRevocable(r) PROVE IInv'
<1> USE IdentityAssumption, Markers DEF IInv, SelectRevocable, Goto, rowVars, cacheVars, sessionVars, linkVars, localVars
<1>1. TypeOK'
  BY DEF Revocable, TypeOK, RowInv, StageInv, SessionInv, Behind, States, Kinds, ByEmail, ById, ByToken, ByLink, Direct, Steps, Writers
<1>2. RowInv'
  BY DEF Revocable, TypeOK, RowInv, StageInv, Behind, ByLink
<1>3. StageInv'
  BY DEF Revocable, TypeOK, RowInv, StageInv, SessionInv, Behind, OnlyVerifiedSignIn, ByToken, ByLink, Kinds, ById, ByEmail, Direct, Writers
<1>4. SessionInv'
  BY DEF Revocable, TypeOK, RowInv, StageInv, SessionInv, Behind, OnlyVerifiedSignIn, AlarmIsTrue, ByToken, ByLink, Kinds, ById, ByEmail, Direct, Writers
<1>5. LinkInv'
  BY DEF Revocable, TypeOK, StageInv, LinkInv, ByLink
<1> QED BY <1>1, <1>2, <1>3, <1>4, <1>5

LEMMA RevokeKeeps == ASSUME IInv, NEW r \in Requests, Revoke(r) PROVE IInv'
<1> USE IdentityAssumption, Markers DEF IInv, Revoke, Goto, rowVars, cacheVars, sessionVars, linkVars, localVars
<1>1. TypeOK'
  BY DEF Revocable, TypeOK, RowInv, StageInv, SessionInv, Behind, States, Kinds, ByEmail, ById, ByToken, ByLink, Direct, Steps, Writers
<1>2. RowInv'
  BY DEF Revocable, TypeOK, RowInv, StageInv, Behind, ByLink
<1>3. StageInv'
  BY DEF Revocable, TypeOK, RowInv, StageInv, SessionInv, Behind, OnlyVerifiedSignIn, ByToken, ByLink, Kinds, ById, ByEmail, Direct, Writers
<1>4. SessionInv'
  BY DEF Revocable, TypeOK, RowInv, StageInv, SessionInv, Behind, OnlyVerifiedSignIn, AlarmIsTrue, ByToken, ByLink, Kinds, ById, ByEmail, Direct, Writers
<1>5. LinkInv'
  BY DEF Revocable, TypeOK, StageInv, LinkInv, ByLink
<1> QED BY <1>1, <1>2, <1>3, <1>4, <1>5

LEMMA UncacheSessionKeeps == ASSUME IInv, NEW r \in Requests, UncacheSession(r) PROVE IInv'
<1> USE IdentityAssumption, Markers DEF IInv, UncacheSession, Goto, rowVars, cacheVars, sessionVars, linkVars, localVars
<1>1. TypeOK'
  BY DEF TypeOK, RowInv, StageInv, SessionInv, Behind, States, Kinds, ByEmail, ById, ByToken, ByLink, Direct, Steps, Writers
<1>2. RowInv'
  BY DEF TypeOK, RowInv, StageInv, Behind, ByLink
<1>3. StageInv'
  BY DEF TypeOK, RowInv, StageInv, SessionInv, Behind, OnlyVerifiedSignIn, ByToken, ByLink, Kinds, ById, ByEmail, Direct, Writers
<1>4. SessionInv'
  BY DEF TypeOK, RowInv, StageInv, SessionInv, Behind, OnlyVerifiedSignIn, AlarmIsTrue, ByToken, ByLink, Kinds, ById, ByEmail, Direct, Writers
<1>5. LinkInv'
  BY DEF TypeOK, StageInv, LinkInv, ByLink
<1> QED BY <1>1, <1>2, <1>3, <1>4, <1>5

LEMMA UncachedKeeps == ASSUME IInv, NEW r \in Requests, Uncached(r) PROVE IInv'
<1> USE IdentityAssumption, Markers DEF IInv, Uncached, Goto, rowVars, cacheVars, sessionVars, linkVars, localVars
<1>1. TypeOK'
  <2>1. CASE kind[r] \in ByToken
    BY <2>1, EndTypes DEF TypeOK
  <2>2. CASE kind[r] \notin ByToken
    BY <2>2 DEF TypeOK, Steps
  <2> QED BY <2>1, <2>2
<1>2. RowInv'
  BY DEF End, TypeOK, RowInv, StageInv, Behind, ByLink
<1>3. StageInv'
  BY DEF End, TypeOK, RowInv, StageInv, SessionInv, Behind, OnlyVerifiedSignIn, ByToken, ByLink, Kinds, ById, ByEmail, Direct, Writers
<1>4. SessionInv'
  BY DEF End, TypeOK, RowInv, StageInv, SessionInv, Behind, OnlyVerifiedSignIn, AlarmIsTrue, ByToken, ByLink, Kinds, ById, ByEmail, Direct, Writers
<1>5. LinkInv'
  BY DEF End, TypeOK, StageInv, LinkInv, ByLink
<1> QED BY <1>1, <1>2, <1>3, <1>4, <1>5

-----------------------------------------------------------------------------
(* The remaining steps, and the theorems.                                     *)

LEMMA StartKeeps == ASSUME IInv, NEW r \in Requests, NEW k \in Kinds, Start(r, k) PROVE IInv'
<1> USE IdentityAssumption, Markers DEF IInv, Start, Goto, rowVars, cacheVars, sessionVars, linkVars, localVars
<1>1. /\ FirstStep[k] \in {"email", "user", "session", "consume", "direct"}
      /\ FirstStep[k] = "session" => k \in ByToken
      /\ FirstStep[k] = "consume" => k \in ByLink
      /\ k \in ByToken => FirstStep[k] = "session"
  BY DEF FirstStep, Kinds, ByEmail, ById, ByToken, ByLink, Direct
<1>2. account.verified => account \in Rows
  BY DEF TypeOK
<1>3. TypeOK'
  BY <1>1 DEF TypeOK, Steps
<1>4. RowInv' /\ LinkInv'
  BY DEF RowInv, Behind, LinkInv
<1>5. StageInv'
  <2>1. k \in {"change", "setInitial", "profile", "delete", "onboard"} => account \in Rows
    BY <1>2 DEF TypeOK, ById, Direct
  <2>2. k = "onboard" => account.verified
    BY DEF ById
  <2>3. ~wrote[r] /\ copy[r] = "none"
    BY DEF StageInv, TypeOK
  <2> QED BY <1>1, <2>1, <2>2, <2>3 DEF TypeOK, StageInv
<1>6. SessionInv'
  BY <1>1 DEF TypeOK, SessionInv, OnlyVerifiedSignIn, AlarmIsTrue
<1> QED BY <1>3, <1>4, <1>5, <1>6

LEMMA FinishKeeps == ASSUME IInv, NEW r \in Requests, Finish(r) PROVE IInv'
<1> USE IdentityAssumption, Markers DEF IInv, Finish, rowVars, cacheVars, sessionVars, linkVars
<1>1. TypeOK'
  BY EndTypes DEF TypeOK
<1>2. RowInv' /\ LinkInv'
  BY DEF End, TypeOK, RowInv, Behind, LinkInv
<1>3. StageInv'
  BY DEF End, Goto, TypeOK, StageInv, ByToken, ByLink
<1>4. SessionInv'
  BY DEF End, Goto, TypeOK, SessionInv, OnlyVerifiedSignIn, AlarmIsTrue, ByToken
<1> QED BY <1>1, <1>2, <1>3, <1>4

LEMMA ExpiryKeeps == ASSUME IInv, KeyExpires \/ SessionKeyExpires PROVE IInv'
  BY Markers DEF IInv, KeyExpires, SessionKeyExpires, TypeOK, States, RowInv, Behind, StageInv, LinkInv,
     SessionInv, OnlyVerifiedSignIn, AlarmIsTrue, rowVars, sessionVars, linkVars, localVars

LEMMA StutterKeeps == IInv /\ UNCHANGED vars => IInv'
  BY DEF vars, IInv, TypeOK, RowInv, Behind, StageInv, LinkInv, SessionInv, OnlyVerifiedSignIn,
     AlarmIsTrue, rowVars, cacheVars, sessionVars, linkVars, localVars

LEMMA StepKeeps == IInv /\ [Next]_vars => IInv'
<1> SUFFICES ASSUME IInv, Next PROVE IInv'
  BY StutterKeeps
<1>1. ASSUME NEW r \in Requests, Account(r) PROVE IInv'
  BY <1>1, RegisterKeeps, InviteKeeps, GoogleCreateKeeps, EmailTakenKeeps, GoogleLinkKeeps, SetVerifiedKeeps, CheckPasswordKeeps, SetPasswordKeeps, OnboardKeeps, UpdateProfileKeeps, CheckDeleteKeeps, RemoveKeeps, CommitKeeps, RollBackKeeps, ConsumeKeeps, BurnKeeps, MintKeeps
     DEF Account
<1>2. ASSUME NEW r \in Requests, Lookup(r) PROVE IInv'
  BY <1>2, EmailKeyHitKeeps, UserKeyHitKeeps, CacheMissKeeps, SelectUserKeeps, FillUserKeeps, InvalidateUserKeeps
     DEF Lookup
<1>3. ASSUME NEW r \in Requests, Session(r) PROVE IInv'
  BY <1>3, IssueTokensKeeps, PresentTokenKeeps, SelectSessionKeeps, FillSessionKeeps, RotateKeeps, ReuseDetectedKeeps, RetireKeeps, SelectRevocableKeeps, RevokeKeeps, UncacheSessionKeeps, UncachedKeeps
     DEF Session
<1> QED BY <1>1, <1>2, <1>3, StartKeeps, FinishKeeps, ExpiryKeeps DEF Next

THEOREM Inductive == Spec => []IInv
  BY InitIInv, StepKeeps, PTL DEF Spec

\* Type correctness.
THEOREM TypeCorrect == Spec => []TypeOK
  BY Inductive, PTL DEF IInv

\* No sign-in path, however stale the row it looked at, opens a session for an
\* account whose address was never verified.
THEOREM VerifiedSignIn == Spec => []OnlyVerifiedSignIn
  BY Inductive, PTL DEF IInv, SessionInv

\* Reuse detection never fires on a session that is live.
THEOREM TrueAlarm == Spec => []AlarmIsTrue
  BY Inductive, PTL DEF IInv, SessionInv

\* An emailed token lets one request through.
THEOREM UsedOnce == Spec => []LinkUsedOnce
<1>1. IInv => LinkUsedOnce
  BY DEF IInv, LinkInv, LinkUsedOnce
<1> QED BY Inductive, <1>1, PTL

-----------------------------------------------------------------------------
(* Copies go stale by writes only.                                            *)

KeepsCopies ==
    /\ RowCopiesCurrent /\ UNCHANGED account => RowCopiesCurrent'
    /\ SessionCopiesCurrent /\ UNCHANGED sessions => SessionCopiesCurrent'

LEMMA AccountCopies == ASSUME IInv, NEW r \in Requests, Account(r) PROVE KeepsCopies
<1> USE Markers DEF IInv, TypeOK, KeepsCopies, RowCopiesCurrent, SessionCopiesCurrent, rowVars, cacheVars, sessionVars, linkVars, localVars
<1>1. CASE Register(r)
  BY <1>1 DEF Register, InsertUnverified, Insert, Wrote
<1>2. CASE Invite(r)
  BY <1>2 DEF Invite, InsertUnverified, Insert, Wrote
<1>3. CASE GoogleCreate(r)
  BY <1>3 DEF GoogleCreate, Insert, Wrote
<1>4. CASE EmailTaken(r)
  BY <1>4 DEF EmailTaken, End
<1>5. CASE GoogleLink(r)
  BY <1>5 DEF GoogleLink, Update, Wrote
<1>6. CASE SetVerified(r)
  BY <1>6 DEF SetVerified, Update, Wrote
<1>7. CASE CheckPassword(r)
  BY <1>7 DEF CheckPassword
<1>8. CASE SetPassword(r)
  BY <1>8 DEF SetPassword, Update, Wrote
<1>9. CASE Onboard(r)
  BY <1>9 DEF Onboard, Update, Wrote
<1>10. CASE UpdateProfile(r)
  BY <1>10 DEF UpdateProfile, UpdateDraft, Wrote
<1>11. CASE CheckDelete(r)
  BY <1>11 DEF CheckDelete
<1>12. CASE Remove(r)
  BY <1>12 DEF Remove, UpdateDraft, Wrote
<1>13. CASE Commit(r)
  BY <1>13 DEF Commit, End
<1>14. CASE RollBack(r)
  BY <1>14 DEF RollBack, End
<1>15. CASE Consume(r)
  BY <1>15 DEF Consume, Consumable
<1>16. CASE Burn(r)
  BY <1>16 DEF Burn
<1>17. CASE Mint(r)
  BY <1>17 DEF Mint, End
<1> HIDE Markers DEF IInv, TypeOK, KeepsCopies, RowCopiesCurrent, SessionCopiesCurrent, rowVars, cacheVars, sessionVars, linkVars, localVars
<1> QED BY <1>1, <1>2, <1>3, <1>4, <1>5, <1>6, <1>7, <1>8, <1>9, <1>10, <1>11, <1>12, <1>13, <1>14, <1>15, <1>16, <1>17 DEF Account

LEMMA LookupCopies == ASSUME IInv, NEW r \in Requests, Lookup(r) PROVE KeepsCopies
<1> USE Markers DEF IInv, TypeOK, KeepsCopies, RowCopiesCurrent, SessionCopiesCurrent, rowVars, cacheVars, sessionVars, linkVars, localVars
<1>1. CASE EmailKeyHit(r)
  BY <1>1 DEF EmailKeyHit
<1>2. CASE UserKeyHit(r)
  BY <1>2 DEF UserKeyHit, Return
<1>3. CASE CacheMiss(r)
  BY <1>3 DEF CacheMiss
<1>4. CASE SelectUser(r)
  BY <1>4 DEF SelectUser
<1>5. CASE FillUser(r)
  BY <1>5 DEF FillUser, Return
<1>6. CASE InvalidateUser(r)
  BY <1>6 DEF InvalidateUser, End, Writers
<1> HIDE Markers DEF IInv, TypeOK, KeepsCopies, RowCopiesCurrent, SessionCopiesCurrent, rowVars, cacheVars, sessionVars, linkVars, localVars
<1> QED BY <1>1, <1>2, <1>3, <1>4, <1>5, <1>6 DEF Lookup

LEMMA SessionCopies == ASSUME IInv, NEW r \in Requests, Session(r) PROVE KeepsCopies
<1> USE Markers DEF IInv, TypeOK, KeepsCopies, RowCopiesCurrent, SessionCopiesCurrent, rowVars, cacheVars, sessionVars, linkVars, localVars
<1>1. CASE IssueTokens(r)
  BY <1>1 DEF IssueTokens, NewSession, MayLogIn, End
<1>2. CASE PresentToken(r)
  BY <1>2 DEF PresentToken, StageInv
<1>3. CASE SelectSession(r)
  BY <1>3 DEF SelectSession, SessionInv, ByToken, StageInv
<1>4. CASE FillSession(r)
  BY <1>4 DEF FillSession, SessionInv
<1>5. CASE Rotate(r)
  BY <1>5 DEF Rotate, NewSession
<1>6. CASE ReuseDetected(r)
  BY <1>6 DEF ReuseDetected
<1>7. CASE Retire(r)
  BY <1>7 DEF Retire
<1>8. CASE SelectRevocable(r)
  BY <1>8 DEF SelectRevocable, Revocable
<1>9. CASE Revoke(r)
  BY <1>9 DEF Revoke, Revocable
<1>10. CASE UncacheSession(r)
  BY <1>10 DEF UncacheSession
<1>11. CASE Uncached(r)
  <2>1. UNCHANGED <<account, userKey, emailKey, sessions, sessionKey>>
    BY <1>11 DEF Uncached
  <2>2. /\ \A q \in Requests : seen'[q] \in {seen[q], NoCopy}
        /\ \A q \in Requests : copy'[q] = "none" \/ (copy'[q] = copy[q] /\ tok'[q] = tok[q])
    <3>1. CASE End(r)
      BY <3>1 DEF End
    <3>2. CASE UNCHANGED localVars
      BY <3>2
    <3> QED BY <1>11, <3>1, <3>2 DEF Uncached
  <2> QED BY <2>1, <2>2
<1> HIDE Markers DEF IInv, TypeOK, KeepsCopies, RowCopiesCurrent, SessionCopiesCurrent, rowVars, cacheVars, sessionVars, linkVars, localVars
<1> QED BY <1>1, <1>2, <1>3, <1>4, <1>5, <1>6, <1>7, <1>8, <1>9, <1>10, <1>11 DEF Session

LEMMA StepCopies == IInv /\ [Next]_vars => KeepsCopies
<1> SUFFICES ASSUME IInv, [Next]_vars PROVE KeepsCopies
  OBVIOUS
<1>1. CASE UNCHANGED vars
  BY <1>1 DEF vars, rowVars, cacheVars, sessionVars, localVars, KeepsCopies, RowCopiesCurrent, SessionCopiesCurrent
<1>2. ASSUME NEW r \in Requests, NEW k \in Kinds, Start(r, k) PROVE KeepsCopies
  BY <1>2 DEF Start, rowVars, cacheVars, sessionVars, localVars, KeepsCopies, RowCopiesCurrent, SessionCopiesCurrent
<1>3. ASSUME NEW r \in Requests, Finish(r) PROVE KeepsCopies
  BY <1>3 DEF Finish, End, IInv, TypeOK, rowVars, cacheVars, sessionVars, KeepsCopies, RowCopiesCurrent, SessionCopiesCurrent
<1>4. CASE KeyExpires \/ SessionKeyExpires
  BY <1>4 DEF KeyExpires, SessionKeyExpires, IInv, TypeOK, rowVars, sessionVars, localVars, KeepsCopies, RowCopiesCurrent, SessionCopiesCurrent
<1> QED BY <1>1, <1>2, <1>3, <1>4, AccountCopies, LookupCopies, SessionCopies DEF Next

\* Once current, the copies in Redis and in running requests are made stale by a
\* write of what they copy and by nothing else.
THEOREM WritesMakeStale == Spec => OnlyWritesMakeStale
<1>1. IInv /\ [Next]_vars =>
        [/\ RowCopiesCurrent /\ UNCHANGED account => RowCopiesCurrent'
         /\ SessionCopiesCurrent /\ UNCHANGED sessions => SessionCopiesCurrent']_vars
  BY StepCopies DEF KeepsCopies
<1> QED BY Inductive, <1>1, PTL DEF Spec, OnlyWritesMakeStale
=============================================================================
