------------------------------ MODULE Sessions ------------------------------
(***************************************************************************)
(* The sessions of one account (identity/service.go, httpx/auth.go):       *)
(* logging in, rotating refresh tokens, logging out, resetting a forgotten *)
(* password.                                                               *)
(*                                                                         *)
(* A refresh token is a row keyed by the id inside the signed token.  The  *)
(* holder of a token may present it at any time and more than once, so a   *)
(* rotated token's row stays, revoked, as long as its signature is valid:  *)
(* when it comes again every session of the account is revoked.  A request *)
(* is a sequence of store calls, and any other request may run in between. *)
(*                                                                         *)
(* PostgreSQL runs each statement of a transaction on what is committed    *)
(* when the statement starts (READ COMMITTED).  A statement over several   *)
(* rows is two steps: the rows it sees, and the commit that shows what     *)
(* became of them.  In between others may add rows that it has not seen.   *)
(* A row that a transaction has written is locked until it ends.           *)
(* ADMIN_EMAILS names the account, whose row may say otherwise.            *)
(***************************************************************************)
EXTENDS Integers, FiniteSets

CONSTANTS
    Requests,
    Passwords,
    MaxTokens,      \* bound: refresh tokens issued
    MaxLinks,       \* bound: reset links created
    MaxRows         \* bound: both together

Tokens == 1..MaxTokens
Links == 1..MaxLinks

ASSUME MaxTokensAssumption == MaxTokens \in Nat
ASSUME MaxLinksAssumption == MaxLinks \in Nat
ASSUME MaxRowsAssumption == MaxRows \in Nat

VARIABLES
    user,          \* the account's row: [password, admin]
    token,         \* refresh_tokens: "none", "active", "revoked" or "deleted"
    expired,       \* the number of tokens, oldest first, that have expired
    parent,        \* history: the token a session was rotated from, 0 for a login
    link,          \* password_reset_tokens: "none", "live", "expired" or "used"
    pc, arg, copy, seen, \* a request: its next call, its token or link, its copy of
                         \* the row, the links or tokens its statement saw
    presented,     \* history: the completed refreshes that presented a token
    resets,        \* history: the completed resets of a link
    late,          \* history: the logins and refreshes under way while the sessions
                   \* were being revoked, from what the statement saw to its commit
    survivor,      \* history: the sessions such a request opened, and their successors
    overwritten,   \* history: such a request has written its copy of the row
    chosen,        \* history: the password of the last completed reset
    opened,        \* history: the password that the login behind a session was given
    crossed        \* history: two requests for a link have been under way at once

rows == <<user, token, expired, parent>>
reqs == <<pc, arg, copy, seen>>
history == <<presented, resets, late, survivor, overwritten, chosen, opened, crossed>>
vars == <<rows, link, reqs, history>>

Row == [password : Passwords, admin : BOOLEAN]
NoRow == [password |-> "none", admin |-> FALSE]
Labels == {"idle", "reconcile", "issue", "rotate", "kill", "killing", "link",
           "reset", "update", "revoke", "commit"}

Init ==
    /\ user \in [password : Passwords, admin : {FALSE}]
    /\ token = [t \in Tokens |-> "none"]
    /\ expired = 0
    /\ parent = [t \in Tokens |-> 0]
    /\ link = [k \in Links |-> "none"]
    /\ pc = [r \in Requests |-> "idle"]
    /\ arg = [r \in Requests |-> 0]
    /\ copy = [r \in Requests |-> NoRow]
    /\ seen = [r \in Requests |-> {}]
    /\ presented = [t \in Tokens |-> 0]
    /\ resets = [k \in Links |-> 0]
    /\ late = {} /\ survivor = {}
    /\ overwritten = FALSE
    /\ chosen = user.password
    /\ opened = [t \in Tokens |-> chosen]
    /\ crossed = FALSE

Goto(r, l) == pc' = [pc EXCEPT ![r] = l]

\* There is room for another row.
Room == Cardinality({t \in Tokens : token[t] # "none"})
        + Cardinality({k \in Links : link[k] # "none"}) < MaxRows

\* Counting up to two is enough.
Again(n) == IF n = 0 THEN 1 ELSE 2

\* A request ends and forgets what it held.  What was late about it no longer matters.
Return(r) ==
    /\ Goto(r, "idle")
    /\ arg' = [arg EXCEPT ![r] = 0]
    /\ copy' = [copy EXCEPT ![r] = NoRow]
    /\ seen' = [seen EXCEPT ![r] = {}]
    /\ late' = late \ {r}

\* The requests that may yet store a session.
Opening == {r \in Requests : pc[r] \in {"reconcile", "rotate", "issue"}}

\* A revocation of every session is between what it saw and its commit.
Revoking == \E r \in Requests : pc[r] \in {"killing", "commit"}

\* The reset that has written the link, or the user's row, and has not committed.
LinkLocked(k) == \E r \in Requests : pc[r] \in {"update", "revoke", "commit"} /\ arg[r] = k
UserLocked == \E r \in Requests : pc[r] \in {"revoke", "commit"}

\* What is committed of a revocation: the tokens it saw, if they are active still.
Revoked(r) == [t \in Tokens |-> IF t \in seen[r] /\ token[t] = "active" THEN "revoked" ELSE token[t]]

\* The tokens a client may hold: those issued, whatever became of their row, whose
\* signature has not expired (TokenManager.Verify).
Verified == {t \in Tokens : t > expired /\ token[t] # "none"}

\* A login or a refresh begins.
Begin(r) == late' = IF Revoking THEN late \union {r} ELSE late

-----------------------------------------------------------------------------
(* Login.                                                                  *)

\* It reads the row and compares the password; then it corrects the admin flag,
\* if the configured list says otherwise, in its copy.
Login(r, password) ==
    /\ pc[r] = "idle"
    /\ user.password = password
    /\ Goto(r, IF user.admin THEN "issue" ELSE "reconcile")
    /\ copy' = [copy EXCEPT ![r] = [user EXCEPT !.admin = TRUE]]
    /\ Begin(r)
    /\ UNCHANGED <<rows, link, arg, seen,
                   presented, resets, survivor, overwritten, chosen, opened, crossed>>

\* UpdateUser writes the whole copy, the password it was read with included.
ReconcileAdmin(r) ==
    /\ pc[r] = "reconcile" /\ ~UserLocked
    /\ user' = copy[r]
    /\ overwritten' = (overwritten \/ r \in late)
    /\ Goto(r, "issue")
    /\ UNCHANGED <<token, expired, parent, link, arg, copy, seen,
                   presented, resets, late, survivor, chosen, opened, crossed>>

\* issue stores the record of a new session.  Any id not used before will do.
issue(r) ==
    /\ pc[r] = "issue" /\ Room
    /\ \E t \in Tokens :
        /\ token[t] = "none"
        /\ \A u \in Tokens : u < t => token[u] # "none"
        /\ token' = [token EXCEPT ![t] = "active"]
        /\ parent' = [parent EXCEPT ![t] = arg[r]]
        /\ survivor' = IF r \in late \/ arg[r] \in survivor THEN survivor \union {t} ELSE survivor
        /\ opened' = [opened EXCEPT ![t] = IF arg[r] = 0 THEN copy[r].password ELSE opened[arg[r]]]
    /\ Return(r)
    /\ UNCHANGED <<user, expired, link,
                   presented, resets, overwritten, chosen, crossed>>

-----------------------------------------------------------------------------
(* Refresh.                                                                *)

\* It looks the presented token up: a revoked one is a replay, an unknown one is
\* rejected, and the user's row is read before the token is rotated.
Refresh(r, t) ==
    /\ pc[r] = "idle"
    /\ t \in Verified
    /\ token[t] # "deleted"
    /\ Goto(r, IF token[t] = "revoked" THEN "kill" ELSE "rotate")
    /\ arg' = [arg EXCEPT ![r] = t]
    /\ Begin(r)
    /\ UNCHANGED <<rows, link, copy, seen,
                   presented, resets, survivor, overwritten, chosen, opened, crossed>>

\* Mutant: the token is revoked whatever its row says.
RevokeRefreshTokenAlways(r) ==
    /\ pc[r] = "rotate"
    /\ token' = [token EXCEPT ![arg[r]] = "revoked"]
    /\ presented' = [presented EXCEPT ![arg[r]] = Again(@)]
    /\ Goto(r, "issue")
    /\ UNCHANGED <<user, expired, parent, link, arg, copy, seen, resets,
                   late, survivor, overwritten, chosen, opened, crossed>>

\* The rotation is a conditional update.  Who loses it treats the token as replayed.
RevokeRefreshTokenIfActive(r) ==
    /\ pc[r] = "rotate"
    /\ \/ /\ token[arg[r]] = "active"
          /\ token' = [token EXCEPT ![arg[r]] = "revoked"]
          /\ presented' = [presented EXCEPT ![arg[r]] = Again(@)]
          /\ Goto(r, "issue")
          /\ UNCHANGED <<arg, copy, seen, late>>
       \/ /\ token[arg[r]] = "revoked"
          /\ Goto(r, "kill")
          /\ UNCHANGED <<token, presented, arg, copy, seen, late>>
       \/ /\ token[arg[r]] = "deleted"
          /\ Return(r)
          /\ UNCHANGED <<token, presented>>
    /\ UNCHANGED <<user, expired, parent, link, resets,
                   survivor, overwritten, chosen, opened, crossed>>

\* RevokeAllUserRefreshTokens, on its own for a replay and in the transaction of a
\* reset: it sees the active tokens.
RevokeAllUserRefreshTokens(r) ==
    /\ pc[r] \in {"kill", "revoke"}
    /\ Goto(r, IF pc[r] = "kill" THEN "killing" ELSE "commit")
    /\ seen' = [seen EXCEPT ![r] = {t \in Tokens : token[t] = "active"}]
    /\ late' = late \union Opening
    /\ UNCHANGED <<rows, link, arg, copy,
                   presented, resets, survivor, overwritten, chosen, opened, crossed>>

\* Mutant: a replay revokes the replayed token only.
KillFamilyOne(r) ==
    /\ pc[r] = "killing"
    /\ presented' = [presented EXCEPT ![arg[r]] = Again(@)]
    /\ Return(r)
    /\ UNCHANGED <<rows, link, resets, survivor, overwritten, chosen, opened, crossed>>

\* A replay revokes every session of the account.
KillFamily(r) ==
    /\ pc[r] = "killing"
    /\ token' = Revoked(r)
    /\ presented' = [presented EXCEPT ![arg[r]] = Again(@)]
    /\ Return(r)
    /\ UNCHANGED <<user, expired, parent, link, resets,
                   survivor, overwritten, chosen, opened, crossed>>

\* Logout revokes the presented token, if its row is there.
Logout(t) ==
    /\ t \in Verified
    /\ token[t] = "active"
    /\ token' = [token EXCEPT ![t] = "revoked"]
    /\ UNCHANGED <<user, expired, parent, link, reqs, history>>

\* Mutant: rows of revoked tokens go too.
CleanupRevoked ==
    /\ \E t \in Tokens : token[t] = "revoked"
    /\ token' = [t \in Tokens |-> IF token[t] = "revoked" \/ (token[t] # "none" /\ t <= expired)
                               THEN "deleted" ELSE token[t]]
    /\ UNCHANGED <<user, expired, parent, link, reqs, history>>

\* DeleteExpiredRefreshTokens, by the background ticker.
CleanupExpiredRefreshTokens ==
    /\ \E t \in Tokens : token[t] \in {"active", "revoked"} /\ t <= expired
    /\ token' = [t \in Tokens |-> IF token[t] # "none" /\ t <= expired THEN "deleted" ELSE token[t]]
    /\ UNCHANGED <<user, expired, parent, link, reqs, history>>

-----------------------------------------------------------------------------
(* A forgotten password.                                                   *)

\* The transaction marks the account's unused links used.  It sees the links that
\* are committed at this point.
ForgotPassword(r) ==
    /\ pc[r] = "idle"
    /\ Room /\ \E k \in Links : link[k] = "none"
    /\ Goto(r, "link")
    /\ seen' = [seen EXCEPT ![r] = {k \in Links : link[k] \in {"live", "expired"}}]
    /\ crossed' = (crossed \/ \E q \in Requests : pc[q] = "link")
    /\ UNCHANGED <<rows, link, arg, copy,
                   presented, resets, late, survivor, overwritten, chosen, opened>>

\* Mutant: the earlier links stay.
CreatePasswordResetTokenOnly(r) ==
    /\ pc[r] = "link" /\ Room
    /\ \A k \in seen[r] : ~LinkLocked(k)
    /\ \E k \in Links :
        /\ link[k] = "none"
        /\ link' = [link EXCEPT ![k] = "live"]
    /\ Return(r)
    /\ UNCHANGED <<rows, presented, resets, survivor, overwritten, chosen, opened, crossed>>

\* It inserts the new link and commits, once no reset holds a link that it marks.
CreatePasswordResetToken(r) ==
    /\ pc[r] = "link" /\ Room
    /\ \A k \in seen[r] : ~LinkLocked(k)
    /\ \E k \in Links :
        /\ link[k] = "none"
        /\ \A i \in Links : i < k => link[i] # "none"
        /\ link' = [i \in Links |-> IF i = k THEN "live"
                                    ELSE IF i \in seen[r] THEN "used" ELSE link[i]]
    /\ Return(r)
    /\ UNCHANGED <<rows, presented, resets, survivor, overwritten, chosen, opened, crossed>>

\* ResetPassword checks the link and reads the user's row.
ResetPassword(r, k, password) ==
    /\ pc[r] = "idle"
    /\ link[k] = "live"
    /\ Goto(r, "reset")
    /\ arg' = [arg EXCEPT ![r] = k]
    /\ copy' = [copy EXCEPT ![r] = [user EXCEPT !.password = password]]
    /\ UNCHANGED <<rows, link, seen, history>>

\* Mutant: the link is not looked at again.
ConsumePasswordResetTokenUnchecked(r) ==
    /\ pc[r] = "reset" /\ ~LinkLocked(arg[r])
    /\ Goto(r, "update")
    /\ UNCHANGED <<rows, link, arg, copy, seen, history>>

\* The first statement of the transaction is a conditional update, which waits for
\* another reset of the link.  If that one has used the link, nothing changes.
ConsumePasswordResetToken(r) ==
    /\ pc[r] = "reset" /\ ~LinkLocked(arg[r])
    /\ \/ /\ link[arg[r]] # "used"
          /\ Goto(r, "update")
          /\ UNCHANGED <<arg, copy, seen, late>>
       \/ /\ link[arg[r]] = "used"
          /\ Return(r)
    /\ UNCHANGED <<rows, link,
                   presented, resets, survivor, overwritten, chosen, opened, crossed>>

\* The second writes the copy over the user's row, which stays locked.
UpdateUser(r) ==
    /\ pc[r] = "update" /\ ~UserLocked
    /\ Goto(r, "revoke")
    /\ UNCHANGED <<rows, link, arg, copy, seen, history>>

\* Mutant: the sessions are left alone.
CommitResetKeepsSessions(r) ==
    /\ pc[r] = "commit"
    /\ link' = [link EXCEPT ![arg[r]] = "used"]
    /\ user' = copy[r]
    /\ resets' = [resets EXCEPT ![arg[r]] = Again(@)]
    /\ chosen' = copy[r].password
    /\ overwritten' = FALSE
    /\ Return(r)
    /\ UNCHANGED <<token, expired, parent, presented, survivor, opened, crossed>>

\* After the third, RevokeAllUserRefreshTokens, the commit shows what the three wrote.
CommitReset(r) ==
    /\ pc[r] = "commit"
    /\ link' = [link EXCEPT ![arg[r]] = "used"]
    /\ user' = copy[r]
    /\ token' = Revoked(r)
    /\ resets' = [resets EXCEPT ![arg[r]] = Again(@)]
    /\ chosen' = copy[r].password
    /\ overwritten' = FALSE
    /\ Return(r)
    /\ UNCHANGED <<expired, parent, presented, survivor, opened, crossed>>

\* A store call fails or the client goes away: the request ends there, and a
\* transaction is rolled back.
Abandon(r) ==
    /\ pc[r] # "idle"
    /\ Return(r)
    /\ UNCHANGED <<rows, link, 
                   presented, resets, survivor, overwritten, chosen, opened, crossed>>

-----------------------------------------------------------------------------

\* Time passes: the oldest token expires.
ExpireToken ==
    /\ expired < MaxTokens
    /\ token[expired + 1] # "none"
    /\ expired' = expired + 1
    /\ UNCHANGED <<user, token, parent, link, reqs, history>>

\* A link has outlived passwordResetTTL.
ExpireLink ==
    /\ \E k \in Links :
        /\ link[k] = "live"
        /\ link' = [link EXCEPT ![k] = "expired"]
    /\ UNCHANGED <<rows, reqs, history>>

handleLogin(r) ==
    \/ \E p \in Passwords : Login(r, p)
    \/ ReconcileAdmin(r)

handleRefresh(r) ==
    \/ \E t \in Tokens : Refresh(r, t)
    \/ RevokeRefreshTokenIfActive(r)
    \/ RevokeAllUserRefreshTokens(r)
    \/ KillFamily(r)

handleLogout == \E t \in Tokens : Logout(t)

handleForgotPassword(r) ==
    \/ ForgotPassword(r)
    \/ CreatePasswordResetToken(r)

handleResetPassword(r) ==
    \/ \E k \in Links, p \in Passwords : ResetPassword(r, k, p)
    \/ ConsumePasswordResetToken(r)
    \/ UpdateUser(r)
    \/ CommitReset(r)

Next ==
    \/ \E r \in Requests :
        \/ handleLogin(r) \/ handleRefresh(r) \/ issue(r)
        \/ handleForgotPassword(r) \/ handleResetPassword(r)
        \/ Abandon(r)
    \/ handleLogout
    \/ CleanupExpiredRefreshTokens
    \/ ExpireToken \/ ExpireLink

Spec == Init /\ [][Next]_vars

-----------------------------------------------------------------------------
(* Properties.                                                             *)

\* Types.
TypeOK ==
    /\ user \in Row
    /\ token \in [Tokens -> {"none", "active", "revoked", "deleted"}]
    /\ expired \in 0..MaxTokens
    /\ parent \in [Tokens -> {0} \union Tokens]
    /\ link \in [Links -> {"none", "live", "expired", "used"}]
    /\ pc \in [Requests -> Labels]
    /\ arg \in [Requests -> {0} \union Tokens \union Links]
    /\ copy \in [Requests -> Row \union {NoRow}]
    /\ seen \in [Requests -> SUBSET (Links \union Tokens)]
    /\ \A r \in Requests :
        /\ pc[r] \in {"rotate", "kill", "killing"} => arg[r] \in Tokens
        /\ pc[r] \in {"reset", "update", "revoke", "commit"} => arg[r] \in Links
        /\ pc[r] = "issue" => arg[r] \in {0} \union Tokens

\* Of the requests that present one refresh token, however they overlap, at most
\* one gets a session: the conditional update decides (Refresh).
OneSuccessor ==
    \A t \in Tokens, u, v \in Tokens :
        parent[u] = t /\ parent[v] = t => u = v

\* A set of tokens with every session that was rotated from one of them.
Closed(S) == \A u \in Tokens : parent[u] \in S => u \in S

\* The sessions rotated from t, directly or not.
Descendants(t) ==
    {u \in Tokens \ {t} : \A S \in SUBSET Tokens : t \in S /\ Closed(S) => u \in S}

\* A token that was used twice has no session left, whoever rotated it first, but
\* for one that a request under way while the sessions were being revoked stored,
\* and its successors (Refresh).
FamilyEnds ==
    \A t \in Tokens : presented[t] >= 2 =>
        \A u \in Descendants(t) : token[u] = "active" => u \in survivor

\* A rotated token can be recognised for as long as it can be presented: the
\* cleanup leaves its row (CleanupExpiredRefreshTokens).
TombstonesStay == \A t \in Verified : token[t] # "deleted"

\* A replay is recognised and ends the family (Refresh, CleanupExpiredRefreshTokens).
ReplayKillsFamily == FamilyEnds /\ TombstonesStay

\* After a reset nobody has a session that the old password opened, and the new one
\* stays, but for the logins and refreshes under way at some time between what its
\* revocation saw and its commit: they may store a session that it does not revoke,
\* or write the row they had read (ResetPassword, Login, Refresh).
OldPasswordOut ==
    ~overwritten =>
        /\ user.password = chosen
        /\ \A t \in Tokens : token[t] = "active" /\ t \notin survivor => opened[t] = chosen

\* A link resets the password once (ConsumePasswordResetToken).
OneResetPerLink == \A k \in Links : resets[k] <= 1

\* Only the newest link works, unless two requests for a link overlapped
\* (ForgotPassword).
NewestLinkOnly ==
    ~crossed => \A i, k \in Links : i < k /\ link[k] # "none" => link[i] # "live"

\* A reset link works once, and only while it is the newest (ForgotPassword,
\* ResetPassword).
ResetLinks == OneResetPerLink /\ NewestLinkOnly

=============================================================================
