--------------------------- MODULE IdentityProofs ---------------------------
(***************************************************************************)
(* Proofs about Sessions, the refresh tokens and reset links of an         *)
(* account, and Organizations, the members, invitations, projects and      *)
(* settings of an organization, for any number of requests.                *)
(***************************************************************************)
EXTENDS Sessions, Organizations, FiniteSetTheorems, TLAPS

\* A set whose members are equal has one at most (Cardinality).
LEMMA AtMostOne ==
    ASSUME NEW S, \A x, y \in S : x = y
    PROVE  IsFiniteSet(S) /\ Cardinality(S) <= 1
<1>1. CASE S = {}
  BY <1>1, FS_EmptySet
<1>2. CASE S # {}
  <2>1. PICK x \in S : TRUE
    BY <1>2
  <2>2. S = {x}
    BY <2>1
  <2>3. IsFiniteSet({x}) /\ Cardinality({x}) = 1
    BY FS_Singleton
  <2> QED
    BY <2>2, <2>3
<1> QED
  BY <1>1, <1>2

-----------------------------------------------------------------------------
(* Sessions: one successor of a refresh token, revoked rows that stay      *)
(* while they matter, one reset of a link, and only the newest link works. *)

\* A request's locals: none when it is idle, a row when it is to write one.
Locals ==
    \A r \in Requests :
        /\ pc[r] \in {"idle", "reconcile"} => arg[r] = 0
        /\ pc[r] \in {"reconcile", "reset", "update", "revoke", "commit"} => copy[r] \in Row

Gone == {"revoked", "deleted"}

\* Who rotates a token has made sure that nobody else does: the token is gone, and has no
\* successor yet.
Rotation ==
    /\ \A r \in Requests : pc[r] = "rotate" => token[arg[r]] # "none"
    /\ \A u \in Tokens : parent[u] # 0 => token[parent[u]] \in Gone
    /\ \A r \in Requests : pc[r] = "issue" /\ arg[r] # 0 =>
          token[arg[r]] \in Gone /\ \A u \in Tokens : parent[u] # arg[r]
    /\ \A q, r \in Requests : pc[q] = "issue" /\ pc[r] = "issue" /\ arg[q] = arg[r] /\ arg[r] # 0 => q = r

\* Only the rows of expired tokens are deleted.
DeletedExpired == \A t \in Tokens : token[t] = "deleted" => t <= expired

\* The transaction of a reset holds its link.
InReset == {"update", "revoke", "commit"}

\* Links are used one after the other, and a link that reset the password is used up.
LinkRows ==
    /\ resets \in [Links -> {0, 1}]
    /\ \A k \in Links : link[k] # "used" => resets[k] = 0
    /\ \A i, k \in Links : i < k /\ link[i] = "none" => link[k] = "none"
    /\ \A r \in Requests : pc[r] = "reset" => link[arg[r]] # "none"
    /\ \A r \in Requests : pc[r] = "link" => seen[r] \in SUBSET Links /\ \A k \in seen[r] : link[k] # "none"

\* A transaction that has consumed a link is the only one, and the link is not used yet.
LinkLocks ==
    /\ \A r \in Requests : pc[r] \in InReset => link[arg[r]] \in {"live", "expired"}
    /\ \A q, r \in Requests : pc[q] \in InReset /\ pc[r] \in InReset /\ arg[q] = arg[r] => q = r

\* A request for a link that has been alone has seen every live one.
Uncrossed ==
    ~crossed =>
        /\ \A q, r \in Requests : pc[q] = "link" /\ pc[r] = "link" => q = r
        /\ \A r \in Requests, k \in Links : pc[r] = "link" /\ link[k] = "live" => k \in seen[r]

Typed == TypeOK /\ Locals
Inv ==
    /\ Typed /\ Rotation /\ OneSuccessor /\ DeletedExpired
    /\ LinkRows /\ LinkLocks /\ Uncrossed /\ NewestLinkOnly

-----------------------------------------------------------------------------

\* Initially there are no tokens, links or requests (Init).
LEMMA InitInv == Init => Inv
<1> SUFFICES ASSUME Init PROVE Inv
  OBVIOUS
<1> USE MaxTokensAssumption, MaxLinksAssumption DEF Init
<1>1. Typed
  <2>1. user \in Row
    BY DEF Row
  <2>2. expired \in 0..MaxTokens
    OBVIOUS
  <2> QED
    BY <2>1, <2>2 DEF Typed, TypeOK, Locals, Labels
<1>2. Rotation /\ OneSuccessor /\ DeletedExpired
  BY DEF Rotation, OneSuccessor, DeletedExpired, Tokens
<1>3. LinkRows /\ LinkLocks /\ Uncrossed /\ NewestLinkOnly
  BY DEF LinkRows, LinkLocks, InReset, Uncrossed, NewestLinkOnly
<1> QED
  BY <1>1, <1>2, <1>3 DEF Inv

\* Every request keeps the types (Next).
LEMMA TypedStep == Typed /\ [Next]_vars => Typed'
<1> SUFFICES ASSUME Typed, [Next]_vars PROVE Typed'
  OBVIOUS
<1> USE MaxTokensAssumption, MaxLinksAssumption DEF Typed, TypeOK, Locals, Labels, Goto, rows, reqs, history
<1>1. ASSUME NEW r \in Requests, NEW p \in Passwords, Login(r, p) PROVE Typed'
  <2>1. [user EXCEPT !.admin = TRUE] \in Row
    BY DEF Row
  <2> QED
    BY <1>1, <2>1 DEF Login
<1>2. ASSUME NEW r \in Requests, ReconcileAdmin(r) PROVE Typed'
  BY <1>2 DEF ReconcileAdmin
<1>3. ASSUME NEW r \in Requests, issue(r) PROVE Typed'
  BY <1>3 DEF issue, Return
<1>4. ASSUME NEW r \in Requests, NEW t \in Tokens, Refresh(r, t) PROVE Typed'
  BY <1>4 DEF Refresh
<1>5. ASSUME NEW r \in Requests, RevokeRefreshTokenIfActive(r) PROVE Typed'
  BY <1>5 DEF RevokeRefreshTokenIfActive, Return
<1>6. ASSUME NEW r \in Requests, KillFamily(r) PROVE Typed'
  BY <1>6 DEF KillFamily, Return, Revoked
<1>7. ASSUME NEW t \in Tokens, Logout(t) PROVE Typed'
  BY <1>7 DEF Logout
<1>8. CASE CleanupExpiredRefreshTokens
  BY <1>8 DEF CleanupExpiredRefreshTokens
<1>9. ASSUME NEW r \in Requests, ForgotPassword(r) PROVE Typed'
  BY <1>9 DEF ForgotPassword
<1>10. ASSUME NEW r \in Requests, CreatePasswordResetToken(r) PROVE Typed'
  BY <1>10 DEF CreatePasswordResetToken, Return
<1>11. ASSUME NEW r \in Requests, NEW k \in Links, NEW p \in Passwords, ResetPassword(r, k, p) PROVE Typed'
  <2>1. [user EXCEPT !.password = p] \in Row
    BY DEF Row
  <2> QED
    BY <1>11, <2>1 DEF ResetPassword
<1>12. ASSUME NEW r \in Requests, CommitReset(r) PROVE Typed'
  BY <1>12 DEF CommitReset, Return, Revoked
<1>13. ASSUME NEW r \in Requests, Abandon(r) PROVE Typed'
  BY <1>13 DEF Abandon, Return
<1>14. CASE ExpireToken
  BY <1>14 DEF ExpireToken, Tokens
<1>15. CASE ExpireLink
  BY <1>15 DEF ExpireLink
<1>16. CASE UNCHANGED vars
  BY <1>16 DEF vars
<1>17. ASSUME NEW r \in Requests, RevokeAllUserRefreshTokens(r) PROVE Typed'
  BY <1>17 DEF RevokeAllUserRefreshTokens
<1>18. ASSUME NEW r \in Requests, ConsumePasswordResetToken(r) \/ UpdateUser(r) PROVE Typed'
  BY <1>18 DEF ConsumePasswordResetToken, UpdateUser, Return
<1> QED
  BY <1>1, <1>2, <1>3, <1>4, <1>5, <1>6, <1>7, <1>8, <1>9, <1>10, <1>11, <1>12, <1>13, <1>14, <1>15, <1>16,
     <1>17, <1>18
  DEF Next, handleLogin, handleRefresh, handleLogout, handleForgotPassword, handleResetPassword

\* A token has one successor at most (Refresh, RevokeRefreshTokenIfActive).
LEMMA RotationStep == Typed /\ Rotation /\ OneSuccessor /\ [Next]_vars => Rotation' /\ OneSuccessor'
<1> SUFFICES ASSUME Typed, Rotation, OneSuccessor, [Next]_vars PROVE Rotation' /\ OneSuccessor'
  OBVIOUS
<1> USE DEF Typed, TypeOK, Locals, Rotation, OneSuccessor, Gone, Goto, rows, reqs, history
<1>1. ASSUME NEW r \in Requests, NEW p \in Passwords, Login(r, p) PROVE Rotation' /\ OneSuccessor'
  BY <1>1 DEF Login
<1>2. ASSUME NEW r \in Requests, ReconcileAdmin(r) PROVE Rotation' /\ OneSuccessor'
  BY <1>2 DEF ReconcileAdmin
<1>3. ASSUME NEW r \in Requests, issue(r) PROVE Rotation' /\ OneSuccessor'
  <2>1. PICK t \in Tokens :
           /\ token[t] = "none"
           /\ token' = [token EXCEPT ![t] = "active"]
           /\ parent' = [parent EXCEPT ![t] = arg[r]]
    BY <1>3 DEF issue
  <2>2. /\ pc[r] = "issue" /\ pc' = [pc EXCEPT ![r] = "idle"] /\ arg' = [arg EXCEPT ![r] = 0]
    BY <1>3 DEF issue, Return
  <2>3. \A u \in Tokens : parent[u] # t \/ t = 0
    BY <2>1
  <2>4. arg[r] # t \/ arg[r] = 0
    BY <2>1, <2>2
  <2>5. t # 0 /\ 0 \notin Tokens
    BY MaxTokensAssumption DEF Tokens
  <2>6. parent'[t] = arg[r] /\ \A u \in Tokens \ {t} : parent'[u] = parent[u] /\ token'[u] = token[u]
    BY <2>1
  <2>7. pc'[r] = "idle" /\ \A q \in Requests \ {r} : pc'[q] = pc[q] /\ arg'[q] = arg[q]
    BY <2>2
  <2>8. \A u \in Tokens : parent'[u] # 0 => parent'[u] # t /\ token'[parent'[u]] \in Gone
    BY <2>1, <2>2, <2>3, <2>4, <2>5, <2>6
  <2>9. \A q \in Requests : pc'[q] = "issue" /\ arg'[q] # 0 =>
           token'[arg'[q]] \in Gone /\ \A u \in Tokens : parent'[u] # arg'[q]
    BY <2>1, <2>2, <2>6, <2>7
  <2>10. OneSuccessor'
    <3>1. \A v \in Tokens : parent[v] = arg[r] => arg[r] \notin Tokens
      BY <2>2, <2>5
    <3> QED
      BY <2>6, <3>1
  <2>11. \A q \in Requests : pc'[q] = "rotate" => token'[arg'[q]] # "none"
    BY <2>1, <2>7
  <2>12. \A q, s \in Requests : pc'[q] = "issue" /\ pc'[s] = "issue" /\ arg'[q] = arg'[s] /\ arg'[s] # 0 => q = s
    BY <2>7
  <2> QED
    BY <2>8, <2>9, <2>10, <2>11, <2>12
<1>4. ASSUME NEW r \in Requests, NEW t \in Tokens, Refresh(r, t) PROVE Rotation' /\ OneSuccessor'
  BY <1>4 DEF Refresh, Verified
<1>5. ASSUME NEW r \in Requests, RevokeRefreshTokenIfActive(r) PROVE Rotation' /\ OneSuccessor'
  BY <1>5 DEF RevokeRefreshTokenIfActive, Return
<1>6. ASSUME NEW r \in Requests, KillFamily(r) PROVE Rotation' /\ OneSuccessor'
  BY <1>6 DEF KillFamily, Return, Revoked
<1>7. ASSUME NEW t \in Tokens, Logout(t) PROVE Rotation' /\ OneSuccessor'
  BY <1>7 DEF Logout
<1>8. CASE CleanupExpiredRefreshTokens
  BY <1>8 DEF CleanupExpiredRefreshTokens
<1>9. ASSUME NEW r \in Requests, ForgotPassword(r) PROVE Rotation' /\ OneSuccessor'
  BY <1>9 DEF ForgotPassword
<1>10. ASSUME NEW r \in Requests, CreatePasswordResetToken(r) PROVE Rotation' /\ OneSuccessor'
  BY <1>10 DEF CreatePasswordResetToken, Return
<1>11. ASSUME NEW r \in Requests, NEW k \in Links, NEW p \in Passwords, ResetPassword(r, k, p)
       PROVE  Rotation' /\ OneSuccessor'
  BY <1>11 DEF ResetPassword
<1>12. ASSUME NEW r \in Requests, CommitReset(r) PROVE Rotation' /\ OneSuccessor'
  BY <1>12 DEF CommitReset, Return, Revoked
<1>13. ASSUME NEW r \in Requests, Abandon(r) PROVE Rotation' /\ OneSuccessor'
  BY <1>13 DEF Abandon, Return
<1>14. CASE ExpireToken
  BY <1>14 DEF ExpireToken
<1>15. CASE ExpireLink
  BY <1>15 DEF ExpireLink
<1>16. CASE UNCHANGED vars
  BY <1>16 DEF vars
<1>17. ASSUME NEW r \in Requests, RevokeAllUserRefreshTokens(r) PROVE Rotation' /\ OneSuccessor'
  BY <1>17 DEF RevokeAllUserRefreshTokens
<1>18. ASSUME NEW r \in Requests, ConsumePasswordResetToken(r) \/ UpdateUser(r) PROVE Rotation' /\ OneSuccessor'
  BY <1>18 DEF ConsumePasswordResetToken, UpdateUser, Return
<1> QED
  BY <1>1, <1>2, <1>3, <1>4, <1>5, <1>6, <1>7, <1>8, <1>9, <1>10, <1>11, <1>12, <1>13, <1>14, <1>15, <1>16,
     <1>17, <1>18
  DEF Next, handleLogin, handleRefresh, handleLogout, handleForgotPassword, handleResetPassword

\* Rows that may still be presented are not deleted (CleanupExpiredRefreshTokens).
LEMMA DeletedStep == Typed /\ DeletedExpired /\ [Next]_vars => DeletedExpired'
<1> SUFFICES ASSUME Typed, DeletedExpired, [Next]_vars PROVE DeletedExpired'
  OBVIOUS
<1> USE DEF Typed, TypeOK, DeletedExpired, rows
<1>1. CASE UNCHANGED token /\ expired' \in {expired, expired + 1}
  BY <1>1, MaxTokensAssumption DEF Tokens
<1>2. CASE UNCHANGED expired /\ \A t \in Tokens : token'[t] = "deleted" => token[t] = "deleted" \/ t <= expired
  BY <1>2
<1>3. ASSUME NEW r \in Requests,
             issue(r) \/ RevokeRefreshTokenIfActive(r) \/ KillFamily(r) \/ CommitReset(r)
      PROVE  DeletedExpired'
  <2>1. CASE issue(r)
    BY <1>2, <2>1 DEF issue
  <2>2. CASE RevokeRefreshTokenIfActive(r)
    BY <1>2, <2>2 DEF RevokeRefreshTokenIfActive, Locals, Labels
  <2>3. CASE KillFamily(r) \/ CommitReset(r)
    BY <1>2, <2>3 DEF KillFamily, CommitReset, Revoked
  <2> QED
    BY <1>3, <2>1, <2>2, <2>3
<1>4. ASSUME NEW t \in Tokens, Logout(t) PROVE DeletedExpired'
  BY <1>2, <1>4 DEF Logout
<1>5. CASE CleanupExpiredRefreshTokens
  BY <1>2, <1>5 DEF CleanupExpiredRefreshTokens
<1>6. ASSUME NEW r \in Requests,
             \/ \E p \in Passwords : Login(r, p) \/ \E k \in Links : ResetPassword(r, k, p)
             \/ \E t \in Tokens : Refresh(r, t)
             \/ ReconcileAdmin(r) \/ ForgotPassword(r) \/ CreatePasswordResetToken(r) \/ Abandon(r)
             \/ RevokeAllUserRefreshTokens(r) \/ ConsumePasswordResetToken(r) \/ UpdateUser(r)
      PROVE  DeletedExpired'
  BY <1>1, <1>6 DEF Login, ReconcileAdmin, Refresh, ForgotPassword, CreatePasswordResetToken, ResetPassword, Abandon,
                    RevokeAllUserRefreshTokens, ConsumePasswordResetToken, UpdateUser
<1>7. CASE ExpireToken \/ ExpireLink \/ UNCHANGED vars
  BY <1>1, <1>7 DEF ExpireToken, ExpireLink, vars
<1> QED
  BY <1>3, <1>4, <1>5, <1>6, <1>7
  DEF Next, handleLogin, handleRefresh, handleLogout, handleForgotPassword, handleResetPassword

\* One transaction at a time holds a link (ConsumePasswordResetToken, CommitReset).
LEMMA LinkLocksStep == Typed /\ LinkRows /\ LinkLocks /\ [Next]_vars => LinkLocks'
<1> SUFFICES ASSUME Typed, LinkRows, LinkLocks, [Next]_vars PROVE LinkLocks'
  OBVIOUS
<1> USE DEF Typed, TypeOK, LinkRows, LinkLocks, InReset, Goto, rows, reqs, history
<1>1. ASSUME UNCHANGED link,
             \A r \in Requests : pc'[r] \in InReset => pc[r] \in InReset /\ arg'[r] = arg[r]
      PROVE  LinkLocks'
  BY <1>1
<1>2. ASSUME NEW r \in Requests,
             \/ \E p \in Passwords : Login(r, p) \/ \E k \in Links : ResetPassword(r, k, p)
             \/ \E t \in Tokens : Refresh(r, t)
             \/ ReconcileAdmin(r) \/ RevokeRefreshTokenIfActive(r) \/ ForgotPassword(r) \/ UpdateUser(r)
      PROVE  LinkLocks'
  BY <1>1, <1>2 DEF Login, ResetPassword, Refresh, ReconcileAdmin, RevokeRefreshTokenIfActive, ForgotPassword,
                    UpdateUser, Return
<1>3. ASSUME NEW r \in Requests, issue(r) \/ KillFamily(r) \/ Abandon(r) \/ RevokeAllUserRefreshTokens(r)
      PROVE  LinkLocks'
  BY <1>1, <1>3 DEF issue, KillFamily, Abandon, RevokeAllUserRefreshTokens, Return
<1>4. ASSUME NEW r \in Requests, ConsumePasswordResetToken(r) PROVE LinkLocks'
  <2>1. /\ pc[r] = "reset" /\ arg[r] \in Links /\ link[arg[r]] # "none" /\ UNCHANGED link
        /\ \A q \in Requests : pc[q] \in InReset => arg[q] # arg[r]
    BY <1>4 DEF ConsumePasswordResetToken, LinkLocked
  <2>2. CASE link[arg[r]] # "used" /\ pc' = [pc EXCEPT ![r] = "update"] /\ UNCHANGED arg
    <3>1. pc'[r] = "update" /\ \A q \in Requests \ {r} : pc'[q] = pc[q]
      BY <2>2
    <3> QED
      BY <2>1, <2>2, <3>1
  <2>3. CASE Return(r)
    BY <1>1, <2>1, <2>3 DEF Return
  <2> QED
    BY <1>4, <2>2, <2>3 DEF ConsumePasswordResetToken
<1>5. ASSUME NEW r \in Requests, CreatePasswordResetToken(r) PROVE LinkLocks'
  <2>1. PICK k \in Links :
           /\ link[k] = "none"
           /\ link' = [i \in Links |-> IF i = k THEN "live" ELSE IF i \in seen[r] THEN "used" ELSE link[i]]
    BY <1>5 DEF CreatePasswordResetToken
  <2>2. /\ pc' = [pc EXCEPT ![r] = "idle"] /\ arg' = [arg EXCEPT ![r] = 0]
        /\ \A i \in seen[r] : ~LinkLocked(i)
    BY <1>5 DEF CreatePasswordResetToken, Return
  <2>3. \A q \in Requests : pc'[q] \in InReset => pc[q] \in InReset /\ arg'[q] = arg[q] /\ arg[q] \notin seen[r]
    BY <2>2 DEF LinkLocked
  <2> QED
    BY <2>1, <2>3
<1>6. ASSUME NEW r \in Requests, CommitReset(r) PROVE LinkLocks'
  <2>1. /\ pc[r] = "commit" /\ link' = [link EXCEPT ![arg[r]] = "used"]
        /\ pc' = [pc EXCEPT ![r] = "idle"] /\ arg' = [arg EXCEPT ![r] = 0]
    BY <1>6 DEF CommitReset, Return
  <2>2. \A q \in Requests : pc'[q] \in InReset => pc[q] \in InReset /\ arg'[q] = arg[q] /\ arg[q] # arg[r]
    BY <2>1
  <2> QED
    BY <2>1, <2>2
<1>7. CASE handleLogout \/ CleanupExpiredRefreshTokens \/ ExpireToken \/ UNCHANGED vars
  BY <1>1, <1>7 DEF handleLogout, Logout, CleanupExpiredRefreshTokens, ExpireToken, vars
<1>8. CASE ExpireLink
  BY <1>8 DEF ExpireLink
<1> QED
  BY <1>2, <1>3, <1>4, <1>5, <1>6, <1>7, <1>8
  DEF Next, handleLogin, handleRefresh, handleForgotPassword, handleResetPassword

\* A link is used once, and the newest one works unless requests for one crossed
\* (ForgotPassword, CreatePasswordResetToken, CommitReset).
LEMMA LinkStep ==
    Typed /\ LinkRows /\ LinkLocks /\ Uncrossed /\ NewestLinkOnly /\ [Next]_vars
      => LinkRows' /\ Uncrossed' /\ NewestLinkOnly'
<1> SUFFICES ASSUME Typed, LinkRows, LinkLocks, Uncrossed, NewestLinkOnly, [Next]_vars
             PROVE  LinkRows' /\ Uncrossed' /\ NewestLinkOnly'
  OBVIOUS
<1> DEFINE Goal == LinkRows' /\ Uncrossed' /\ NewestLinkOnly'
<1> USE DEF Typed, TypeOK, LinkRows, Uncrossed, NewestLinkOnly, Goto, rows, reqs, history
<1>1. ASSUME UNCHANGED <<link, resets, crossed>>,
             \A r \in Requests :
                /\ pc'[r] = "link" => pc[r] = "link"
                /\ pc'[r] = "reset" => (pc[r] = "reset" /\ arg'[r] = arg[r]) \/ link[arg'[r]] = "live"
                /\ seen'[r] = seen[r] \/ pc'[r] # "link"
      PROVE  Goal
  BY <1>1
<1>2. ASSUME NEW r \in Requests,
             \/ \E p \in Passwords : Login(r, p) \/ \E k \in Links : ResetPassword(r, k, p)
             \/ \E t \in Tokens : Refresh(r, t)
             \/ ReconcileAdmin(r) \/ RevokeRefreshTokenIfActive(r)
      PROVE  Goal
  BY <1>1, <1>2 DEF Login, ResetPassword, Refresh, ReconcileAdmin, RevokeRefreshTokenIfActive, Return
<1>3. ASSUME NEW r \in Requests,
             \/ issue(r) \/ KillFamily(r) \/ Abandon(r) \/ RevokeAllUserRefreshTokens(r)
             \/ ConsumePasswordResetToken(r) \/ UpdateUser(r)
      PROVE  Goal
  BY <1>1, <1>3 DEF issue, KillFamily, Abandon, RevokeAllUserRefreshTokens, ConsumePasswordResetToken, UpdateUser,
                    Return
<1>4. ASSUME NEW r \in Requests, ForgotPassword(r) PROVE Goal
  <2>1. /\ UNCHANGED <<link, resets, arg>>
        /\ pc[r] = "idle" /\ pc' = [pc EXCEPT ![r] = "link"]
        /\ seen' = [seen EXCEPT ![r] = {k \in Links : link[k] \in {"live", "expired"}}]
        /\ crossed' = (crossed \/ \E q \in Requests : pc[q] = "link")
    BY <1>4 DEF ForgotPassword
  <2>2. pc'[r] = "link" /\ \A q \in Requests \ {r} : pc'[q] = pc[q] /\ seen'[q] = seen[q]
    BY <2>1
  <2>3. LinkRows' /\ NewestLinkOnly'
    BY <2>1, <2>2
  <2>4. Uncrossed'
    BY <2>1, <2>2
  <2> QED
    BY <2>3, <2>4
<1>5. ASSUME NEW r \in Requests, CreatePasswordResetToken(r) PROVE Goal
  <2>1. PICK k \in Links :
           /\ link[k] = "none" /\ \A i \in Links : i < k => link[i] # "none"
           /\ link' = [i \in Links |-> IF i = k THEN "live" ELSE IF i \in seen[r] THEN "used" ELSE link[i]]
    BY <1>5 DEF CreatePasswordResetToken
  <2>2. /\ pc[r] = "link" /\ pc' = [pc EXCEPT ![r] = "idle"] /\ arg' = [arg EXCEPT ![r] = 0]
        /\ seen' = [seen EXCEPT ![r] = {}] /\ UNCHANGED <<resets, crossed>>
    BY <1>5 DEF CreatePasswordResetToken, Return
  <2>3. pc'[r] = "idle" /\ seen'[r] = {}
        /\ \A q \in Requests \ {r} : pc'[q] = pc[q] /\ seen'[q] = seen[q] /\ arg'[q] = arg[q]
    BY <2>2
  <2>4. \A i \in Links : link'[i] = "none" <=> link[i] = "none" /\ i # k
    BY <2>1, <2>2
  <2>5. LinkRows'
    <3>1. \A i \in Links : link'[i] # "used" => resets[i] = 0
      BY <2>1
    <3>2. \A i, j \in Links : i < j /\ link'[i] = "none" => link'[j] = "none"
      BY <2>1, <2>4, MaxLinksAssumption DEF Links
    <3> QED
      BY <2>2, <2>3, <2>4, <3>1, <3>2
  <2>6. ASSUME ~crossed PROVE \A i \in Links : link'[i] = "live" => i = k
    BY <2>1, <2>2, <2>6
  <2>7. \A j \in Links : link'[j] # "none" /\ j # k => j < k
    BY <2>1, <2>4, MaxLinksAssumption DEF Links
  <2>8. NewestLinkOnly'
    BY <2>2, <2>6, <2>7, MaxLinksAssumption DEF Links
  <2>9. Uncrossed'
    BY <2>2, <2>3
  <2> QED
    BY <2>5, <2>8, <2>9
<1>6. ASSUME NEW r \in Requests, CommitReset(r) PROVE Goal
  <2>1. /\ pc[r] = "commit" /\ pc' = [pc EXCEPT ![r] = "idle"] /\ arg' = [arg EXCEPT ![r] = 0]
        /\ seen' = [seen EXCEPT ![r] = {}] /\ UNCHANGED crossed /\ arg[r] \in Links
        /\ link' = [link EXCEPT ![arg[r]] = "used"] /\ resets' = [resets EXCEPT ![arg[r]] = Again(@)]
    BY <1>6 DEF CommitReset, Return
  <2>2. link[arg[r]] \in {"live", "expired"} /\ resets[arg[r]] = 0
    BY <2>1 DEF LinkLocks, InReset
  <2>3. resets' = [resets EXCEPT ![arg[r]] = 1]
    BY <2>1, <2>2 DEF Again
  <2>4. \A k \in Links : (link'[k] = "none" <=> link[k] = "none") /\ (link'[k] = "live" => link[k] = "live")
    BY <2>1, <2>2
  <2>5. /\ pc'[r] = "idle" /\ seen'[r] = {}
        /\ \A q \in Requests \ {r} : pc'[q] = pc[q] /\ seen'[q] = seen[q] /\ arg'[q] = arg[q]
    BY <2>1
  <2>6. \A k \in Links : link'[k] # "used" => resets'[k] = 0
    BY <2>1, <2>3
  <2>7. LinkRows'
    <3>1. resets' \in [Links -> {0, 1}] /\ \A i, k \in Links : i < k /\ link'[i] = "none" => link'[k] = "none"
      BY <2>3, <2>4
    <3>2. \A q \in Requests : pc'[q] = "reset" => link'[arg'[q]] # "none"
      BY <2>4, <2>5
    <3>3. \A q \in Requests : pc'[q] = "link" =>
             seen'[q] \in SUBSET Links /\ \A k \in seen'[q] : link'[k] # "none"
      BY <2>4, <2>5
    <3> QED
      BY <2>6, <3>1, <3>2, <3>3
  <2>8. Uncrossed' /\ NewestLinkOnly'
    BY <2>1, <2>4, <2>5
  <2> QED
    BY <2>7, <2>8
<1>7. CASE handleLogout \/ CleanupExpiredRefreshTokens \/ ExpireToken \/ UNCHANGED vars
  BY <1>1, <1>7 DEF handleLogout, Logout, CleanupExpiredRefreshTokens, ExpireToken, vars
<1>8. CASE ExpireLink
  <2>1. \A k \in Links : /\ link'[k] = "none" <=> link[k] = "none"
                         /\ link'[k] = "used" <=> link[k] = "used"
                         /\ link'[k] = "live" => link[k] = "live"
    BY <1>8 DEF ExpireLink
  <2> QED
    BY <1>8, <2>1 DEF ExpireLink
<1> HIDE DEF Goal
<1> QED
  BY <1>2, <1>3, <1>4, <1>5, <1>6, <1>7, <1>8
  DEF Next, handleLogin, handleRefresh, handleForgotPassword, handleResetPassword, Goal

\* The invariant (Spec).
LEMMA Invariant == Spec => []Inv
<1>1. Inv /\ [Next]_vars => Inv'
  BY TypedStep, RotationStep, DeletedStep, LinkLocksStep, LinkStep DEF Inv
<1> QED
  BY InitInv, <1>1, PTL DEF Spec

\* Types (TypeOK).
THEOREM TypeCorrect == Spec => []TypeOK
<1>1. Inv => TypeOK
  BY DEF Inv, Typed
<1> QED
  BY <1>1, Invariant, PTL

\* However many requests present one refresh token, one of them gets a session (Refresh).
THEOREM OneWinner == Spec => []OneSuccessor
<1>1. Inv => OneSuccessor
  BY DEF Inv
<1> QED
  BY <1>1, Invariant, PTL

\* A rotated token is recognised for as long as it can be presented
\* (CleanupExpiredRefreshTokens).
THEOREM ReplaysAreSeen == Spec => []TombstonesStay
<1>1. Inv => TombstonesStay
  <2> SUFFICES ASSUME Inv, NEW t \in Verified PROVE token[t] # "deleted"
    BY DEF TombstonesStay
  <2> QED
    BY MaxTokensAssumption DEF Inv, Typed, TypeOK, DeletedExpired, Verified, Tokens
<1> QED
  BY <1>1, Invariant, PTL

\* A link resets the password once, whoever else holds it (ConsumePasswordResetToken).
THEOREM LinksWorkOnce == Spec => []OneResetPerLink
<1>1. Inv => OneResetPerLink
  BY DEF Inv, LinkRows, OneResetPerLink
<1> QED
  BY <1>1, Invariant, PTL

\* Only the newest link works unless requests for one overlapped (ForgotPassword).
THEOREM OldLinksDie == Spec => []NewestLinkOnly
<1>1. Inv => NewestLinkOnly
  BY DEF Inv
<1> QED
  BY <1>1, Invariant, PTL

\* Both of the above, of every reset link (ForgotPassword, ResetPassword).
THEOREM LinksAreSound == Spec => []ResetLinks
<1>1. OneResetPerLink /\ NewestLinkOnly => ResetLinks
  BY DEF ResetLinks
<1> QED
  BY <1>1, LinksWorkOnce, OldLinksDie, PTL

-----------------------------------------------------------------------------
(* Sessions: what a replayed token and a reset leave behind.               *)

Issued == {t \in Tokens : token[t] # "none"}

\* No session of the family S of the token t will be used, but for the survivors.
Ended(t, S) ==
    /\ t \in S /\ Closed(S)
    /\ \A u \in S \ {t} : token[u] = "active" => u \in survivor
    /\ \A r \in Requests : pc[r] = "issue" /\ arg[r] \in S => r \in late \/ arg[r] \in survivor

\* A token that was presented is gone; one presented twice has such a family.
Families ==
    /\ presented \in [Tokens -> 0..2]
    /\ \A t \in Tokens : presented[t] > 0 => token[t] \in Gone
    /\ \A r \in Requests : pc[r] \in {"kill", "killing"} => token[arg[r]] \in Gone
    /\ \A t \in Tokens \ Issued : parent[t] = 0
    /\ \A t \in Tokens : presented[t] = 2 => \E S \in SUBSET Issued : Ended(t, S)

\* While a revocation of every session runs, it has seen each one, but for those that were
\* stored meanwhile; and whoever is to store another is late.
Watched ==
    \A r \in Requests : pc[r] \in {"killing", "commit"} =>
        /\ Opening \subseteq late
        /\ \A t \in Tokens : token[t] = "active" => t \in seen[r] \/ t \in survivor

\* Who is not late has read the row since the last reset, or rotates what has.
Opened ==
    /\ overwritten \in BOOLEAN /\ chosen \in Passwords /\ opened \in [Tokens -> Passwords]
    /\ \A r \in Requests : pc[r] = "issue" /\ arg[r] = 0 => copy[r] \in Row
    /\ ~overwritten =>
          /\ user.password = chosen
          /\ \A t \in Tokens : token[t] = "active" /\ t \notin survivor => opened[t] = chosen
          /\ \A r \in Requests \ late :
                /\ pc[r] = "reconcile" \/ (pc[r] = "issue" /\ arg[r] = 0) => copy[r].password = chosen
                /\ pc[r] = "issue" /\ arg[r] # 0 => arg[r] \in survivor \/ opened[arg[r]] = chosen

\* What most steps leave: no session is added, and whoever is to store one was to before,
\* or has just rotated a token that was active.
Quiet ==
    /\ UNCHANGED <<parent, survivor>>
    /\ \A t \in Tokens : /\ token'[t] = "none" <=> token[t] = "none"
                         /\ token[t] \in Gone => token'[t] \in Gone
    /\ \A r \in Requests : pc'[r] = "issue" /\ arg'[r] # 0 =>
          \/ pc[r] = "issue" /\ arg'[r] = arg[r] /\ (r \in late => r \in late')
          \/ token[arg'[r]] = "active"
    /\ \A r \in Requests : pc'[r] \in {"kill", "killing"} =>
          (pc[r] \in {"kill", "killing"} /\ arg'[r] = arg[r]) \/ token'[arg'[r]] \in Gone
    /\ \A t \in Tokens : presented'[t] = presented[t]
                         \/ (presented[t] = 0 /\ presented'[t] = 1 /\ token'[t] \in Gone)
    /\ presented' \in [Tokens -> 0..2]

\* ... leaves the families ended.
LEMMA QuietFamilies == Typed /\ Families /\ Typed' /\ Quiet => Families'
<1> SUFFICES ASSUME Typed, Families, Typed', Quiet PROVE Families'
  OBVIOUS
<1>1. Issued' = Issued
  BY DEF Issued, Quiet
<1>2. \A r \in Requests : pc[r] \in {"kill", "killing"} => arg[r] \in Tokens
  BY DEF Typed, TypeOK
<1>3. \A r \in Requests : pc'[r] \in {"kill", "killing"} => token'[arg'[r]] \in Gone
  BY <1>2 DEF Quiet, Families
<1>4. \A t \in Tokens : presented'[t] > 0 => token'[t] \in Gone
  BY DEF Quiet, Families
<1>5. ASSUME NEW t \in Tokens, presented'[t] = 2 PROVE \E S \in SUBSET Issued' : Ended(t, S)'
  <2>1. presented[t] = 2
    BY <1>5 DEF Quiet
  <2>2. PICK S \in SUBSET Issued : Ended(t, S)
    BY <2>1 DEF Families
  <2>3. token[t] # "active"
    BY <2>1 DEF Families, Gone
  <2>4. 0 \notin S
    BY MaxTokensAssumption DEF Issued, Tokens
  <2>5. \A u \in S \ {t} : token'[u] = "active" => u \in survivor'
    BY <2>2 DEF Ended, Quiet, Gone, Issued, Typed, TypeOK
  <2>6. ASSUME NEW r \in Requests, pc'[r] = "issue", arg'[r] \in S
        PROVE  r \in late' \/ arg'[r] \in survivor'
    <3>1. arg'[r] # 0
      BY <2>4, <2>6
    <3> QED
      BY <2>2, <2>3, <2>6, <3>1 DEF Quiet, Ended
  <2>7. Ended(t, S)'
    BY <2>2, <2>5, <2>6 DEF Ended, Closed, Quiet
  <2> QED
    BY <1>1, <2>7
<1> QED
  BY <1>1, <1>3, <1>4, <1>5 DEF Families, Quiet

\* Every session is revoked but those stored meanwhile, and whoever may store another is late
\* (KillFamily, CommitReset).
LEMMA AllRevoked ==
    ASSUME Typed, Families, Watched, Typed', NEW r \in Requests, pc[r] \in {"killing", "commit"},
           token' = Revoked(r), UNCHANGED <<parent, survivor>>, Return(r), presented' \in [Tokens -> 0..2],
           \A t \in Tokens : presented'[t] = presented[t] \/ token[t] \in Gone
    PROVE  Families'
<1>1. /\ \A t \in Tokens : token'[t] = "active" => t \in survivor'
      /\ \A t \in Tokens : token[t] \in Gone => token'[t] \in Gone
      /\ Issued' = Issued
  BY DEF Revoked, Watched, Gone, Issued, Typed, TypeOK
<1>2. /\ pc'[r] = "idle" /\ late' = late \ {r}
      /\ \A q \in Requests \ {r} : pc'[q] = pc[q] /\ arg'[q] = arg[q]
  BY DEF Return, Goto, Typed, TypeOK
<1>3. \A q \in Requests : pc'[q] = "issue" => q \in late'
  BY <1>2 DEF Watched, Opening
<1>4. ASSUME NEW t \in Tokens, presented'[t] = 2 PROVE \E S \in SUBSET Issued' : Ended(t, S)'
  <2>1. t \in Issued
    BY <1>4 DEF Families, Gone, Issued
  <2>2. PICK S \in SUBSET Tokens : S = Issued
    BY DEF Issued
  <2>3. Closed(S)'
    BY <1>1, <2>2 DEF Closed, Issued, Families, Typed, TypeOK, Tokens
  <2>4. Ended(t, S)'
    BY <1>1, <1>3, <2>1, <2>2, <2>3 DEF Ended
  <2> QED
    BY <1>1, <2>2, <2>4
<1>5. \A q \in Requests : pc[q] \in {"kill", "killing"} => arg[q] \in Tokens
  BY DEF Typed, TypeOK
<1>6. \A q \in Requests : pc'[q] \in {"kill", "killing"} => token'[arg'[q]] \in Gone
  BY <1>1, <1>2, <1>5 DEF Families
<1>7. \A t \in Tokens : presented'[t] > 0 => token'[t] \in Gone
  BY <1>1 DEF Families
<1> QED
  BY <1>1, <1>4, <1>6, <1>7 DEF Families

\* A session joins the family of the token it was rotated from (issue).
LEMMA IssueFamilies ==
    ASSUME Typed, Rotation, Families, Typed', NEW r \in Requests, issue(r)
    PROVE  Families'
<1>1. PICK n \in Tokens :
        /\ token[n] = "none" /\ token' = [token EXCEPT ![n] = "active"]
        /\ parent' = [parent EXCEPT ![n] = arg[r]]
        /\ survivor' = IF r \in late \/ arg[r] \in survivor THEN survivor \union {n} ELSE survivor
  BY DEF issue
<1>2. pc[r] = "issue" /\ Return(r) /\ late' = late \ {r} /\ UNCHANGED presented
  BY DEF issue, Return
<1>3. pc'[r] = "idle" /\ \A q \in Requests \ {r} : pc'[q] = pc[q] /\ arg'[q] = arg[q]
  BY <1>2 DEF Return, Goto, Typed, TypeOK
<1>4. arg[r] # 0 => arg[r] \in Tokens /\ token[arg[r]] \in Gone /\ arg[r] # n
  BY <1>1, <1>2 DEF Rotation, Gone, Typed, TypeOK
<1>5. /\ Issued' = Issued \union {n} /\ n \notin Issued
      /\ parent'[n] = arg[r] /\ \A u \in Tokens \ {n} : parent'[u] = parent[u] /\ token'[u] = token[u]
      /\ token'[n] = "active"
  BY <1>1 DEF Issued, Typed, TypeOK
<1>6. \A u \in Tokens : parent[u] # n
  BY <1>1 DEF Rotation, Gone, Tokens
<1>7. ASSUME NEW t \in Tokens, presented'[t] = 2 PROVE \E S \in SUBSET Issued' : Ended(t, S)'
  <2>1. PICK S \in SUBSET Issued : Ended(t, S)
    BY <1>2, <1>7 DEF Families
  <2>2. /\ t # n /\ 0 \notin S /\ n \notin S
    BY <1>2, <1>5, <1>7, MaxTokensAssumption DEF Families, Gone, Issued, Tokens
  <2>0. PICK F : F = IF arg[r] \in S THEN S \union {n} ELSE S
    OBVIOUS
  <2>3. F \in SUBSET Issued' /\ t \in F
    BY <1>5, <2>0, <2>1 DEF Ended
  <2>4. Closed(F)'
    <3> SUFFICES ASSUME NEW u \in Tokens, parent'[u] \in F PROVE u \in F
      BY <2>0 DEF Closed
    <3>1. CASE u = n
      BY <1>4, <1>5, <2>0, <2>2, <3>1
    <3>2. CASE u # n
      BY <1>5, <1>6, <2>0, <2>1, <3>2 DEF Ended, Closed
    <3> QED
      BY <3>1, <3>2
  <2>5. ASSUME NEW u \in F \ {t}, token'[u] = "active" PROVE u \in survivor'
    <3>1. CASE u = n
      BY <1>1, <1>2, <2>0, <2>1, <2>2, <2>5, <3>1 DEF Ended
    <3>2. CASE u # n
      BY <1>1, <1>5, <2>0, <2>1, <2>5, <3>2 DEF Ended, Issued
    <3> QED
      BY <3>1, <3>2
  <2>6. ASSUME NEW q \in Requests, pc'[q] = "issue", arg'[q] \in F PROVE q \in late' \/ arg'[q] \in survivor'
    <3>1. q # r /\ pc[q] = "issue" /\ arg'[q] = arg[q]
      BY <1>3, <2>6
    <3>2. arg[q] \in S
      <4>1. arg[q] # n
        BY <1>1, <3>1, MaxTokensAssumption DEF Rotation, Gone, Tokens
      <4> QED
        BY <2>0, <2>6, <3>1, <4>1
    <3> QED
      BY <1>1, <1>2, <2>1, <3>1, <3>2 DEF Ended
  <2>7. Ended(t, F)'
    BY <2>3, <2>4, <2>5, <2>6 DEF Ended
  <2> QED
    BY <2>3, <2>7
<1>8. \A q \in Requests : pc'[q] \in {"kill", "killing"} => token'[arg'[q]] \in Gone
  <2>1. \A q \in Requests : pc[q] \in {"kill", "killing"} => token[arg[q]] \in Gone /\ arg[q] \in Tokens
    BY DEF Families, Typed, TypeOK
  <2> QED
    BY <1>1, <1>3, <1>5, <2>1 DEF Gone
<1>9. \A t \in Tokens : presented'[t] > 0 => token'[t] \in Gone
  BY <1>1, <1>2, <1>5 DEF Families, Gone
<1>10. \A t \in Tokens \ Issued' : parent'[t] = 0
  BY <1>5 DEF Families
<1> QED
  BY <1>2, <1>7, <1>8, <1>9, <1>10 DEF Families

\* A replayed token leaves no session behind (KillFamily, issue).
LEMMA FamiliesStep == Typed /\ Rotation /\ Families /\ Watched /\ Typed' /\ [Next]_vars => Families'
<1> SUFFICES ASSUME Typed, Rotation, Families, Watched, Typed', [Next]_vars PROVE Families'
  OBVIOUS
<1> USE DEF Goto, rows, reqs, history
<1>0. \A r \in Requests : /\ pc[r] \in {"rotate", "kill", "killing"} => arg[r] \in Tokens
                          /\ pc[r] \in {"idle", "reconcile"} => arg[r] = 0
  BY DEF Typed, TypeOK, Locals
<1>1. ASSUME UNCHANGED <<token, parent, survivor, presented>>,
             \A r \in Requests :
                \/ /\ pc'[r] = "issue" => pc[r] = "issue" /\ arg'[r] = arg[r] /\ (r \in late => r \in late')
                   /\ pc'[r] \in {"kill", "killing"} => pc[r] \in {"kill", "killing"} /\ arg'[r] = arg[r]
                \/ pc'[r] = "issue" /\ arg'[r] = 0
                \/ pc'[r] = "kill" /\ token[arg'[r]] = "revoked"
      PROVE  Families'
  BY <1>1, QuietFamilies DEF Quiet, Families, Gone
<1>2. ASSUME NEW r \in Requests,
             \/ \E p \in Passwords : Login(r, p) \/ \E k \in Links : ResetPassword(r, k, p)
             \/ ReconcileAdmin(r) \/ ForgotPassword(r)
      PROVE  Families'
  BY <1>0, <1>1, <1>2 DEF Login, Begin, ResetPassword, ReconcileAdmin, ForgotPassword, Typed, TypeOK
<1>3. ASSUME NEW r \in Requests, NEW t \in Tokens, Refresh(r, t) PROVE Families'
  BY <1>1, <1>3 DEF Refresh, Begin, Typed, TypeOK
<1>4. ASSUME NEW r \in Requests,
             \/ CreatePasswordResetToken(r) \/ Abandon(r) \/ RevokeAllUserRefreshTokens(r)
             \/ ConsumePasswordResetToken(r) \/ UpdateUser(r)
      PROVE  Families'
  BY <1>1, <1>4 DEF CreatePasswordResetToken, Abandon, RevokeAllUserRefreshTokens, ConsumePasswordResetToken,
                    UpdateUser, Return, Typed, TypeOK
<1>5. ASSUME NEW r \in Requests, RevokeRefreshTokenIfActive(r) PROVE Families'
  <2>1. pc[r] = "rotate" /\ arg[r] \in Tokens /\ UNCHANGED <<parent, survivor>>
    BY <1>0, <1>5 DEF RevokeRefreshTokenIfActive
  <2>2. CASE /\ token[arg[r]] = "active" /\ token' = [token EXCEPT ![arg[r]] = "revoked"]
             /\ presented' = [presented EXCEPT ![arg[r]] = Again(@)]
             /\ pc' = [pc EXCEPT ![r] = "issue"] /\ UNCHANGED <<arg, late>>
    <3>1. presented[arg[r]] = 0
      BY <2>1, <2>2 DEF Families, Gone
    <3>2. presented' = [presented EXCEPT ![arg[r]] = 1]
      BY <2>2, <3>1 DEF Again
    <3>3. Quiet
      BY <2>1, <2>2, <3>1, <3>2 DEF Quiet, Gone, Families, Typed, TypeOK
    <3> QED
      BY <3>3, QuietFamilies
  <2>3. CASE /\ token[arg[r]] = "revoked" /\ pc' = [pc EXCEPT ![r] = "kill"]
             /\ UNCHANGED <<token, presented, arg, late>>
    BY <1>1, <2>1, <2>3 DEF Typed, TypeOK
  <2>4. CASE Return(r) /\ UNCHANGED <<token, presented>>
    BY <1>1, <2>1, <2>4 DEF Return, Typed, TypeOK
  <2> QED
    BY <1>5, <2>2, <2>3, <2>4 DEF RevokeRefreshTokenIfActive
<1>6. ASSUME NEW r \in Requests, KillFamily(r) PROVE Families'
  <2>1. /\ pc[r] = "killing" /\ arg[r] \in Tokens /\ token[arg[r]] \in Gone
        /\ token' = Revoked(r) /\ UNCHANGED <<parent, survivor>> /\ Return(r)
        /\ presented' = [presented EXCEPT ![arg[r]] = Again(@)]
    BY <1>0, <1>6 DEF KillFamily, Families
  <2>2. presented' \in [Tokens -> 0..2]
    BY <2>1 DEF Families, Again
  <2>3. \A t \in Tokens : presented'[t] = presented[t] \/ token[t] \in Gone
    BY <2>1 DEF Families
  <2> QED
    BY <2>1, <2>2, <2>3, AllRevoked
<1>7. CASE handleLogout \/ CleanupExpiredRefreshTokens
  <2>1. /\ UNCHANGED <<parent, survivor, pc, arg, late, presented>>
        /\ \A t \in Tokens : /\ token'[t] = "none" <=> token[t] = "none"
                             /\ token[t] \in Gone => token'[t] \in Gone
    BY <1>7 DEF handleLogout, Logout, CleanupExpiredRefreshTokens, Gone, Typed, TypeOK
  <2> QED
    BY <1>0, <2>1, QuietFamilies DEF Quiet, Families
<1>8. ASSUME NEW r \in Requests, CommitReset(r) PROVE Families'
  BY <1>8, AllRevoked DEF CommitReset, Families
<1>9. CASE ExpireToken \/ ExpireLink \/ UNCHANGED vars
  BY <1>1, <1>9 DEF ExpireToken, ExpireLink, vars
<1>10. ASSUME NEW r \in Requests, issue(r) PROVE Families'
  BY <1>10, IssueFamilies
<1> QED
  BY <1>2, <1>3, <1>4, <1>5, <1>6, <1>7, <1>8, <1>9, <1>10
  DEF Next, handleLogin, handleRefresh, handleForgotPassword, handleResetPassword

\* A session stored while a revocation runs is one of the survivors
\* (RevokeAllUserRefreshTokens, Begin, issue).
LEMMA WatchedStep == Typed /\ Watched /\ [Next]_vars => Watched'
<1> SUFFICES ASSUME Typed, Watched, [Next]_vars PROVE Watched'
  OBVIOUS
<1> USE DEF Watched, Opening, Typed, TypeOK, Goto, rows, reqs, history
\* A step that adds no session, and begins no revocation.
<1>1. ASSUME UNCHANGED survivor,
             \A t \in Tokens : token'[t] = "active" => token[t] = "active",
             \A q \in Requests :
                /\ pc'[q] \in {"killing", "commit"} => pc[q] = pc'[q] /\ seen'[q] = seen[q]
                /\ pc'[q] \in {"reconcile", "rotate", "issue"} =>
                      \/ pc[q] \in {"reconcile", "rotate", "issue"} /\ (q \in late => q \in late')
                      \/ Revoking => q \in late'
      PROVE  Watched'
  BY <1>1 DEF Revoking
<1>2. ASSUME NEW r \in Requests,
             \/ \E p \in Passwords : Login(r, p) \/ \E k \in Links : ResetPassword(r, k, p)
             \/ \E t \in Tokens : Refresh(r, t)
             \/ ReconcileAdmin(r) \/ ForgotPassword(r) \/ UpdateUser(r)
      PROVE  Watched'
  BY <1>1, <1>2 DEF Login, Refresh, Begin, ResetPassword, ReconcileAdmin, ForgotPassword, UpdateUser
<1>3. ASSUME NEW r \in Requests,
             \/ CreatePasswordResetToken(r) \/ Abandon(r) \/ KillFamily(r) \/ CommitReset(r)
             \/ ConsumePasswordResetToken(r)
      PROVE  Watched'
  BY <1>1, <1>3 DEF CreatePasswordResetToken, Abandon, KillFamily, CommitReset, ConsumePasswordResetToken,
                    Return, Revoked
<1>4. ASSUME NEW r \in Requests, RevokeRefreshTokenIfActive(r) PROVE Watched'
  BY <1>1, <1>4 DEF RevokeRefreshTokenIfActive, Return
<1>5. ASSUME NEW r \in Requests, RevokeAllUserRefreshTokens(r) PROVE Watched'
  <2>1. /\ late' = late \union Opening /\ UNCHANGED <<token, survivor>>
        /\ seen'[r] = {t \in Tokens : token[t] = "active"}
        /\ \A q \in Requests \ {r} : pc'[q] = pc[q] /\ seen'[q] = seen[q]
        /\ pc'[r] \in {"killing", "commit"}
    BY <1>5 DEF RevokeAllUserRefreshTokens
  <2> QED
    BY <2>1
<1>6. ASSUME NEW r \in Requests, issue(r) PROVE Watched'
  <2>1. PICK n \in Tokens :
          /\ token' = [token EXCEPT ![n] = "active"]
          /\ survivor' = IF r \in late \/ arg[r] \in survivor THEN survivor \union {n} ELSE survivor
    BY <1>6 DEF issue
  <2>2. /\ pc[r] = "issue" /\ pc'[r] = "idle" /\ late' = late \ {r}
        /\ \A q \in Requests \ {r} : pc'[q] = pc[q] /\ seen'[q] = seen[q]
    BY <1>6 DEF issue, Return
  <2>3. ASSUME NEW q \in Requests, pc'[q] \in {"killing", "commit"}
        PROVE  /\ Opening' \subseteq late'
               /\ \A t \in Tokens : token'[t] = "active" => t \in seen'[q] \/ t \in survivor'
    <3>1. pc[q] \in {"killing", "commit"} /\ q # r
      BY <2>2, <2>3
    <3>2. r \in late
      BY <2>2, <3>1
    <3> QED
      BY <2>1, <2>2, <3>1, <3>2
  <2> QED
    BY <2>3
<1>7. CASE handleLogout \/ CleanupExpiredRefreshTokens \/ ExpireToken \/ ExpireLink \/ UNCHANGED vars
  BY <1>1, <1>7 DEF handleLogout, Logout, CleanupExpiredRefreshTokens, ExpireToken, ExpireLink, vars
<1> QED
  BY <1>2, <1>3, <1>4, <1>5, <1>6, <1>7
  DEF Next, handleLogin, handleRefresh, handleForgotPassword, handleResetPassword

\* The old password opens nothing that outlives a reset (CommitReset, Login, issue).
LEMMA OpenedStep == Typed /\ Rotation /\ Opened /\ Watched /\ Typed' /\ [Next]_vars => Opened'
<1> SUFFICES ASSUME Typed, Rotation, Opened, Watched, Typed', [Next]_vars PROVE Opened'
  OBVIOUS
<1> USE DEF Goto, rows, reqs, history
<1>0. \A r \in Requests : /\ pc[r] \in {"rotate", "kill"} => arg[r] \in Tokens
                          /\ pc[r] \in {"idle", "reconcile"} => arg[r] = 0
                          /\ pc[r] \in {"reconcile", "commit"} => copy[r] \in Row
                          /\ pc[r] = "issue" => arg[r] \in {0} \union Tokens
  BY DEF Typed, TypeOK, Locals
\* A step that changes no password, no session but to end it, and begins to store one only
\* for the password in the row or in place of an active one.
<1>1. ASSUME UNCHANGED <<user, chosen, opened, survivor, overwritten>>,
             \A t \in Tokens : token'[t] = "active" => token[t] = "active",
             \A r \in Requests :
                \/ pc'[r] = pc[r] /\ arg'[r] = arg[r] /\ copy'[r] = copy[r] /\ (r \notin late' => r \notin late \/ pc[r] = "idle")
                \/ pc'[r] \notin {"reconcile", "issue"}
                \/ copy'[r] \in Row /\ copy'[r].password = user.password /\ arg'[r] = 0
                \/ arg'[r] \in Tokens /\ token[arg'[r]] = "active"
      PROVE  Opened'
  <2>1. 0 \notin Tokens
    BY DEF Tokens
  <2>2. \A r \in Requests : pc'[r] = "issue" /\ arg'[r] = 0 => copy'[r] \in Row
    BY <1>1, <2>1 DEF Opened
  <2>3. ASSUME ~overwritten', NEW r \in Requests \ late'
        PROVE  /\ pc'[r] = "reconcile" \/ (pc'[r] = "issue" /\ arg'[r] = 0) => copy'[r].password = chosen'
               /\ pc'[r] = "issue" /\ arg'[r] # 0 => arg'[r] \in survivor' \/ opened'[arg'[r]] = chosen'
    <3>1. Locals'
      BY DEF Typed
    <3> QED
      BY <1>1, <2>1, <2>3, <3>1 DEF Opened, Locals
  <2> QED
    BY <1>1, <2>2, <2>3 DEF Opened
<1>2. ASSUME NEW r \in Requests, NEW p \in Passwords, Login(r, p) PROVE Opened'
  <2>1. [user EXCEPT !.admin = TRUE] \in Row /\ [user EXCEPT !.admin = TRUE].password = user.password
    BY DEF Row, Typed, TypeOK
  <2> QED
    BY <1>0, <1>1, <1>2, <2>1 DEF Login, Begin, Typed, TypeOK
<1>3. ASSUME NEW r \in Requests, ReconcileAdmin(r) PROVE Opened'
  <2>1. /\ pc[r] = "reconcile" /\ user' = copy[r] /\ overwritten' = (overwritten \/ r \in late)
        /\ pc' = [pc EXCEPT ![r] = "issue"] /\ arg[r] = 0 /\ copy[r] \in Row
        /\ UNCHANGED <<token, arg, copy, late, survivor, chosen, opened>>
    BY <1>0, <1>3 DEF ReconcileAdmin
  <2>2. pc'[r] = "issue" /\ \A q \in Requests \ {r} : pc'[q] = pc[q]
    BY <2>1 DEF Typed, TypeOK
  <2>3. overwritten' \in BOOLEAN /\ (~overwritten' => ~overwritten /\ r \notin late)
    BY <2>1 DEF Opened
  <2> QED
    BY <2>1, <2>2, <2>3 DEF Opened
<1>4. ASSUME NEW r \in Requests, issue(r) PROVE Opened'
  <2>1. PICK n \in Tokens :
          /\ token[n] = "none" /\ token' = [token EXCEPT ![n] = "active"]
          /\ survivor' = IF r \in late \/ arg[r] \in survivor THEN survivor \union {n} ELSE survivor
          /\ opened' = [opened EXCEPT ![n] = IF arg[r] = 0 THEN copy[r].password ELSE opened[arg[r]]]
    BY <1>4 DEF issue
  <2>2. pc[r] = "issue" /\ Return(r) /\ late' = late \ {r} /\ UNCHANGED <<user, overwritten, chosen>>
    BY <1>4 DEF issue, Return
  <2>3. pc'[r] = "idle" /\ \A q \in Requests \ {r} : pc'[q] = pc[q] /\ arg'[q] = arg[q] /\ copy'[q] = copy[q]
    BY <2>2 DEF Return, Typed, TypeOK
  <2>4. opened' \in [Tokens -> Passwords]
    <3>1. (IF arg[r] = 0 THEN copy[r].password ELSE opened[arg[r]]) \in Passwords
      BY <1>0, <2>2 DEF Opened, Row
    <3> HIDE DEF Goto
    <3> QED
      BY <2>1, <3>1 DEF Opened
  <2>5. ASSUME ~overwritten, NEW t \in Tokens, token'[t] = "active", t \notin survivor' PROVE opened'[t] = chosen
    <3>1. CASE t = n
      BY <2>1, <2>2, <2>5, <3>1 DEF Opened
    <3>2. CASE t # n
      BY <2>1, <2>5, <3>2 DEF Opened, Typed, TypeOK
    <3> QED
      BY <3>1, <3>2
  <2>6. \A q \in Requests : pc[q] = "issue" /\ arg[q] # 0 => arg[q] # n /\ arg[q] \in Tokens
    BY <1>0, <2>1 DEF Rotation, Gone
  <2>7. ASSUME ~overwritten, NEW q \in Requests \ late'
        PROVE  /\ pc'[q] = "reconcile" \/ (pc'[q] = "issue" /\ arg'[q] = 0) => copy'[q].password = chosen
               /\ pc'[q] = "issue" /\ arg'[q] # 0 => arg'[q] \in survivor' \/ opened'[arg'[q]] = chosen
    <3>1. CASE q = r
      BY <2>3, <3>1
    <3>2. CASE q # r
      BY <2>1, <2>2, <2>3, <2>6, <2>7, <3>2 DEF Opened
    <3> QED
      BY <3>1, <3>2
  <2> QED
    BY <2>2, <2>3, <2>4, <2>5, <2>7 DEF Opened
<1>5. ASSUME NEW r \in Requests, NEW t \in Tokens, Refresh(r, t) PROVE Opened'
  BY <1>1, <1>5 DEF Refresh, Begin, Typed, TypeOK
<1>6. ASSUME NEW r \in Requests, RevokeRefreshTokenIfActive(r) PROVE Opened'
  <2>1. pc[r] = "rotate" /\ arg[r] \in Tokens /\ UNCHANGED <<user, chosen, opened, survivor, overwritten>>
    BY <1>0, <1>6 DEF RevokeRefreshTokenIfActive
  <2>2. CASE /\ token[arg[r]] = "active" /\ token' = [token EXCEPT ![arg[r]] = "revoked"]
             /\ pc' = [pc EXCEPT ![r] = "issue"] /\ UNCHANGED <<arg, copy, late>>
    BY <1>1, <2>1, <2>2 DEF Typed, TypeOK
  <2>3. CASE /\ pc' = [pc EXCEPT ![r] = "kill"] /\ UNCHANGED <<token, arg, copy, late>>
    BY <1>1, <2>1, <2>3 DEF Typed, TypeOK
  <2>4. CASE Return(r) /\ UNCHANGED token
    BY <1>1, <2>1, <2>4 DEF Return, Typed, TypeOK
  <2> QED
    BY <1>6, <2>2, <2>3, <2>4 DEF RevokeRefreshTokenIfActive
<1>7. ASSUME NEW r \in Requests, KillFamily(r) PROVE Opened'
  BY <1>1, <1>7 DEF KillFamily, Return, Revoked, Typed, TypeOK
<1>8. CASE handleLogout \/ CleanupExpiredRefreshTokens
  BY <1>1, <1>8 DEF handleLogout, Logout, CleanupExpiredRefreshTokens, Typed, TypeOK
<1>9. ASSUME NEW r \in Requests,
             \/ ForgotPassword(r) \/ CreatePasswordResetToken(r) \/ Abandon(r)
             \/ \E k \in Links, p \in Passwords : ResetPassword(r, k, p)
             \/ RevokeAllUserRefreshTokens(r) \/ ConsumePasswordResetToken(r) \/ UpdateUser(r)
      PROVE  Opened'
  BY <1>1, <1>9 DEF ForgotPassword, CreatePasswordResetToken, ResetPassword, Abandon, RevokeAllUserRefreshTokens,
                    ConsumePasswordResetToken, UpdateUser, Return, Typed, TypeOK
<1>10. ASSUME NEW r \in Requests, CommitReset(r) PROVE Opened'
  <2>1. /\ pc[r] = "commit" /\ copy[r] \in Row /\ late' = late \ {r} /\ UNCHANGED <<survivor, opened>>
        /\ token' = Revoked(r) /\ user' = copy[r] /\ chosen' = copy[r].password /\ overwritten' = FALSE
    BY <1>0, <1>10 DEF CommitReset, Return
  <2>2. pc'[r] = "idle" /\ \A q \in Requests \ {r} : pc'[q] = pc[q] /\ arg'[q] = arg[q] /\ copy'[q] = copy[q]
    BY <1>10 DEF CommitReset, Return, Typed, TypeOK
  <2>3. \A t \in Tokens : token'[t] = "active" => t \in survivor'
    BY <2>1 DEF Revoked, Watched
  <2>4. \A q \in Requests \ late' : pc'[q] \notin {"reconcile", "issue"}
    BY <2>1, <2>2 DEF Watched, Opening
  <2>5. chosen' \in Passwords
    BY <2>1 DEF Row
  <2>6. \A q \in Requests : pc'[q] = "issue" /\ arg'[q] = 0 => copy'[q] \in Row
    BY <2>2 DEF Opened
  <2> QED
    BY <2>1, <2>3, <2>4, <2>5, <2>6 DEF Opened
<1>11. CASE ExpireToken \/ ExpireLink \/ UNCHANGED vars
  BY <1>1, <1>11 DEF ExpireToken, ExpireLink, vars
<1> QED
  BY <1>2, <1>3, <1>4, <1>5, <1>6, <1>7, <1>8, <1>9, <1>10, <1>11
  DEF Next, handleLogin, handleRefresh, handleForgotPassword, handleResetPassword

\* All three (Spec).
LEMMA SessionsInvariant == Spec => [](Families /\ Watched /\ Opened)
<1>1. Init => Families /\ Watched /\ Opened
  <2> SUFFICES ASSUME Init PROVE Families /\ Watched /\ Opened
    OBVIOUS
  <2>1. Families
    BY DEF Init, Families, Gone, Issued
  <2>4. Watched
    BY DEF Init, Watched
  <2>2. user.password \in Passwords
    BY DEF Init
  <2>3. Opened
    BY <2>2 DEF Init, Opened
  <2> QED
    BY <2>1, <2>3, <2>4
<1>2. Inv /\ Inv' /\ Families /\ Watched /\ Opened /\ [Next]_vars => Families' /\ Watched' /\ Opened'
  BY FamiliesStep, WatchedStep, OpenedStep DEF Inv
<1> QED
  BY <1>1, <1>2, Invariant, PTL DEF Spec

\* A token that was used twice is recognised and leaves no session (Refresh, KillFamily,
\* CleanupExpiredRefreshTokens).
THEOREM ReplaysEndFamilies == Spec => []ReplayKillsFamily
<1>1. Families => FamilyEnds
  <2> SUFFICES ASSUME Families, NEW t \in Tokens, presented[t] >= 2, NEW u \in Descendants(t), token[u] = "active"
               PROVE  u \in survivor
    BY DEF FamilyEnds
  <2>1. presented[t] = 2
    BY DEF Families
  <2>2. PICK S \in SUBSET Issued : Ended(t, S)
    BY <2>1 DEF Families
  <2>3. u \in S \ {t}
    BY <2>2 DEF Descendants, Ended, Issued
  <2> QED
    BY <2>2, <2>3 DEF Ended
<1>2. FamilyEnds /\ TombstonesStay => ReplayKillsFamily
  BY DEF ReplayKillsFamily
<1> QED
  BY <1>1, <1>2, SessionsInvariant, ReplaysAreSeen, PTL

\* After a reset the old password's sessions are out (ResetPassword, CommitReset).
THEOREM ResetsLockOut == Spec => []OldPasswordOut
<1>1. Opened => OldPasswordOut
  BY DEF Opened, OldPasswordOut
<1> QED
  BY <1>1, SessionsInvariant, PTL

-----------------------------------------------------------------------------
(* Organizations: what a request has decided on holds until it writes.     *)
(*                                                                         *)
(* Decided says what the reads of a request still tell when it writes,     *)
(* unless another request has written since (late): that another owner     *)
(* stays, that the invitation is pending, that the project is there or     *)
(* nothing is in it, and that the column it does not set is the row's.     *)

OrgRow == [name : Values \union {0}, cap : Values \union {0}]
InviteRow == [status : {None, "pending", "accepted", "revoked"}, user : Users \union {None},
              role : Roles \union {None}, project : Projects \union {None}]
JobRecord ==
    [op : {"idle", "role", "remove", "invite", "accept", "project", "drop", "app", "name", "cap"},
     at : {"", "target", "count", "write", "tx", "inUse", "delete"},
     user : Users \union {None}, role : Roles \union {None}, project : Projects \union {None},
     inv : Invites \union {0}, row : OrgRow, late : BOOLEAN]

\* The arguments that an operation has, and its calls.
JobShape(j) ==
    /\ j.op = "idle" => j = Idle
    /\ j.at \in {"target", "count"} => j.op \in {"role", "remove"}
    /\ j.op \in {"role", "remove"} => j.user \in Users
    /\ j.op = "accept" => j.inv \in Invites
    /\ j.op = "drop" => j.at \in {"inUse", "delete"}
    /\ j.op \in {"project", "drop", "app"} => j.project \in Projects

JobsTyped ==
    /\ job \in [Calls -> JobRecord]
    /\ \A r \in Calls : JobShape(job[r])

OrgTypes ==
    /\ role \in [Users -> Roles \union {None}]
    /\ project \subseteq Projects
    /\ access \in [Projects -> [Users -> Roles \union {None}]]
    /\ app \in Projects \union {None}
    /\ inv \in [Invites -> InviteRow]
    /\ org \in OrgRow
    /\ JobsTyped

DecidedOn(j) ==
    ~j.late =>
        /\ j.op \in {"role", "remove"} /\ j.at = "write" /\ j.role # "owner" =>
              \/ role[j.user] \in {"member", "admin"}
              \/ \E u \in Owners : u # j.user
        /\ j.op = "accept" => inv[j.inv].status = "pending"
        /\ j.op = "app" => j.project \in project
        /\ j.op = "drop" /\ j.at = "delete" => app # j.project \/ app = None
        /\ j.op = "name" => j.row.cap = org.cap
        /\ j.op = "cap" => j.row.name = org.name

Decided == \A r \in Calls : DecidedOn(job[r])

\* A step of a request.
CallStep(r) ==
    \/ handleUpdateMember(r) \/ handleRemoveMember(r)
    \/ GetMembership(r) \/ countOwners(r) \/ WriteMembership(r)
    \/ handleCreateInvitation(r) \/ handleRevokeInvitation(r) \/ handleAcceptInvitation(r)
    \/ handleCreateProject(r) \/ handleDeleteProject(r)
    \/ handleCreateAppInProject(r) \/ DeleteApp(r)
    \/ handleUpdateOrg(r) \/ handleSetSpendCap(r)
    \/ GiveUp(r)

\* An organization starts with its founder, its default project and no requests (Signup).
LEMMA OrgInitial == OrgInit => OrgTypes /\ Decided
<1> SUFFICES ASSUME OrgInit PROVE OrgTypes /\ Decided
  OBVIOUS
<1> USE DEF OrgInit
<1>1. NoInvite \in InviteRow
  BY DEF NoInvite, InviteRow, None
<1>2. FALSE \in BOOLEAN /\ Idle \in JobRecord
  BY DEF Idle, JobRecord, OrgRow, None
<1>3. JobShape(Idle) /\ DecidedOn(Idle)
  BY DEF JobShape, DecidedOn, Idle
<1>4. OrgTypes
  BY <1>1, <1>2, <1>3, FounderAssumption, DefaultAssumption DEF OrgTypes, JobsTyped, OrgRow, Roles, None
<1> QED
  BY <1>3, <1>4 DEF Decided

\* A request's own step gives it another record and leaves the others theirs.
LEMMA OwnJob ==
    ASSUME JobsTyped, NEW r \in Calls, NEW j \in JobRecord, JobShape(j),
           job' = [job EXCEPT ![r] = j]
    PROVE  JobsTyped'
  BY DEF JobsTyped

\* A request that is overtaken changes in nothing else.
LEMMA Later ==
    ASSUME NEW j \in JobRecord, JobShape(j), j.op # "idle", NEW b \in BOOLEAN
    PROVE  LET k == [j EXCEPT !.late = b] IN
           k \in JobRecord /\ JobShape(k) /\ k.late = b /\ (b = j.late => k = j)
<1> DEFINE k == [j EXCEPT !.late = b]
<1>1. k \in JobRecord /\ k.late = b
  BY DEF JobRecord
<1>2. /\ k.op = j.op /\ k.at = j.at /\ k.user = j.user /\ k.role = j.role
      /\ k.project = j.project /\ k.inv = j.inv /\ k.row = j.row
  BY DEF JobRecord
<1>3. JobShape(k)
  BY <1>2 DEF JobShape
<1>4. b = j.late => k = j
  BY DEF JobRecord
<1> QED
  BY <1>1, <1>3, <1>4

\* What the end of a request that has written does to the requests (Overtake).
LEMMA Overtaken ==
    ASSUME JobsTyped, NEW r \in Calls, NEW X, Overtake(r, X),
           \A q \in X : job[q].op # "idle"
    PROVE  /\ JobsTyped'
           /\ job'[r] = Idle
           /\ \A q \in Calls \ {r} : IF q \in X THEN job'[q].late ELSE job'[q] = job[q]
<1>1. job'[r] = Idle /\ DOMAIN job' = Calls /\ job' = [q \in Calls |-> job'[q]]
  BY DEF Overtake
<1>2. Idle \in JobRecord /\ JobShape(Idle)
  BY DEF Idle, JobRecord, JobShape, OrgRow, None
<1>3. ASSUME NEW q \in Calls, q # r
      PROVE  /\ job'[q] \in JobRecord /\ JobShape(job'[q])
             /\ IF q \in X THEN job'[q].late ELSE job'[q] = job[q]
  <2> DEFINE b == job[q].late \/ q \in X
  <2>1. job'[q] = [job[q] EXCEPT !.late = b]
    BY <1>3 DEF Overtake
  <2>2. job[q] \in JobRecord /\ JobShape(job[q])
    BY <1>3 DEF JobsTyped
  <2>3. job[q].late \in BOOLEAN
    BY <2>2 DEF JobRecord
  <2>4. b \in BOOLEAN
    OBVIOUS
  <2>5. q \notin X => b = job[q].late
    BY <2>3
  <2>6. CASE job[q].op # "idle"
    <3> HIDE DEF b
    <3>1. /\ [job[q] EXCEPT !.late = b] \in JobRecord /\ JobShape([job[q] EXCEPT !.late = b])
          /\ [job[q] EXCEPT !.late = b].late = b /\ (b = job[q].late => [job[q] EXCEPT !.late = b] = job[q])
      BY <2>2, <2>4, <2>6, Later
    <3>2. q \in X => b
      BY DEF b
    <3> QED
      BY <2>1, <2>5, <3>1, <3>2
  <2>7. CASE job[q].op = "idle"
    <3>1. q \notin X
      BY <2>7
    <3>2. [job[q] EXCEPT !.late = job[q].late] = job[q]
      BY <2>2 DEF JobRecord
    <3> QED
      BY <2>1, <2>2, <2>5, <3>1, <3>2
  <2> QED
    BY <2>6, <2>7
<1>4. \A q \in Calls : job'[q] \in JobRecord /\ JobShape(job'[q])
  BY <1>1, <1>2, <1>3
<1>5. job' \in [Calls -> JobRecord]
  BY <1>1, <1>4
<1> QED
  BY <1>1, <1>3, <1>4, <1>5 DEF JobsTyped

\* A started request's record, complete.
Fresh(op, at, who, to, p, i, w) ==
    [op |-> op, at |-> at, user |-> who, role |-> to, project |-> p, inv |-> i, row |-> w,
     late |-> FALSE]
NoOrgRow == [name |-> 0, cap |-> 0]

\* ... for each operation (Start).
LEMMA Started ==
    ASSUME job \in [Calls -> JobRecord], NEW r \in Calls, NEW u, NEW to, NEW p, NEW i, NEW w
    PROVE
        /\ Start(r, [op |-> "role", at |-> "target", user |-> u, role |-> to]) =>
             job[r] = Idle /\ job' = [job EXCEPT ![r] = Fresh("role", "target", u, to, None, 0, NoOrgRow)]
        /\ Start(r, [op |-> "remove", at |-> "target", user |-> u]) =>
             job[r] = Idle /\ job' = [job EXCEPT ![r] = Fresh("remove", "target", u, None, None, 0, NoOrgRow)]
        /\ Start(r, [op |-> "accept", at |-> "tx", inv |-> i]) =>
             job[r] = Idle /\ job' = [job EXCEPT ![r] = Fresh("accept", "tx", None, None, None, i, NoOrgRow)]
        /\ Start(r, [op |-> "project", at |-> "write", project |-> p]) =>
             job[r] = Idle /\ job' = [job EXCEPT ![r] = Fresh("project", "write", None, None, p, 0, NoOrgRow)]
        /\ Start(r, [op |-> "drop", at |-> "inUse", project |-> p]) =>
             job[r] = Idle /\ job' = [job EXCEPT ![r] = Fresh("drop", "inUse", None, None, p, 0, NoOrgRow)]
        /\ Start(r, [op |-> "app", at |-> "write", project |-> p]) =>
             job[r] = Idle /\ job' = [job EXCEPT ![r] = Fresh("app", "write", None, None, p, 0, NoOrgRow)]
        /\ Start(r, [op |-> "name", at |-> "write", row |-> w]) =>
             job[r] = Idle /\ job' = [job EXCEPT ![r] = Fresh("name", "write", None, None, None, 0, w)]
        /\ Start(r, [op |-> "cap", at |-> "write", row |-> w]) =>
             job[r] = Idle /\ job' = [job EXCEPT ![r] = Fresh("cap", "write", None, None, None, 0, w)]
<1>1. Start(r, [op |-> "role", at |-> "target", user |-> u, role |-> to]) =>
       job[r] = Idle /\ job' = [job EXCEPT ![r] = Fresh("role", "target", u, to, None, 0, NoOrgRow)]
  BY DEF Start, Idle, Fresh, NoOrgRow
<1>2. Start(r, [op |-> "remove", at |-> "target", user |-> u]) =>
       job[r] = Idle /\ job' = [job EXCEPT ![r] = Fresh("remove", "target", u, None, None, 0, NoOrgRow)]
  BY DEF Start, Idle, Fresh, NoOrgRow
<1>4. Start(r, [op |-> "accept", at |-> "tx", inv |-> i]) =>
       job[r] = Idle /\ job' = [job EXCEPT ![r] = Fresh("accept", "tx", None, None, None, i, NoOrgRow)]
  BY DEF Start, Idle, Fresh, NoOrgRow
<1>5. Start(r, [op |-> "project", at |-> "write", project |-> p]) =>
       job[r] = Idle /\ job' = [job EXCEPT ![r] = Fresh("project", "write", None, None, p, 0, NoOrgRow)]
  BY DEF Start, Idle, Fresh, NoOrgRow
<1>6. Start(r, [op |-> "drop", at |-> "inUse", project |-> p]) =>
       job[r] = Idle /\ job' = [job EXCEPT ![r] = Fresh("drop", "inUse", None, None, p, 0, NoOrgRow)]
  BY DEF Start, Idle, Fresh, NoOrgRow
<1>7. Start(r, [op |-> "app", at |-> "write", project |-> p]) =>
       job[r] = Idle /\ job' = [job EXCEPT ![r] = Fresh("app", "write", None, None, p, 0, NoOrgRow)]
  BY DEF Start, Idle, Fresh, NoOrgRow
<1>8. Start(r, [op |-> "name", at |-> "write", row |-> w]) =>
       job[r] = Idle /\ job' = [job EXCEPT ![r] = Fresh("name", "write", None, None, None, 0, w)]
  BY DEF Start, Idle, Fresh, NoOrgRow
<1>9. Start(r, [op |-> "cap", at |-> "write", row |-> w]) =>
       job[r] = Idle /\ job' = [job EXCEPT ![r] = Fresh("cap", "write", None, None, None, 0, w)]
  BY DEF Start, Idle, Fresh, NoOrgRow
<1> QED
  BY <1>1, <1>2, <1>4, <1>5, <1>6, <1>7, <1>8, <1>9

\* ... an invitation's apart.
LEMMA StartedInvite ==
    ASSUME job \in [Calls -> JobRecord], NEW r \in Calls, NEW u, NEW to, NEW p,
           Start(r, [op |-> "invite", at |-> "write", user |-> u, role |-> to, project |-> p])
    PROVE  job[r] = Idle /\ job' = [job EXCEPT ![r] = Fresh("invite", "write", u, to, p, 0, NoOrgRow)]
<1> DEFINE fields == [op |-> "invite", at |-> "write", user |-> u, role |-> to, project |-> p]
           j == [f \in DOMAIN Idle |-> IF f \in DOMAIN fields THEN fields[f] ELSE Idle[f]]
<1>1. j = Fresh("invite", "write", u, to, p, 0, NoOrgRow)
  <2>1. DOMAIN Idle = {"op", "at", "user", "role", "project", "inv", "row", "late"}
    BY DEF Idle
  <2>2. DOMAIN fields = {"op", "at", "user", "role", "project"}
    OBVIOUS
  <2>3. /\ Idle.inv = 0 /\ Idle.row = NoOrgRow /\ Idle.late = FALSE
    BY DEF Idle, NoOrgRow
  <2>4. /\ fields.op = "invite" /\ fields.at = "write" /\ fields.user = u /\ fields.role = to
        /\ fields.project = p
    OBVIOUS
  <2> HIDE DEF fields
  <2>5. /\ j["op"] = "invite" /\ j["at"] = "write" /\ j["user"] = u /\ j["role"] = to
        /\ j["project"] = p /\ j["inv"] = 0 /\ j["row"] = NoOrgRow /\ j["late"] = FALSE
    BY <2>1, <2>2, <2>3, <2>4
  <2>6. DOMAIN j = DOMAIN Idle /\ j = [f \in DOMAIN Idle |-> j[f]]
    OBVIOUS
  <2> HIDE DEF j
  <2> QED
    BY <2>1, <2>5, <2>6 DEF Fresh
<1>2. job[r] = Idle /\ job' = [job EXCEPT ![r] = j]
  BY DEF Start
<1> QED
  BY <1>1, <1>2

\* A started request's record is well typed.
LEMMA StartedTyped ==
    ASSUME JobsTyped, NEW r \in Calls,
           NEW op \in {"role", "remove", "invite", "accept", "project", "drop", "app", "name", "cap"},
           NEW at \in {"target", "write", "tx", "inUse"}, NEW u \in Users \union {None},
           NEW to \in Roles \union {None}, NEW p \in Projects \union {None},
           NEW i \in Invites \union {0}, NEW w \in OrgRow,
           op \in {"role", "remove"} => u \in Users,
           at = "target" => op \in {"role", "remove"},
           op = "accept" => i \in Invites,
           op = "drop" => at = "inUse",
           op \in {"project", "drop", "app"} => p \in Projects,
           job' = [job EXCEPT ![r] = Fresh(op, at, u, to, p, i, w)]
    PROVE  JobsTyped'
<1>1. Fresh(op, at, u, to, p, i, w) \in JobRecord
  BY DEF Fresh, JobRecord
<1>2. JobShape(Fresh(op, at, u, to, p, i, w))
  BY DEF Fresh, JobShape
<1> QED
  BY <1>1, <1>2, OwnJob

\* Every step keeps the types.
LEMMA OrgTypesStep ==
    ASSUME OrgTypes, NEW r \in Calls, CallStep(r)
    PROVE  OrgTypes'
<1> USE DEF OrgTypes
<1>0. /\ job[r] \in JobRecord /\ JobShape(job[r]) /\ JobsTyped
      /\ Idle \in JobRecord /\ JobShape(Idle)
  BY DEF JobsTyped, Idle, JobRecord, JobShape, OrgRow, None
<1>E. ASSUME Finish(r) PROVE JobsTyped'
  BY <1>0, <1>E, OwnJob DEF Finish
<1>A. ASSUME NEW at \in {"count", "write", "delete"}, Advance(r, at),
             at = "count" => job[r].op \in {"role", "remove"},
             job[r].op \in {"role", "remove", "drop"},
             job[r].op = "drop" => at = "delete"
      PROVE  JobsTyped'
  <2> DEFINE j == [job[r] EXCEPT !.at = at]
  <2>0. /\ j \in JobRecord /\ j.op = job[r].op /\ j.at = at /\ j.user = job[r].user
        /\ j.project = job[r].project /\ j.inv = job[r].inv
    BY <1>0, <1>A DEF JobRecord
  <2>1. j \in JobRecord /\ JobShape(j)
    BY <1>0, <1>A, <2>0 DEF JobShape
  <2>2. job' = [job EXCEPT ![r] = j]
    BY <1>0, <1>A DEF Advance, JobsTyped
  <2> QED
    BY <1>0, <2>1, <2>2, OwnJob
<1>N. None \in {None} /\ NoOrgRow \in OrgRow
  BY DEF NoOrgRow, OrgRow
<1>J. job \in [Calls -> JobRecord]
  BY DEF JobsTyped
<1>1. CASE UpdateMemberRole(r)
  <2>1. PICK u \in Users, to \in Roles :
           /\ Start(r, [op |-> "role", at |-> "target", user |-> u, role |-> to])
           /\ UNCHANGED tables
    BY <1>1, GivenRolesAssumption DEF UpdateMemberRole
  <2>2. job' = [job EXCEPT ![r] = Fresh("role", "target", u, to, None, 0, NoOrgRow)]
    BY <2>1, <1>J, Started
  <2>3. JobsTyped'
    BY <2>2, <1>N, StartedTyped
  <2> QED
    BY <2>1, <2>3 DEF tables
<1>19. CASE RemoveMember(r)
  <2>1. PICK u \in Users : Start(r, [op |-> "remove", at |-> "target", user |-> u]) /\ UNCHANGED tables
    BY <1>19 DEF RemoveMember
  <2>2. job' = [job EXCEPT ![r] = Fresh("remove", "target", u, None, None, 0, NoOrgRow)]
    BY <2>1, <1>J, Started
  <2>3. JobsTyped'
    BY <2>2, <1>N, StartedTyped
  <2> QED
    BY <2>1, <2>3 DEF tables
<1>2. CASE Invite(r)
  <2>1. PICK u \in Users, to \in Roles, p \in Projects \union {None} :
           /\ Start(r, [op |-> "invite", at |-> "write", user |-> u, role |-> to, project |-> p])
           /\ UNCHANGED tables
    BY <1>2, GivenRolesAssumption DEF Invite
  <2>2. job' = [job EXCEPT ![r] = Fresh("invite", "write", u, to, p, 0, NoOrgRow)]
    BY <2>1, <1>J, StartedInvite
  <2>3. JobsTyped'
    BY <2>2, <1>N, StartedTyped
  <2> QED
    BY <2>1, <2>3 DEF tables
<1>3. CASE CreateProject(r) \/ DeleteProject(r) \/ CreateAppInProject(r)
  <2>1. PICK p \in Projects :
           /\ \/ Start(r, [op |-> "project", at |-> "write", project |-> p])
              \/ Start(r, [op |-> "drop", at |-> "inUse", project |-> p])
              \/ Start(r, [op |-> "app", at |-> "write", project |-> p])
           /\ UNCHANGED tables
    BY <1>3 DEF CreateProject, DeleteProject, CreateAppInProject
  <2>2. \/ job' = [job EXCEPT ![r] = Fresh("project", "write", None, None, p, 0, NoOrgRow)]
        \/ job' = [job EXCEPT ![r] = Fresh("drop", "inUse", None, None, p, 0, NoOrgRow)]
        \/ job' = [job EXCEPT ![r] = Fresh("app", "write", None, None, p, 0, NoOrgRow)]
    BY <2>1, <1>J, Started
  <2>3. ASSUME NEW j, job' = [job EXCEPT ![r] = j], j \in JobRecord, JobShape(j)
        PROVE  JobsTyped'
    BY <2>3, <1>0, OwnJob
  <2>4. /\ Fresh("project", "write", None, None, p, 0, NoOrgRow) \in JobRecord
        /\ Fresh("drop", "inUse", None, None, p, 0, NoOrgRow) \in JobRecord
        /\ Fresh("app", "write", None, None, p, 0, NoOrgRow) \in JobRecord
    BY <1>N DEF Fresh, JobRecord
  <2>5. /\ JobShape(Fresh("project", "write", None, None, p, 0, NoOrgRow))
        /\ JobShape(Fresh("drop", "inUse", None, None, p, 0, NoOrgRow))
        /\ JobShape(Fresh("app", "write", None, None, p, 0, NoOrgRow))
    BY DEF Fresh, JobShape
  <2>6. JobsTyped'
    BY <2>2, <2>3, <2>4, <2>5
  <2> QED
    BY <2>1, <2>6 DEF tables
<1>4. CASE AcceptInvitation(r)
  <2>1. PICK i \in Invites : Start(r, [op |-> "accept", at |-> "tx", inv |-> i]) /\ UNCHANGED tables
    BY <1>4 DEF AcceptInvitation
  <2> DEFINE j == Fresh("accept", "tx", None, None, None, i, NoOrgRow)
  <2>2. job' = [job EXCEPT ![r] = j]
    BY <2>1, <1>J, Started
  <2>3. j \in JobRecord
    BY <1>N DEF Fresh, JobRecord
  <2>4. JobShape(j)
    BY DEF Fresh, JobShape
  <2> HIDE DEF j
  <2>5. JobsTyped'
    BY <1>0, <2>2, <2>3, <2>4, OwnJob
  <2> QED
    BY <2>1, <2>5 DEF tables
<1>5. CASE UpdateOrganization(r) \/ SetSpendCap(r)
  <2>1. PICK v \in Values, f \in {"name", "cap"} :
           /\ Start(r, [op |-> f, at |-> "write", row |-> [org EXCEPT ![f] = v]])
           /\ UNCHANGED tables
    BY <1>5 DEF UpdateOrganization, SetSpendCap, ReadOrg
  <2> DEFINE w == [org EXCEPT ![f] = v]
  <2>2. w \in OrgRow
    BY DEF OrgRow
  <2> HIDE DEF w
  <2>3. \/ Start(r, [op |-> "name", at |-> "write", row |-> w])
        \/ Start(r, [op |-> "cap", at |-> "write", row |-> w])
    BY <2>1 DEF w
  <2>4. \/ job' = [job EXCEPT ![r] = Fresh("name", "write", None, None, None, 0, w)]
        \/ job' = [job EXCEPT ![r] = Fresh("cap", "write", None, None, None, 0, w)]
    BY <2>3, <1>J, Started
  <2>5. ASSUME NEW j, job' = [job EXCEPT ![r] = j], j \in JobRecord, JobShape(j)
        PROVE  JobsTyped'
    BY <2>5, <1>0, OwnJob
  <2>6. /\ Fresh("name", "write", None, None, None, 0, w) \in JobRecord
        /\ Fresh("cap", "write", None, None, None, 0, w) \in JobRecord
    BY <2>2, <1>N DEF Fresh, JobRecord
  <2>7. /\ JobShape(Fresh("name", "write", None, None, None, 0, w))
        /\ JobShape(Fresh("cap", "write", None, None, None, 0, w))
    BY DEF Fresh, JobShape
  <2>8. JobsTyped'
    BY <2>4, <2>5, <2>6, <2>7
  <2> QED
    BY <2>1, <2>8 DEF tables
<1>6. CASE GetMembership(r)
  BY <1>6, <1>0, <1>A, <1>E DEF GetMembership, tables, JobShape
<1>7. CASE countOwners(r)
  BY <1>7, <1>0, <1>A, <1>E DEF countOwners, tables, JobShape
<1>8. CASE WriteMembership(r)
  <2>1. JobsTyped'
    BY <1>8, <1>0, Overtaken DEF WriteMembership
  <2>2. role' \in [Users -> Roles \union {None}]
    BY <1>8, <1>0 DEF WriteMembership, JobRecord
  <2> QED
    BY <1>8, <2>1, <2>2 DEF WriteMembership
<1>9. CASE CreateInvitation(r)
  <2>1. [status |-> "pending", user |-> job[r].user, role |-> job[r].role,
         project |-> job[r].project] \in InviteRow
    BY <1>0 DEF JobRecord, InviteRow
  <2> QED
    BY <1>9, <2>1, <1>0, <1>E DEF CreateInvitation, At
<1>10. CASE RevokeInvitation(r)
  <2>1. JobsTyped'
    BY <1>10, <1>0, Overtaken DEF RevokeInvitation, Accepting
  <2>2. inv' \in [Invites -> InviteRow]
    <3>1. PICK i \in Invites : inv' = [inv EXCEPT ![i].status = "revoked"]
      BY <1>10 DEF RevokeInvitation
    <3> QED
      BY <3>1 DEF InviteRow
  <2> QED
    BY <1>10, <2>1, <2>2 DEF RevokeInvitation
<1>11. CASE AcceptCommit(r)
  <2>1. JobsTyped'
    BY <1>11, <1>0, Overtaken DEF AcceptCommit, Accepting
  <2>2. inv' \in [Invites -> InviteRow]
    BY <1>11 DEF AcceptCommit, InviteRow
  <2> DEFINE v == inv[job[r].inv]
  <2>3. v.role \in Roles \union {None} /\ "member" \in Roles
    BY <1>11, <1>0 DEF AcceptCommit, At, JobShape, InviteRow, Roles
  <2>4. role' \in [Users -> Roles \union {None}]
    BY <1>11, <2>3 DEF AcceptCommit
  <2>5. access' \in [Projects -> [Users -> Roles \union {None}]]
    BY <1>11, <2>3 DEF AcceptCommit
  <2> QED
    BY <1>11, <2>1, <2>2, <2>4, <2>5 DEF AcceptCommit
<1>12. CASE InsertProject(r)
  BY <1>12, <1>0, <1>E DEF InsertProject, At, JobShape
<1>13. CASE projectInUse(r)
  BY <1>13, <1>0, <1>A, <1>E DEF projectInUse, At, tables
<1>14. CASE DropProject(r)
  <2>1. JobsTyped'
    BY <1>14, <1>0, Overtaken DEF DropProject, At
  <2> QED
    BY <1>14, <2>1 DEF DropProject
<1>15. CASE CreateApp(r)
  <2>1. JobsTyped'
    BY <1>15, <1>0, Overtaken DEF CreateApp
  <2> QED
    BY <1>15, <2>1, <1>0 DEF CreateApp, At, JobShape
<1>16. CASE DeleteApp(r)
  BY <1>16 DEF DeleteApp, JobsTyped
<1>17. CASE UpdateOrg(r)
  <2>1. JobsTyped'
    BY <1>17, <1>0, Overtaken DEF UpdateOrg
  <2> QED
    BY <1>17, <2>1, <1>0 DEF UpdateOrg, JobRecord
<1>18. CASE GiveUp(r)
  BY <1>18, <1>E DEF GiveUp, tables
<1> QED
  BY <1>1, <1>2, <1>3, <1>4, <1>5, <1>6, <1>7, <1>8, <1>9, <1>10, <1>11, <1>12, <1>13, <1>14,
     <1>15, <1>16, <1>17, <1>18, <1>19
     DEF CallStep, handleUpdateMember, handleRemoveMember, handleCreateInvitation,
         handleRevokeInvitation, handleAcceptInvitation, handleCreateProject, handleDeleteProject,
         handleCreateAppInProject, handleUpdateOrg, handleSetSpendCap

\* A step leaves the other requests as they are, or makes them late.
LEMMA OtherJobs ==
    ASSUME OrgTypes, NEW r \in Calls, CallStep(r), NEW q \in Calls, q # r
    PROVE  job'[q] = job[q] \/ job'[q].late
<1>0. JobsTyped /\ job \in [Calls -> JobRecord] /\ JobShape(job[r])
  BY DEF OrgTypes, JobsTyped
<1> USE DEF Finish, Advance, Start
<1>1. CASE \/ UpdateMemberRole(r) \/ RemoveMember(r) \/ Invite(r) \/ AcceptInvitation(r)
           \/ CreateProject(r) \/ DeleteProject(r) \/ CreateAppInProject(r)
           \/ UpdateOrganization(r) \/ SetSpendCap(r)
  <2>1. \E j : job' = [job EXCEPT ![r] = j]
    BY <1>1, Zenon DEF UpdateMemberRole, RemoveMember, Invite, AcceptInvitation, CreateProject, DeleteProject,
                CreateAppInProject, UpdateOrganization, SetSpendCap, ReadOrg
  <2> QED
    BY <2>1, <1>0
<1>2. CASE \/ GetMembership(r) \/ countOwners(r) \/ CreateInvitation(r) \/ InsertProject(r)
           \/ projectInUse(r) \/ DeleteApp(r) \/ GiveUp(r)
  BY <1>0, <1>2 DEF GetMembership, countOwners, CreateInvitation, InsertProject, projectInUse, DeleteApp,
                    GiveUp
<1>3. CASE WriteMembership(r)
  BY <1>0, <1>3, Overtaken DEF WriteMembership
<1>4. CASE RevokeInvitation(r)
  BY <1>0, <1>4, Overtaken DEF RevokeInvitation, Accepting
<1>5. CASE AcceptCommit(r)
  BY <1>0, <1>5, Overtaken DEF AcceptCommit, Accepting
<1>6. CASE DropProject(r)
  BY <1>0, <1>6, Overtaken DEF DropProject
<1>7. CASE CreateApp(r)
  BY <1>0, <1>7, Overtaken DEF CreateApp
<1>8. CASE UpdateOrg(r)
  BY <1>0, <1>8, Overtaken DEF UpdateOrg
<1> QED
  BY <1>1, <1>2, <1>3, <1>4, <1>5, <1>6, <1>7, <1>8
     DEF CallStep, handleUpdateMember, handleRemoveMember, handleCreateInvitation,
         handleRevokeInvitation, handleAcceptInvitation, handleCreateProject, handleDeleteProject,
         handleCreateAppInProject, handleUpdateOrg, handleSetSpendCap

\* What the others have decided on is still so after a step, or they are late.
LEMMA OthersDecided ==
    ASSUME OrgTypes, Decided, NEW r \in Calls, CallStep(r), NEW q \in Calls, q # r,
           NEW j, j = job'[q]
    PROVE  DecidedOn(j)'
<1>0. JobsTyped /\ job \in [Calls -> JobRecord] /\ JobShape(job[r]) /\ JobShape(job[q])
  BY DEF OrgTypes, JobsTyped
<1> SUFFICES ASSUME ~j.late PROVE DecidedOn(j)'
  BY DEF DecidedOn
<1>j. j = job[q] /\ DecidedOn(j) /\ JobShape(j) /\ j \in JobRecord
  BY <1>0, OtherJobs DEF Decided
<1>X. ASSUME NEW X, Overtake(r, X), \A p \in X : job[p].op # "idle" PROVE q \notin X
  BY <1>0, <1>X, Overtaken
<1>1. CASE UNCHANGED tables
  BY <1>1, <1>j DEF tables, DecidedOn, Owners
<1>3. CASE WriteMembership(r)
  <2> DEFINE X == {p \in Calls : job[p].at = "write" /\ job[p].op \in {"role", "remove"}}
  <2>1. q \notin X
    BY <1>3, <1>X DEF WriteMembership
  <2> QED
    BY <1>3, <1>j, <2>1 DEF WriteMembership, DecidedOn
<1>4. CASE RevokeInvitation(r) \/ CreateInvitation(r)
  <2>1. PICK i \in Invites :
           \/ inv' = [inv EXCEPT ![i].status = "revoked"] /\ Overtake(r, Accepting(i))
           \/ inv' = [inv EXCEPT ![i] = [status |-> "pending", user |-> job[r].user,
                                         role |-> job[r].role, project |-> job[r].project]]
    BY <1>4, Zenon DEF RevokeInvitation, CreateInvitation
  <2>2. ASSUME j.op = "accept", inv' = [inv EXCEPT ![i].status = "revoked"], Overtake(r, Accepting(i))
        PROVE  j.inv # i
    BY <1>j, <2>2, <1>X DEF Accepting
  <2>3. UNCHANGED <<role, project, access, app, org>>
    BY <1>4 DEF RevokeInvitation, CreateInvitation
  <2>4. j.op = "accept" => inv'[j.inv].status = "pending"
    BY <1>j, <2>1, <2>2 DEF DecidedOn, OrgTypes, JobShape
  <2> QED
    BY <1>j, <2>3, <2>4 DEF DecidedOn, Owners
<1>5. CASE AcceptCommit(r)
  <2>0. q \notin Accepting(job[r].inv)
    BY <1>5, <1>X DEF AcceptCommit, Accepting
  <2>1. j.op = "accept" => j.inv # job[r].inv
    BY <2>0, <1>j DEF Accepting
  <2>2. j.op = "accept" => inv'[j.inv].status = "pending"
    BY <1>5, <1>j, <2>1 DEF AcceptCommit, DecidedOn, OrgTypes, JobShape
  <2>3. \A u \in Users : role[u] # None => role'[u] = role[u]
    BY <1>5 DEF AcceptCommit, OrgTypes
  <2>4. Owners \subseteq Owners'
    BY <2>3 DEF Owners, None
  <2> QED
    BY <1>5, <1>j, <2>2, <2>3, <2>4 DEF AcceptCommit, DecidedOn, JobShape, None
<1>6. CASE DropProject(r)
  <2>0. q \notin {p \in Calls : job[p].op = "app" /\ job[p].project = job[r].project}
    BY <1>6, <1>X DEF DropProject
  <2>1. j.op = "app" => j.project # job[r].project
    BY <2>0, <1>j
  <2> QED
    BY <1>6, <1>j, <2>1 DEF DropProject, DecidedOn, Owners
<1>7. CASE CreateApp(r)
  <2>0. q \notin {p \in Calls : job[p].op = "drop" /\ job[p].project = job[r].project}
    BY <1>7, <1>X DEF CreateApp
  <2>1. j.op = "drop" => j.project # job[r].project
    BY <2>0, <1>j
  <2> QED
    BY <1>7, <1>j, <2>1 DEF CreateApp, DecidedOn, Owners
<1>8. CASE UpdateOrg(r)
  <2>0. q \notin {p \in Calls : job[p].op \in {"name", "cap"}}
    BY <1>8, <1>X DEF UpdateOrg
  <2>1. j.op \notin {"name", "cap"}
    BY <2>0, <1>j
  <2> QED
    BY <1>8, <1>j, <2>1 DEF UpdateOrg, DecidedOn, Owners
<1>9. CASE InsertProject(r)
  BY <1>9, <1>j DEF InsertProject, DecidedOn, Owners
<1>10. CASE DeleteApp(r)
  BY <1>10, <1>j DEF DeleteApp, DecidedOn, Owners
<1> QED
  BY <1>1, <1>3, <1>4, <1>5, <1>6, <1>7, <1>8, <1>9, <1>10
     DEF CallStep, handleUpdateMember, handleRemoveMember, handleCreateInvitation,
         handleRevokeInvitation, handleAcceptInvitation, handleCreateProject, handleDeleteProject,
         handleCreateAppInProject, handleUpdateOrg, handleSetSpendCap, UpdateMemberRole, RemoveMember,
         Invite, AcceptInvitation, CreateProject, DeleteProject, CreateAppInProject,
         UpdateOrganization, SetSpendCap, ReadOrg, GetMembership, countOwners, projectInUse, GiveUp

\* A request that is not about to write has decided on nothing.
LEMMA Undecided ==
    ASSUME NEW j, j.op \in {"role", "remove"} => j.at # "write",
           j.op \notin {"accept", "app", "name", "cap"}, j.op = "drop" => j.at # "delete"
    PROVE  DecidedOn(j)'
  BY DEF DecidedOn

\* A request has itself looked at what it decides on.
LEMMA OwnDecided ==
    ASSUME OrgTypes, Decided, NEW r \in Calls, CallStep(r), NEW j, j = job'[r]
    PROVE  DecidedOn(j)'
<1>0. JobsTyped /\ job \in [Calls -> JobRecord] /\ job[r] \in JobRecord /\ JobShape(job[r])
  BY DEF OrgTypes, JobsTyped
<1>J. job \in [Calls -> JobRecord]
  BY <1>0
<1>K. ASSUME NEW F, job' = [job EXCEPT ![r] = F] PROVE j = F
  BY <1>J, <1>K
<1>I. j = Idle => DecidedOn(j)'
  <2>1. Idle.op = "idle"
    BY DEF Idle
  <2> QED
    BY <2>1, Undecided
<1>F. Finish(r) => j = Idle
  BY <1>0 DEF Finish
<1>A. ASSUME NEW at \in {"count", "write", "delete"}, Advance(r, at)
      PROVE  /\ j.op = job[r].op /\ j.at = at /\ j.user = job[r].user /\ j.role = job[r].role
             /\ j.project = job[r].project /\ j.inv = job[r].inv /\ j.row = job[r].row
             /\ j.late = job[r].late
  BY <1>0, <1>A DEF Advance, JobRecord
<1>1. CASE UpdateMemberRole(r)
  <2>1. PICK u \in Users, to \in Roles :
           Start(r, [op |-> "role", at |-> "target", user |-> u, role |-> to])
    BY <1>1, GivenRolesAssumption DEF UpdateMemberRole
  <2>2. j = Fresh("role", "target", u, to, None, 0, NoOrgRow)
    <3>1. job' = [job EXCEPT ![r] = Fresh("role", "target", u, to, None, 0, NoOrgRow)]
      BY <2>1, <1>J, Started
    <3> QED
      BY <3>1, <1>K
  <2> QED
    BY <2>1, <2>2, Undecided DEF Fresh
<1>2. CASE RemoveMember(r)
  <2>1. PICK u \in Users : Start(r, [op |-> "remove", at |-> "target", user |-> u])
    BY <1>2 DEF RemoveMember
  <2>2. j = Fresh("remove", "target", u, None, None, 0, NoOrgRow)
    <3>1. job' = [job EXCEPT ![r] = Fresh("remove", "target", u, None, None, 0, NoOrgRow)]
      BY <2>1, <1>J, Started
    <3> QED
      BY <3>1, <1>K
  <2> QED
    BY <2>1, <2>2, Undecided DEF Fresh
<1>3. CASE Invite(r)
  <2>1. PICK u \in Users, to \in GivenRoles, p \in {None} \union project :
           Start(r, [op |-> "invite", at |-> "write", user |-> u, role |-> to, project |-> p])
    BY <1>3 DEF Invite
  <2> QED
    BY <1>0, <2>1, StartedInvite, Undecided DEF Fresh
<1>4. CASE CreateProject(r) \/ DeleteProject(r)
  <2>1. PICK p \in Projects :
           \/ Start(r, [op |-> "project", at |-> "write", project |-> p])
           \/ Start(r, [op |-> "drop", at |-> "inUse", project |-> p])
    BY <1>4 DEF CreateProject, DeleteProject, OrgTypes
  <2>2. \/ j = Fresh("project", "write", None, None, p, 0, NoOrgRow)
        \/ j = Fresh("drop", "inUse", None, None, p, 0, NoOrgRow)
    <3>1. \/ job' = [job EXCEPT ![r] = Fresh("project", "write", None, None, p, 0, NoOrgRow)]
          \/ job' = [job EXCEPT ![r] = Fresh("drop", "inUse", None, None, p, 0, NoOrgRow)]
      BY <2>1, <1>J, Started
    <3> QED
      BY <3>1, <1>K
  <2> QED
    BY <2>1, <2>2, Undecided DEF Fresh
<1>5. CASE CreateAppInProject(r)
  <2>1. PICK p \in project : Start(r, [op |-> "app", at |-> "write", project |-> p]) /\ UNCHANGED tables
    BY <1>5 DEF CreateAppInProject
  <2>2. j = Fresh("app", "write", None, None, p, 0, NoOrgRow)
    <3>1. job' = [job EXCEPT ![r] = Fresh("app", "write", None, None, p, 0, NoOrgRow)]
      BY <2>1, <1>J, Started
    <3> QED
      BY <3>1, <1>K
  <2> QED
    BY <2>1, <2>2 DEF Fresh, DecidedOn, tables
<1>6. CASE AcceptInvitation(r)
  <2>1. PICK i \in Invites : /\ Start(r, [op |-> "accept", at |-> "tx", inv |-> i])
                             /\ inv[i].status = "pending" /\ UNCHANGED tables
    BY <1>6 DEF AcceptInvitation
  <2>2. j = Fresh("accept", "tx", None, None, None, i, NoOrgRow)
    <3>1. job' = [job EXCEPT ![r] = Fresh("accept", "tx", None, None, None, i, NoOrgRow)]
      BY <2>1, <1>J, Started
    <3> QED
      BY <3>1, <1>K
  <2> QED
    BY <2>1, <2>2 DEF Fresh, DecidedOn, tables
<1>7. CASE UpdateOrganization(r)
  <2>1. PICK v \in Values : /\ Start(r, [op |-> "name", at |-> "write", row |-> [org EXCEPT !["name"] = v]])
                            /\ UNCHANGED tables
    BY <1>7 DEF UpdateOrganization, ReadOrg
  <2> DEFINE w == [org EXCEPT !["name"] = v]
  <2>2. w.cap = org.cap
    BY DEF OrgTypes, OrgRow
  <2> HIDE DEF w
  <2>3. j = Fresh("name", "write", None, None, None, 0, w)
    <3>1. Start(r, [op |-> "name", at |-> "write", row |-> w])
      BY <2>1 DEF w
    <3>2. job' = [job EXCEPT ![r] = Fresh("name", "write", None, None, None, 0, w)]
      BY <3>1, <1>J, Started
    <3> QED
      BY <3>2, <1>K
  <2> QED
    BY <2>1, <2>2, <2>3 DEF Fresh, DecidedOn, tables
<1>8. CASE SetSpendCap(r)
  <2>1. PICK v \in Values : /\ Start(r, [op |-> "cap", at |-> "write", row |-> [org EXCEPT !["cap"] = v]])
                            /\ UNCHANGED tables
    BY <1>8 DEF SetSpendCap, ReadOrg
  <2> DEFINE w == [org EXCEPT !["cap"] = v]
  <2>2. w.name = org.name
    BY DEF OrgTypes, OrgRow
  <2> HIDE DEF w
  <2>3. j = Fresh("cap", "write", None, None, None, 0, w)
    <3>1. Start(r, [op |-> "cap", at |-> "write", row |-> w])
      BY <2>1 DEF w
    <3>2. job' = [job EXCEPT ![r] = Fresh("cap", "write", None, None, None, 0, w)]
      BY <3>1, <1>J, Started
    <3> QED
      BY <3>2, <1>K
  <2> QED
    BY <2>1, <2>2, <2>3 DEF Fresh, DecidedOn, tables
<1>9. CASE GetMembership(r)
  <2>1. CASE Finish(r)
    BY <2>1, <1>F, <1>I
  <2>2. CASE /\ role[job[r].user] # None
             /\ Advance(r, IF role[job[r].user] = "owner" /\ job[r].role # "owner"
                           THEN "count" ELSE "write")
    <3>1. job[r].op \in {"role", "remove"} /\ job[r].user \in Users
      BY <1>9, <1>0 DEF GetMembership, JobShape
    <3>2. j.at = "write" /\ j.role # "owner" => role[j.user] \in {"member", "admin"}
      BY <2>2, <3>1, <1>A DEF OrgTypes, Roles
    <3>3. role' = role /\ j.op \in {"role", "remove"}
      BY <1>9, <2>2, <3>1, <1>A DEF GetMembership, tables
    <3> QED
      BY <3>2, <3>3 DEF DecidedOn
  <2> QED
    BY <1>9, <2>1, <2>2 DEF GetMembership
<1>10. CASE countOwners(r)
  <2>1. CASE Finish(r)
    BY <2>1, <1>F, <1>I
  <2>2. CASE ~(Cardinality(Owners) <= 1) /\ Advance(r, "write")
    <3>1. job[r].op \in {"role", "remove"}
      BY <1>10, <1>0 DEF countOwners, JobShape
    <3>2. \E u \in Owners : u # j.user
      BY <2>2, AtMostOne
    <3>3. Owners' = Owners /\ j.op \in {"role", "remove"}
      BY <1>10, <2>2, <3>1, <1>A DEF countOwners, tables, Owners
    <3> QED
      BY <3>2, <3>3 DEF DecidedOn
  <2> QED
    BY <1>10, <2>1, <2>2 DEF countOwners
<1>11. CASE projectInUse(r)
  <2>1. CASE Finish(r)
    BY <2>1, <1>F, <1>I
  <2>2. CASE app # job[r].project /\ Advance(r, "delete")
    BY <1>11, <2>2, <1>A DEF projectInUse, At, tables, DecidedOn
  <2> QED
    BY <1>11, <2>1, <2>2 DEF projectInUse
<1>12. CASE DeleteApp(r)
  BY <1>12, <1>I DEF DeleteApp
<1>13. CASE CreateInvitation(r) \/ InsertProject(r) \/ GiveUp(r)
  BY <1>13, <1>F, <1>I DEF CreateInvitation, InsertProject, GiveUp
<1>14. CASE \/ WriteMembership(r) \/ RevokeInvitation(r) \/ AcceptCommit(r) \/ DropProject(r)
            \/ CreateApp(r) \/ UpdateOrg(r)
  <2>1. \E X : Overtake(r, X)
    BY <1>14 DEF WriteMembership, RevokeInvitation, AcceptCommit, DropProject, CreateApp, UpdateOrg
  <2>2. j = Idle
    BY <2>1 DEF Overtake
  <2> QED
    BY <2>2, <1>I
<1> QED
  BY <1>1, <1>2, <1>3, <1>4, <1>5, <1>6, <1>7, <1>8, <1>9, <1>10, <1>11, <1>12, <1>13, <1>14
     DEF CallStep, handleUpdateMember, handleRemoveMember, handleCreateInvitation,
         handleRevokeInvitation, handleAcceptInvitation, handleCreateProject, handleDeleteProject,
         handleCreateAppInProject, handleUpdateOrg, handleSetSpendCap

\* What holds between the steps of the requests.
OrgInv == OrgTypes /\ Decided

\* OrgInv is an invariant of the organization.
LEMMA OrgInvariant == OrgSpec => []OrgInv
<1>1. ASSUME OrgInv, [OrgNext]_orgVars PROVE OrgInv'
  <2>1. CASE UNCHANGED orgVars
    BY <1>1, <2>1 DEF orgVars, tables, OrgInv, OrgTypes, JobsTyped, Decided, DecidedOn, Owners
  <2>2. CASE OrgNext
    <3>1. PICK r \in Calls : CallStep(r)
      BY <2>2 DEF OrgNext, CallStep
    <3>2. OrgTypes'
      BY <1>1, <3>1, OrgTypesStep DEF OrgInv
    <3>3. ASSUME NEW q \in Calls, NEW j, j = job'[q] PROVE DecidedOn(j)'
      BY <1>1, <3>1, <3>3, OthersDecided, OwnDecided DEF OrgInv
    <3>4. Decided'
      BY <3>3 DEF Decided
    <3> QED
      BY <3>2, <3>4 DEF OrgInv
  <2> QED
    BY <1>1, <2>1, <2>2
<1>2. OrgInit => OrgInv
  BY OrgInitial DEF OrgInv
<1> QED
  BY <1>1, <1>2, PTL DEF OrgSpec

\* A membership changes by a write of the members or an acceptance (WriteMembership, AcceptCommit).
LEMMA RoleStep ==
    ASSUME NEW r \in Calls, CallStep(r)
    PROVE  role' = role \/ WriteMembership(r) \/ AcceptCommit(r)
  BY DEF CallStep, handleUpdateMember, handleRemoveMember, handleCreateInvitation,
         handleRevokeInvitation, handleAcceptInvitation, handleCreateProject, handleDeleteProject,
         handleCreateAppInProject, handleUpdateOrg, handleSetSpendCap, UpdateMemberRole, RemoveMember,
         Invite, CreateInvitation, RevokeInvitation, AcceptInvitation, CreateProject, InsertProject,
         DeleteProject, DropProject, CreateAppInProject, CreateApp, DeleteApp, UpdateOrganization,
         SetSpendCap, ReadOrg, UpdateOrg, GetMembership, countOwners, projectInUse, GiveUp, tables

\* The app's row and the projects change by a creation or a deletion.
LEMMA AppStep ==
    ASSUME NEW r \in Calls, CallStep(r)
    PROVE  \/ app' = app /\ project \subseteq project'
           \/ CreateApp(r) \/ DeleteApp(r) \/ DropProject(r)
  BY DEF CallStep, handleUpdateMember, handleRemoveMember, handleCreateInvitation,
         handleRevokeInvitation, handleAcceptInvitation, handleCreateProject, handleDeleteProject,
         handleCreateAppInProject, handleUpdateOrg, handleSetSpendCap, UpdateMemberRole, RemoveMember,
         Invite, CreateInvitation, RevokeInvitation, AcceptInvitation, AcceptCommit, CreateProject,
         InsertProject, DeleteProject, CreateAppInProject, UpdateOrganization, WriteMembership,
         SetSpendCap, ReadOrg, UpdateOrg, GetMembership, countOwners, projectInUse, GiveUp, tables

\* A request that ends by writing over what it no longer knows is a late write (Overtake).
LEMMA LateEnd ==
    ASSUME OrgTypes, NEW r \in Calls, NEW X, Overtake(r, X), job[r].late
    PROVE  LateWrite
  BY DEF Overtake, LateWrite

\* The organization keeps an owner, for any members, roles and number of requests, but for a write
\* whose count of the owners another request has overtaken (countOwners, UpdateMembershipRole,
\* RemoveMembership).
THEOREM OwnersRemain == OrgSpec => OwnerRemains
<1>1. ASSUME OrgInv, NEW r \in Calls, CallStep(r), Owners # {}, Owners' = {} PROVE LateWrite
  <2>0. OrgTypes /\ DecidedOn(job[r]) /\ JobShape(job[r]) /\ job[r] \in JobRecord
    BY <1>1 DEF OrgInv, OrgTypes, JobsTyped, Decided
  <2>1. CASE role' = role
    BY <1>1, <2>1 DEF Owners
  <2>2. CASE AcceptCommit(r)
    <3>1. \A u \in Users : role[u] # None => role'[u] = role[u]
      BY <2>0, <2>2 DEF AcceptCommit, OrgTypes
    <3>2. Owners \subseteq Owners'
      BY <3>1 DEF Owners, None
    <3> QED
      BY <1>1, <3>2
  <2>3. CASE WriteMembership(r)
    <3>1. job[r].user \in Users /\ role' = [role EXCEPT ![job[r].user] = IF @ = None THEN None ELSE job[r].role]
      BY <2>0, <2>3 DEF WriteMembership, JobShape
    <3>2. \A u \in Owners : u = job[r].user /\ job[r].role # "owner"
      BY <1>1, <2>0, <3>1 DEF Owners, OrgTypes, None
    <3>3. PICK u \in Owners : TRUE
      BY <1>1
    <3>4. u = job[r].user /\ role[job[r].user] = "owner" /\ job[r].role # "owner"
      BY <3>2, <3>3 DEF Owners
    <3>5. job[r].late
      BY <2>0, <2>3, <3>2, <3>4 DEF WriteMembership, DecidedOn
    <3> QED
      BY <2>0, <2>3, <3>5, LateEnd DEF WriteMembership
  <2> QED
    BY <1>1, <2>1, <2>2, <2>3, RoleStep
<1>2. ASSUME OrgInv, [OrgNext]_orgVars PROVE [Owners # {} /\ Owners' = {} => LateWrite]_orgVars
  BY <1>1, <1>2 DEF OrgNext, CallStep
<1> QED
  BY <1>2, OrgInvariant, PTL DEF OrgSpec, OwnerRemains

\* Nobody becomes a member but by an invitation that is pending at that moment, or an acceptance that
\* another acceptance or a revocation has overtaken (AcceptInvitation).
THEOREM PendingAdmits == OrgSpec => OnlyPendingAdmits
<1>1. ASSUME OrgInv, NEW r \in Calls, CallStep(r), NEW u \in Users, role[u] = None, role'[u] # None
      PROVE  \/ LateWrite
             \/ \E i \in Invites : inv[i].status = "pending" /\ inv[i].user = u
                                   /\ inv'[i].status = "accepted"
  <2>0. OrgTypes /\ DecidedOn(job[r]) /\ JobShape(job[r]) /\ job[r] \in JobRecord
    BY <1>1 DEF OrgInv, OrgTypes, JobsTyped, Decided
  <2>1. AcceptCommit(r)
    BY <1>1, <2>0, RoleStep DEF WriteMembership, OrgTypes
  <2>2. job[r].op = "accept" /\ job[r].inv \in Invites
    BY <2>0, <2>1 DEF AcceptCommit, At, JobShape
  <2>3. inv[job[r].inv].user = u
    BY <1>1, <2>0, <2>1 DEF AcceptCommit, OrgTypes
  <2>4. inv'[job[r].inv].status = "accepted"
    BY <2>0, <2>1, <2>2 DEF AcceptCommit, OrgTypes, InviteRow
  <2>5. job[r].late \/ inv[job[r].inv].status = "pending"
    BY <2>0, <2>2 DEF DecidedOn
  <2>6. job[r].late => LateWrite
    BY <2>0, <2>1, LateEnd DEF AcceptCommit
  <2> QED
    BY <2>2, <2>3, <2>4, <2>5, <2>6
<1>2. ASSUME OrgInv, [OrgNext]_orgVars
      PROVE  [\A u \in Users : role[u] = None /\ role'[u] # None =>
                 \/ LateWrite
                 \/ \E i \in Invites : inv[i].status = "pending" /\ inv[i].user = u
                                       /\ inv'[i].status = "accepted"]_orgVars
  BY <1>1, <1>2 DEF OrgNext, CallStep
<1> QED
  BY <1>2, OrgInvariant, PTL DEF OrgSpec, OnlyPendingAdmits

\* An app's project is only lost to a deletion and a creation that overtook one another
\* (DeleteProject, CreateApp).
THEOREM AppsReachable == OrgSpec => AppReachable
<1>1. ASSUME OrgInv, NEW r \in Calls, CallStep(r),
             app \in project \union {None}, app' \notin project' \union {None}
      PROVE  LateWrite
  <2>0. OrgTypes /\ DecidedOn(job[r]) /\ JobShape(job[r]) /\ job[r] \in JobRecord
    BY <1>1 DEF OrgInv, OrgTypes, JobsTyped, Decided
  <2>1. CASE app' = app /\ project \subseteq project'
    BY <1>1, <2>1
  <2>2. CASE DeleteApp(r)
    BY <1>1, <2>2 DEF DeleteApp
  <2>3. CASE CreateApp(r)
    <3>1. job[r].late
      BY <1>1, <2>0, <2>3 DEF CreateApp, At, DecidedOn
    <3> QED
      BY <2>0, <2>3, <3>1, LateEnd DEF CreateApp
  <2>4. CASE DropProject(r)
    <3>1. app = job[r].project /\ app # None
      BY <1>1, <2>4 DEF DropProject
    <3>2. job[r].late
      BY <2>0, <2>4, <3>1 DEF DropProject, At, DecidedOn
    <3> QED
      BY <2>0, <2>4, <3>2, LateEnd DEF DropProject
  <2> QED
    BY <1>1, <2>1, <2>2, <2>3, <2>4, AppStep
<1>2. ASSUME OrgInv, [OrgNext]_orgVars
      PROVE  [(app \in project \union {None}) /\ app' \notin project' \union {None} => LateWrite]_orgVars
  BY <1>1, <1>2 DEF OrgNext, CallStep
<1> QED
  BY <1>2, OrgInvariant, PTL DEF OrgSpec, AppReachable

\* Setting the name does not take back a cap, nor the reverse, for any number of requests, unless one
\* of them has been overtaken between its read of the row and its write (UpdateOrganization,
\* handleSetSpendCap).
THEOREM SettingsAreKept == OrgSpec => SettingsKept
<1>1. ASSUME OrgInv, NEW q \in Calls, CallStep(q),
             NEW r \in Calls, job[r] # Idle, job'[r] = Idle, ~job[r].late
      PROVE  /\ job[r].op = "name" => org'.cap = org.cap
             /\ job[r].op = "cap" => org'.name = org.name
  <2>0. OrgTypes /\ DecidedOn(job[r])
    BY <1>1 DEF OrgInv, Decided
  <2>1. q = r
    <3>1. ~Idle.late
      BY DEF Idle
    <3>2. q # r => job'[r] = job[r] \/ job'[r].late
      BY <1>1, <2>0, OtherJobs
    <3> QED
      BY <1>1, <3>1, <3>2
  <2>2. org' = org \/ UpdateOrg(r)
    BY <1>1, <2>1
       DEF CallStep, handleUpdateMember, handleRemoveMember, handleCreateInvitation,
           handleRevokeInvitation, handleAcceptInvitation, handleCreateProject, handleDeleteProject,
           handleCreateAppInProject, handleUpdateOrg, handleSetSpendCap, UpdateMemberRole,
           RemoveMember, Invite, CreateInvitation, RevokeInvitation, AcceptInvitation, AcceptCommit,
           CreateProject, InsertProject, DeleteProject, DropProject, CreateAppInProject, CreateApp,
           DeleteApp, UpdateOrganization, WriteMembership, SetSpendCap, ReadOrg, GetMembership,
           countOwners, projectInUse, GiveUp, tables
  <2>3. CASE UpdateOrg(r)
    BY <1>1, <2>0, <2>3 DEF UpdateOrg, DecidedOn
  <2> QED
    BY <2>2, <2>3
<1>2. ASSUME OrgInv, [OrgNext]_orgVars
      PROVE  [\A r \in Calls : job[r] # Idle /\ job'[r] = Idle /\ ~job[r].late =>
                 /\ job[r].op = "name" => org'.cap = org.cap
                 /\ job[r].op = "cap" => org'.name = org.name]_orgVars
  BY <1>1, <1>2 DEF OrgNext, CallStep
<1> QED
  BY <1>2, OrgInvariant, PTL DEF OrgSpec, SettingsKept

=============================================================================
