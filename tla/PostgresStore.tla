---------------------------- MODULE PostgresStore ----------------------------
(***************************************************************************)
(* The PostgreSQL store (store/postgres.go, store/migrations): one         *)
(* statement per call, under the primary keys, unique indexes, foreign     *)
(* keys and cascades of the schema.                                        *)
(***************************************************************************)
EXTENDS Tables

-----------------------------------------------------------------------------
(* The schema.                                                             *)

\* Columns that reference the key of another table, ON DELETE CASCADE.
References ==
    {<<"memberships", "org", "organizations">>, <<"memberships", "user", "users">>,
     <<"projects", "org", "organizations">>,
     <<"project_memberships", "project", "projects">>, <<"project_memberships", "user", "users">>,
     <<"invitations", "org", "organizations">>,
     <<"apps", "org", "organizations">>, <<"databases", "org", "organizations">>,
     <<"services", "org", "organizations">>,
     <<"builds", "app", "apps">>, <<"releases", "app", "apps">>,
     <<"app_env", "app", "apps">>, <<"domains", "app", "apps">>,
     <<"refresh_tokens", "user", "users">>, <<"password_reset_tokens", "user", "users">>,
     <<"api_tokens", "user", "users">>,
     <<"subscriptions", "org", "organizations">>, <<"usage_report_state", "org", "organizations">>}

\* What a unique index on the table keeps apart, nothing for a row outside the index.
Unique(t, row) ==
    CASE t = "users" -> {row.email}
      [] t = "invitations" -> {row.token}
      [] t = "releases" -> {<<row.app, row.rev>>}
      [] t \in {"password_reset_tokens", "api_tokens"} -> {row.hash}
      [] t = "domains" -> IF row.verified THEN {row.host} ELSE {}
      [] OTHER -> {}

Parents(t, row) == {<<r[3], row[r[2]]>> : r \in {r \in References : r[1] = t}}

\* mapErr: the error of a statement that would write this row.
Violation(db, t, k, row) ==
    IF Unique(t, row) # {}
       /\ \E j \in DOMAIN db[t] \ {k} : Unique(t, db[t][j]) = Unique(t, row) THEN Conflict
    ELSE IF \E p \in Parents(t, row) : ~Has(db, p[1], p[2]) THEN Invalid
    ELSE OK

-----------------------------------------------------------------------------
(* Statements.                                                             *)

Write(db, t, k, row) ==
    LET err == Violation(db, t, k, row) IN
    IF err = OK THEN <<Put(db, t, k, row), OK>> ELSE <<db, err>>

Insert(db, t, k, row) == IF Has(db, t, k) THEN <<db, Conflict>> ELSE Write(db, t, k, row)

\* ON CONFLICT (key) DO UPDATE, and DO NOTHING.
Upsert(db, t, k, row) == Write(db, t, k, row)
InsertIfAbsent(db, t, k, row) ==
    IF Has(db, t, k) THEN <<db, No>>
    ELSE LET w == Write(db, t, k, row) IN <<w[1], IF w[2] = OK THEN Yes ELSE w[2]>>

Update(db, t, k, cols) ==
    IF Has(db, t, k) THEN Write(db, t, k, With(db[t][k], cols)) ELSE <<db, NotFound>>

\* A deleted row takes the rows that reference it along.
Cascade(db, t, keys) ==
    [u \in DOMAIN db |->
        IF u = t THEN Only(db[u], DOMAIN db[u] \ keys)
        ELSE Only(db[u], {k \in DOMAIN db[u] :
                 \A r \in References : r[1] = u /\ r[3] = t => db[u][k][r[2]] \notin keys})]

\* Mutant: the rows that reference it stay.
DeleteOnly(db, t, k) == IF Has(db, t, k) THEN <<Without(db, t, {k}), OK>> ELSE <<db, NotFound>>

Delete(db, t, k) == IF Has(db, t, k) THEN <<Cascade(db, t, {k}), OK>> ELSE <<db, NotFound>>

\* Mutant: LIMIT alone.
appendPageLimit(s, p) ==
    IF p.limit <= 0 THEN s ELSE SubSeq(s, 1, IF p.limit < Len(s) THEN p.limit ELSE Len(s))

\* LIMIT and OFFSET of an ordered list.
appendPage(s, p) ==
    LET off == IF p.offset > 0 THEN p.offset ELSE 0
        all == Len(s)
    IN  IF p.limit <= 0 THEN s
        ELSE SubSeq(s, off + 1, IF off + p.limit < all THEN off + p.limit ELSE all)

-----------------------------------------------------------------------------
(* Users and organizations.                                                *)

CreateUser(db, u, email, v) == Insert(db, "users", u, [email |-> email, v |-> v])
GetUserByID(db, u) == Get(db, "users", u)
GetUserByEmail(db, email) == Find(db["users"], "email", email)
UpdateUser(db, u, email, v) == Update(db, "users", u, [v |-> v])
CountUsers(db) == DOMAIN db["users"]

CreateOrganization(db, o, v) == Insert(db, "organizations", o, [v |-> v])
GetOrganization(db, o) == Get(db, "organizations", o)
ListOrganizationsForUser(db, u) ==
    {db["memberships"][m].org : m \in DOMAIN Where(db["memberships"], "user", u)}
UpdateOrg(db, o, v) == Update(db, "organizations", o, [v |-> v])
ListAllOrgs(db) == db["organizations"]

AddMembership(db, o, u, v) ==
    Insert(db, "memberships", <<o, u>>, [org |-> o, user |-> u, v |-> v])
GetMembership(db, o, u) == Get(db, "memberships", <<o, u>>)
ListMemberships(db, o) == Where(db["memberships"], "org", o)
UpdateMembershipRole(db, o, u, v) == Update(db, "memberships", <<o, u>>, [v |-> v])
RemoveMembership(db, o, u) == Delete(db, "memberships", <<o, u>>)

-----------------------------------------------------------------------------
(* Projects and invitations.                                               *)

CreateProject(db, p, o) == Insert(db, "projects", p, [org |-> o])
GetProject(db, p) == Get(db, "projects", p)
ListProjectsByOrg(db, o) == Where(db["projects"], "org", o)
DeleteProject(db, o, p) ==
    IF p \notin DOMAIN Where(db["projects"], "org", o) THEN <<db, NotFound>>
    ELSE IF \E t \in {"apps", "services"} : Where(db[t], "project", p) # Empty
    THEN <<db, Conflict>>
    ELSE Delete(db, "projects", p)

AddProjectMembership(db, p, u, v) ==
    Insert(db, "project_memberships", <<p, u>>, [project |-> p, user |-> u, v |-> v])
GetProjectMembership(db, p, u) == Get(db, "project_memberships", <<p, u>>)

CreateInvitation(db, i, o, token) ==
    Insert(db, "invitations", i, [org |-> o, token |-> token, v |-> "pending"])
GetInvitationByToken(db, token) == Find(db["invitations"], "token", token)
ListInvitationsByOrg(db, o) == Where(db["invitations"], "org", o)
UpdateInvitation(db, i, v) == Update(db, "invitations", i, [v |-> v])
RevokeInvitation(db, o, i) ==
    IF i \in DOMAIN Where(db["invitations"], "org", o)
    THEN Update(db, "invitations", i, [v |-> "revoked"]) ELSE <<db, NotFound>>

-----------------------------------------------------------------------------
(* Apps, with their builds, releases, environment and domains.             *)

CreateApp(db, a, o, p) == Insert(db, "apps", a, [org |-> o, project |-> p, v |-> 0])
GetApp(db, a) == Get(db, "apps", a)
ListAppsByOrg(db, o) == Where(db["apps"], "org", o)
UpdateApp(db, a, v) == Update(db, "apps", a, [v |-> v])
DeleteApp(db, a) == Delete(db, "apps", a)

CreateBuild(db, b, a) == Insert(db, "builds", b, [app |-> a, at |-> b, v |-> 0])
GetBuild(db, b) == Get(db, "builds", b)
ListBuildsByApp(db, a, page) == appendPage(Descending(Where(db["builds"], "app", a), "at"), page)
UpdateBuild(db, b, v) == Update(db, "builds", b, [v |-> v])

CreateRelease(db, r, a, rev) == Insert(db, "releases", r, [app |-> a, rev |-> rev, v |-> 0])
GetRelease(db, r) == Get(db, "releases", r)
ListReleasesByApp(db, a, page) ==
    appendPage(Descending(Where(db["releases"], "app", a), "rev"), page)
UpdateRelease(db, r, v) == Update(db, "releases", r, [v |-> v])

SetAppEnv(db, a, key, v) == Upsert(db, "app_env", <<a, key>>, [app |-> a, v |-> v])
GetAppEnv(db, a) == Where(db["app_env"], "app", a)
ListAppEnv(db, a) == Where(db["app_env"], "app", a)
DeleteAppEnv(db, a, key) == <<Without(db, "app_env", {<<a, key>>}), OK>>

CreateDomain(db, d, a, host) ==
    Insert(db, "domains", d, [app |-> a, host |-> host, verified |-> FALSE])
GetDomain(db, d) == Get(db, "domains", d)
ListDomainsByApp(db, a) == Where(db["domains"], "app", a)
GetVerifiedDomainByHost(db, host) ==
    Find(Where(db["domains"], "verified", TRUE), "host", host)

\* Mutant: there is no index on the hosts of verified domains.
UpdateDomainAlways(db, d, verified) ==
    IF Has(db, "domains", d)
    THEN <<Put(db, "domains", d, With(db["domains"][d], [verified |-> verified])), OK>>
    ELSE <<db, NotFound>>

UpdateDomain(db, d, verified) == Update(db, "domains", d, [verified |-> verified])
DeleteDomain(db, d) == Delete(db, "domains", d)

-----------------------------------------------------------------------------
(* Databases and services.                                                 *)

CreateDatabase(db, d, o) == Insert(db, "databases", d, [org |-> o, v |-> 0])
GetDatabase(db, d) == Get(db, "databases", d)
ListDatabasesByOrg(db, o) == Where(db["databases"], "org", o)
UpdateDatabase(db, d, v) == Update(db, "databases", d, [v |-> v])
DeleteDatabase(db, d) == Delete(db, "databases", d)

CreateService(db, s, o, p) == Insert(db, "services", s, [org |-> o, project |-> p, v |-> 0])
GetService(db, s) == Get(db, "services", s)
ListServicesByOrg(db, o) == Where(db["services"], "org", o)
UpdateService(db, s, v) == Update(db, "services", s, [v |-> v])
DeleteService(db, s) == Delete(db, "services", s)

-----------------------------------------------------------------------------
(* Refresh tokens, password reset tokens and API tokens.                   *)

CreateRefreshToken(db, k, u) ==
    Insert(db, "refresh_tokens", k, [user |-> u, revoked |-> FALSE, expired |-> FALSE])
GetRefreshToken(db, k) == Get(db, "refresh_tokens", k)
RevokeRefreshToken(db, k) == Update(db, "refresh_tokens", k, [revoked |-> TRUE])

\* WHERE revoked = false; a row that was not there is told from one already revoked by
\* a query of its own.
RevokeRefreshTokenIfActive(db, k) ==
    IF ~Has(db, "refresh_tokens", k) THEN <<db, NotFound>>
    ELSE IF db["refresh_tokens"][k].revoked THEN <<db, No>>
    ELSE <<RevokeRefreshToken(db, k)[1], Yes>>
RevokeAllUserRefreshTokens(db, u) ==
    <<Rewrite(db, "refresh_tokens", "user", u, [revoked |-> TRUE]), OK>>
DeleteExpiredRefreshTokens(db) ==
    <<Without(db, "refresh_tokens", DOMAIN Where(db["refresh_tokens"], "expired", TRUE)), OK>>

CreatePasswordResetToken(db, k, u, hash) ==
    Insert(db, "password_reset_tokens", k, [user |-> u, hash |-> hash, used |-> FALSE])
InvalidateUserPasswordResetTokens(db, u) ==
    <<Rewrite(db, "password_reset_tokens", "user", u, [used |-> TRUE]), OK>>
GetPasswordResetTokenByHash(db, hash) == Find(db["password_reset_tokens"], "hash", hash)
ConsumePasswordResetToken(db, k) ==
    IF ~Has(db, "password_reset_tokens", k) THEN <<db, NotFound>>
    ELSE IF db["password_reset_tokens"][k].used THEN <<db, No>>
    ELSE <<Update(db, "password_reset_tokens", k, [used |-> TRUE])[1], Yes>>

CreateApiToken(db, k, u, hash) ==
    Insert(db, "api_tokens", k, [user |-> u, hash |-> hash, at |-> k, v |-> 0])
GetApiTokenByHash(db, hash) == Find(db["api_tokens"], "hash", hash)
ListApiTokensByUser(db, u) == Descending(Where(db["api_tokens"], "user", u), "at")
DeleteApiToken(db, u, k) ==
    IF k \in DOMAIN Where(db["api_tokens"], "user", u)
    THEN Delete(db, "api_tokens", k) ELSE <<db, NotFound>>
\* No row is no error.
TouchApiToken(db, k, v) == <<Update(db, "api_tokens", k, [v |-> v])[1], OK>>

-----------------------------------------------------------------------------
(* Billing.                                                                *)

UpsertSubscription(db, o, stripe) ==
    Upsert(db, "subscriptions", o, [org |-> o, stripe |-> stripe])
GetSubscription(db, o) == Get(db, "subscriptions", o)
GetSubscriptionByStripeID(db, stripe) ==
    IF stripe = Nothing THEN {} ELSE Find(db["subscriptions"], "stripe", stripe)
GetSubscriptionByCustomerID(db, stripe) ==
    IF stripe = Nothing THEN {} ELSE Find(db["subscriptions"], "stripe", stripe)
ListAllSubscriptions(db) == db["subscriptions"]

AddUsage(db, k, o, at) == Insert(db, "usage_records", k, [org |-> o, at |-> at])
AddUsageIfAbsent(db, k, o, at) == InsertIfAbsent(db, "usage_records", k, [org |-> o, at |-> at])
ListUsageByOrg(db, o, page) == appendPage(Descending(Where(db["usage_records"], "org", o), "at"), page)
ListUsageByOrgSince(db, o, since, page) ==
    LET f == Where(db["usage_records"], "org", o) IN
    appendPage(Descending(Only(f, {k \in DOMAIN f : f[k].at >= since}), "at"), page)
SumUsageByMetric(db) == DOMAIN db["usage_records"]
ListAllUsage(db, MaxPageLimit) ==
    appendPage(Descending(db["usage_records"], "at"), [limit |-> MaxPageLimit, offset |-> 0])

EventProcessed(db, e) == Has(db, "processed_stripe_events", e)
MarkEventProcessed(db, e) == InsertIfAbsent(db, "processed_stripe_events", e, [v |-> 0])
GetMeterState(db) == Get(db, "meter_state", 1)
SetMeterState(db, v) == Upsert(db, "meter_state", 1, [v |-> v])
GetUsageReportState(db, o) == Get(db, "usage_report_state", o)
SetUsageReportState(db, o, v) == Upsert(db, "usage_report_state", o, [org |-> o, v |-> v])

CreateAuditEvent(db, k, o) == Insert(db, "audit_events", k, [org |-> o, at |-> k])
\* The page is bounded here, whatever the caller asks for.
ListAuditEvents(db, o, page, DefaultPageLimit, MaxPageLimit) ==
    LET limit == IF page.limit <= 0 THEN DefaultPageLimit
                 ELSE IF page.limit > MaxPageLimit THEN MaxPageLimit ELSE page.limit
    IN  appendPage(Descending(Where(db["audit_events"], "org", o), "at"), [page EXCEPT !.limit = limit])
CountAuditEvents(db, o) == Len(Descending(Where(db["audit_events"], "org", o), "at"))

-----------------------------------------------------------------------------
(* The catalog and the settings.                                           *)

ListPlans(db) == db["plans"]
GetPlan(db, k) == Get(db, "plans", k)
UpsertPlan(db, k, v) == Upsert(db, "plans", k, [v |-> v])
DeletePlan(db, k) == Delete(db, "plans", k)

ListPricingComponents(db) == db["pricing_components"]
GetPricingComponent(db, k) == Get(db, "pricing_components", k)
UpsertPricingComponent(db, k, v) == Upsert(db, "pricing_components", k, [v |-> v])
DeletePricingComponent(db, k) == Delete(db, "pricing_components", k)

ListServiceTemplates(db) == db["service_templates"]
GetServiceTemplate(db, k) == Get(db, "service_templates", k)
UpsertServiceTemplate(db, k, v) == Upsert(db, "service_templates", k, [v |-> v])
DeleteServiceTemplate(db, k) == Delete(db, "service_templates", k)

GetSettings(db) == Get(db, "platform_settings", 1)
UpdateSettings(db, v) == Upsert(db, "platform_settings", 1, [v |-> v])

-----------------------------------------------------------------------------
(* Transactions.                                                           *)

\* WithTx: what the calls leave is kept if the last answer is not an error.
WithTx(db, done) == IF done[2] = OK THEN done ELSE <<db, done[2]>>

=============================================================================
