----------------------------- MODULE MemoryStore -----------------------------
(***************************************************************************)
(* The in-memory store of development and tests (store/memory.go): one map *)
(* per table, and an index of users by email.  It has the keys and some of *)
(* the unique indexes of the schema, but neither its references nor its    *)
(* cascades.                                                               *)
(***************************************************************************)
EXTENDS Tables

Taken(f, col, x) == Where(f, col, x) # Empty

Insert(db, t, k, row) == IF Has(db, t, k) THEN <<db, Conflict>> ELSE <<Put(db, t, k, row), OK>>
Set(db, t, k, row) == <<Put(db, t, k, row), OK>>
InsertIfAbsent(db, t, k, row) ==
    IF Has(db, t, k) THEN <<db, No>> ELSE <<Put(db, t, k, row), Yes>>
Update(db, t, k, cols) ==
    IF Has(db, t, k) THEN <<Put(db, t, k, With(db[t][k], cols)), OK>> ELSE <<db, NotFound>>
Delete(db, t, k) == IF Has(db, t, k) THEN <<Without(db, t, {k}), OK>> ELSE <<db, NotFound>>

\* The window of a list, whose bounds are moved into it.
applyPage(s, p) ==
    LET off == IF p.offset < 0 THEN 0 ELSE p.offset
        end == IF off + p.limit > Len(s) THEN Len(s) ELSE off + p.limit
    IN  IF p.limit <= 0 THEN s ELSE IF off >= Len(s) THEN <<>> ELSE SubSeq(s, off + 1, end)

-----------------------------------------------------------------------------
(* Users and organizations.                                                *)

CreateUser(db, u, email, v) ==
    IF Has(db, "users_by_email", email) \/ Has(db, "users", u) THEN <<db, Conflict>>
    ELSE <<Put(Put(db, "users", u, [email |-> email, v |-> v]), "users_by_email", email, u), OK>>
GetUserByID(db, u) == Get(db, "users", u)
GetUserByEmail(db, email) ==
    IF Has(db, "users_by_email", email)
    THEN LET u == db["users_by_email"][email] IN {<<u, db["users"][u]>>} ELSE {}

\* Mutant: the email is written with the rest.
UpdateUserEmail(db, u, email, v) == Update(db, "users", u, [email |-> email, v |-> v])

\* The email of the row stays, whatever the caller's says.
UpdateUser(db, u, email, v) == Update(db, "users", u, [v |-> v])
CountUsers(db) == DOMAIN db["users"]

CreateOrganization(db, o, v) == Insert(db, "organizations", o, [v |-> v])
GetOrganization(db, o) == Get(db, "organizations", o)
ListOrganizationsForUser(db, u) ==
    {db["memberships"][m].org : m \in DOMAIN Where(db["memberships"], "user", u)}
        \intersect DOMAIN db["organizations"]
UpdateOrg(db, o, v) == Update(db, "organizations", o, [v |-> v])
ListAllOrgs(db) == db["organizations"]

AddMembership(db, o, u, v) ==
    Insert(db, "memberships", <<o, u>>, [org |-> o, user |-> u, v |-> v])
GetMembership(db, o, u) == Get(db, "memberships", <<o, u>>)
ListMemberships(db, o) == Where(db["memberships"], "org", o)
UpdateMembershipRole(db, o, u, v) == Update(db, "memberships", <<o, u>>, [v |-> v])
RemoveMembership(db, o, u) == Delete(db, "memberships", <<o, u>>)

-----------------------------------------------------------------------------
(* Projects and invitations.                                               *)

CreateProject(db, p, o) == Insert(db, "projects", p, [org |-> o])
GetProject(db, p) == Get(db, "projects", p)
ListProjectsByOrg(db, o) == Where(db["projects"], "org", o)
\* Mutant: a project whose only workloads are services is deleted.
DeleteProjectApps(db, o, p) ==
    IF p \notin DOMAIN Where(db["projects"], "org", o) THEN <<db, NotFound>>
    ELSE IF Where(db["apps"], "project", p) # Empty THEN <<db, Conflict>>
    ELSE Delete(db, "projects", p)

DeleteProject(db, o, p) ==
    IF p \notin DOMAIN Where(db["projects"], "org", o) THEN <<db, NotFound>>
    ELSE IF \E t \in {"apps", "services"} : Where(db[t], "project", p) # Empty
    THEN <<db, Conflict>>
    ELSE Delete(db, "projects", p)

AddProjectMembership(db, p, u, v) ==
    Insert(db, "project_memberships", <<p, u>>, [project |-> p, user |-> u, v |-> v])
GetProjectMembership(db, p, u) == Get(db, "project_memberships", <<p, u>>)

CreateInvitation(db, i, o, token) ==
    Insert(db, "invitations", i, [org |-> o, token |-> token, v |-> "pending"])
GetInvitationByToken(db, token) == Find(db["invitations"], "token", token)
ListInvitationsByOrg(db, o) == Where(db["invitations"], "org", o)
UpdateInvitation(db, i, v) == Update(db, "invitations", i, [v |-> v])
RevokeInvitation(db, o, i) ==
    IF i \in DOMAIN Where(db["invitations"], "org", o)
    THEN Update(db, "invitations", i, [v |-> "revoked"]) ELSE <<db, NotFound>>

-----------------------------------------------------------------------------
(* Apps, with their builds, releases, environment and domains.             *)

CreateApp(db, a, o, p) == Insert(db, "apps", a, [org |-> o, project |-> p, v |-> 0])
GetApp(db, a) == Get(db, "apps", a)
ListAppsByOrg(db, o) == Where(db["apps"], "org", o)
UpdateApp(db, a, v) == Update(db, "apps", a, [v |-> v])
DeleteApp(db, a) == Delete(db, "apps", a)

CreateBuild(db, b, a) == Insert(db, "builds", b, [app |-> a, at |-> b, v |-> 0])
GetBuild(db, b) == Get(db, "builds", b)
ListBuildsByApp(db, a, page) == applyPage(Descending(Where(db["builds"], "app", a), "at"), page)
UpdateBuild(db, b, v) == Update(db, "builds", b, [v |-> v])

\* Mutant: a revision may come twice.
CreateReleaseAlways(db, r, a, rev) ==
    Insert(db, "releases", r, [app |-> a, rev |-> rev, v |-> 0])

CreateRelease(db, r, a, rev) ==
    IF Taken(Where(db["releases"], "app", a), "rev", rev) THEN <<db, Conflict>>
    ELSE Insert(db, "releases", r, [app |-> a, rev |-> rev, v |-> 0])
GetRelease(db, r) == Get(db, "releases", r)
ListReleasesByApp(db, a, page) ==
    applyPage(Descending(Where(db["releases"], "app", a), "rev"), page)
UpdateRelease(db, r, v) == Update(db, "releases", r, [v |-> v])

SetAppEnv(db, a, key, v) == Set(db, "app_env", <<a, key>>, [app |-> a, v |-> v])
GetAppEnv(db, a) == Where(db["app_env"], "app", a)
ListAppEnv(db, a) == Where(db["app_env"], "app", a)
DeleteAppEnv(db, a, key) == <<Without(db, "app_env", {<<a, key>>}), OK>>

CreateDomain(db, d, a, host) ==
    Insert(db, "domains", d, [app |-> a, host |-> host, verified |-> FALSE])
GetDomain(db, d) == Get(db, "domains", d)
ListDomainsByApp(db, a) == Where(db["domains"], "app", a)
GetVerifiedDomainByHost(db, host) ==
    Find(Where(db["domains"], "verified", TRUE), "host", host)

UpdateDomain(db, d, verified) == Update(db, "domains", d, [verified |-> verified])
DeleteDomain(db, d) == Delete(db, "domains", d)

-----------------------------------------------------------------------------
(* Databases and services.                                                 *)

CreateDatabase(db, d, o) == Insert(db, "databases", d, [org |-> o, v |-> 0])
GetDatabase(db, d) == Get(db, "databases", d)
ListDatabasesByOrg(db, o) == Where(db["databases"], "org", o)
UpdateDatabase(db, d, v) == Update(db, "databases", d, [v |-> v])
DeleteDatabase(db, d) == Delete(db, "databases", d)

CreateService(db, s, o, p) == Insert(db, "services", s, [org |-> o, project |-> p, v |-> 0])
GetService(db, s) == Get(db, "services", s)
ListServicesByOrg(db, o) == Where(db["services"], "org", o)
UpdateService(db, s, v) == Update(db, "services", s, [v |-> v])
DeleteService(db, s) == Delete(db, "services", s)

-----------------------------------------------------------------------------
(* Refresh tokens, password reset tokens and API tokens.                   *)

CreateRefreshToken(db, k, u) ==
    Insert(db, "refresh_tokens", k, [user |-> u, revoked |-> FALSE, expired |-> FALSE])
GetRefreshToken(db, k) == Get(db, "refresh_tokens", k)
RevokeRefreshToken(db, k) == Update(db, "refresh_tokens", k, [revoked |-> TRUE])

RevokeRefreshTokenIfActive(db, k) ==
    IF ~Has(db, "refresh_tokens", k) THEN <<db, NotFound>>
    ELSE IF db["refresh_tokens"][k].revoked THEN <<db, No>>
    ELSE <<RevokeRefreshToken(db, k)[1], Yes>>
RevokeAllUserRefreshTokens(db, u) ==
    <<Rewrite(db, "refresh_tokens", "user", u, [revoked |-> TRUE]), OK>>
DeleteExpiredRefreshTokens(db) ==
    <<Without(db, "refresh_tokens", DOMAIN Where(db["refresh_tokens"], "expired", TRUE)), OK>>

CreatePasswordResetToken(db, k, u, hash) ==
    IF Taken(db["password_reset_tokens"], "hash", hash) THEN <<db, Conflict>>
    ELSE Insert(db, "password_reset_tokens", k, [user |-> u, hash |-> hash, used |-> FALSE])
InvalidateUserPasswordResetTokens(db, u) ==
    <<Rewrite(db, "password_reset_tokens", "user", u, [used |-> TRUE]), OK>>
GetPasswordResetTokenByHash(db, hash) == Find(db["password_reset_tokens"], "hash", hash)
ConsumePasswordResetToken(db, k) ==
    IF ~Has(db, "password_reset_tokens", k) THEN <<db, NotFound>>
    ELSE IF db["password_reset_tokens"][k].used THEN <<db, No>>
    ELSE <<Update(db, "password_reset_tokens", k, [used |-> TRUE])[1], Yes>>

CreateApiToken(db, k, u, hash) ==
    IF Taken(db["api_tokens"], "hash", hash) THEN <<db, Conflict>>
    ELSE Insert(db, "api_tokens", k, [user |-> u, hash |-> hash, at |-> k, v |-> 0])
GetApiTokenByHash(db, hash) == Find(db["api_tokens"], "hash", hash)
ListApiTokensByUser(db, u) == Descending(Where(db["api_tokens"], "user", u), "at")
DeleteApiToken(db, u, k) ==
    IF k \in DOMAIN Where(db["api_tokens"], "user", u)
    THEN Delete(db, "api_tokens", k) ELSE <<db, NotFound>>

\* Mutant: the row is written back as it was read.
TouchApiTokenPut(db, k, v) ==
    Set(db, "api_tokens", k, [user |-> 1, hash |-> k, at |-> k, v |-> v])

TouchApiToken(db, k, v) == Update(db, "api_tokens", k, [v |-> v])

-----------------------------------------------------------------------------
(* Billing.                                                                *)

UpsertSubscription(db, o, stripe) ==
    Set(db, "subscriptions", o, [org |-> o, stripe |-> stripe])
GetSubscription(db, o) == Get(db, "subscriptions", o)
\* Mutant: no id finds the subscriptions that have none yet.
GetSubscriptionByAnyID(db, stripe) == Find(db["subscriptions"], "stripe", stripe)

GetSubscriptionByStripeID(db, stripe) ==
    IF stripe = Nothing THEN {} ELSE Find(db["subscriptions"], "stripe", stripe)
GetSubscriptionByCustomerID(db, stripe) ==
    IF stripe = Nothing THEN {} ELSE Find(db["subscriptions"], "stripe", stripe)
ListAllSubscriptions(db) == db["subscriptions"]

\* Appends, whatever the id, which callers make afresh.
AddUsage(db, k, o, at) == Set(db, "usage_records", k, [org |-> o, at |-> at])
AddUsageIfAbsent(db, k, o, at) == InsertIfAbsent(db, "usage_records", k, [org |-> o, at |-> at])
ListUsageByOrg(db, o, page) == applyPage(Descending(Where(db["usage_records"], "org", o), "at"), page)
ListUsageByOrgSince(db, o, since, page) ==
    LET f == Where(db["usage_records"], "org", o) IN
    applyPage(Descending(Only(f, {k \in DOMAIN f : f[k].at >= since}), "at"), page)
SumUsageByMetric(db) == DOMAIN db["usage_records"]
\* The slices of the organizations, one after the other as the map gives them: the rows in
\* no order, and all of them.
ListAllUsage(db) == db["usage_records"]

EventProcessed(db, e) == Has(db, "processed_stripe_events", e)
MarkEventProcessed(db, e) == InsertIfAbsent(db, "processed_stripe_events", e, [v |-> 0])
GetMeterState(db) == Get(db, "meter_state", 1)
SetMeterState(db, v) == Set(db, "meter_state", 1, [v |-> v])
GetUsageReportState(db, o) == Get(db, "usage_report_state", o)
SetUsageReportState(db, o, v) == Set(db, "usage_report_state", o, [org |-> o, v |-> v])

CreateAuditEvent(db, k, o) == Set(db, "audit_events", k, [org |-> o, at |-> k])
ListAuditEvents(db, o, page, DefaultPageLimit, MaxPageLimit) ==
    LET limit == IF page.limit <= 0 THEN DefaultPageLimit
                 ELSE IF page.limit > MaxPageLimit THEN MaxPageLimit ELSE page.limit
    IN  applyPage(Descending(Where(db["audit_events"], "org", o), "at"), [page EXCEPT !.limit = limit])
CountAuditEvents(db, o) == Len(Descending(Where(db["audit_events"], "org", o), "at"))

-----------------------------------------------------------------------------
(* The catalog and the settings.                                           *)

ListPlans(db) == db["plans"]
GetPlan(db, k) == Get(db, "plans", k)
UpsertPlan(db, k, v) == Set(db, "plans", k, [v |-> v])
DeletePlan(db, k) == Delete(db, "plans", k)

ListPricingComponents(db) == db["pricing_components"]
GetPricingComponent(db, k) == Get(db, "pricing_components", k)
UpsertPricingComponent(db, k, v) == Set(db, "pricing_components", k, [v |-> v])
DeletePricingComponent(db, k) == Delete(db, "pricing_components", k)

ListServiceTemplates(db) == db["service_templates"]
GetServiceTemplate(db, k) == Get(db, "service_templates", k)
UpsertServiceTemplate(db, k, v) == Set(db, "service_templates", k, [v |-> v])
DeleteServiceTemplate(db, k) == Delete(db, "service_templates", k)

GetSettings(db) == Get(db, "platform_settings", 1)
UpdateSettings(db, v) == Set(db, "platform_settings", 1, [v |-> v])

-----------------------------------------------------------------------------
(* Transactions.                                                           *)

\* WithTx: the calls one after the other under the lock; nothing is taken back.
WithTx(db, done) == done

=============================================================================
