------------------------------- MODULE Stores -------------------------------
(***************************************************************************)
(* The two stores side by side (store/store.go): every call the services   *)
(* make is made on both, and the answers and the rows are compared.  What  *)
(* is tested against the in-memory store runs against PostgreSQL.          *)
(*                                                                         *)
(* Ids are fresh.  A call may name an app or a project that was read       *)
(* before it was deleted; users and organizations are never deleted.       *)
(***************************************************************************)
EXTENDS Tables, FiniteSets

CONSTANTS
    Ids,                \* bound: ids of every kind of row, numbers
    Values,             \* contents of the columns that nothing looks at
    Hosts,
    Pages,              \* pages that are asked for
    DefaultPageLimit, MaxPageLimit,
    Groups              \* which calls are made together

P == INSTANCE PostgresStore
M == INSTANCE MemoryStore

ASSUME IdsAssumption == Ids \subseteq Nat \ {Nothing} /\ 1 \in Ids
ASSUME PagesAssumption ==
    /\ Pages \subseteq [limit : Int, offset : Int]
    /\ MaxPageLimit \in Nat /\ DefaultPageLimit \in 1..MaxPageLimit

VARIABLES
    pg, mem,    \* the stores
    used,       \* <<table, id>>: ids given out so far
    answer,     \* the answers to the last call, where they differ
    split,      \* history: the stores have taken a different turn
    group

vars == <<pg, mem, used, answer, split, group>>

\* NewMemoryStore and Migrate; the catalog is seeded in both.
Seeded ==
    [t \in TableNames |->
        IF t \in {"plans", "pricing_components", "service_templates", "platform_settings"}
        THEN [k \in {1} |-> [v |-> 0]] ELSE Empty]

Init ==
    /\ pg = Seeded /\ mem = Seeded
    /\ used = {} /\ answer = <<>> /\ split = FALSE
    /\ group \in Groups

-----------------------------------------------------------------------------

\* The outcome of a call in PostgreSQL and in memory: the store and the answer.
Call(p, m) ==
    /\ pg' = p[1] /\ mem' = m[1]
    /\ answer' = IF p[2] = m[2] THEN <<>> ELSE <<p[2], m[2]>>

Both(p, m) ==
    /\ Call(p, m)
    /\ UNCHANGED <<used, split, group>>

\* A call that makes a row under a fresh id; ids are numbered as they are given out.
New(t, k, p, m) ==
    /\ \A j \in 1..k : (<<t, j>> \in used) = (j < k)
    /\ ~Has(mem, t, k)
    /\ used' = used \union {e \in {<<t, k>>} : OK \in {p[2], m[2]}}
    /\ Call(p, m)
    /\ UNCHANGED <<split, group>>

\* A call on which the stores may part.
Parting(p, m) ==
    /\ Call(p, m)
    /\ split' = (split \/ p[2] # m[2])
    /\ UNCHANGED <<used, group>>

\* Ids that were given out, of rows that may be gone by now.
Known(t) == {k \in Ids : <<t, k>> \in used}

-----------------------------------------------------------------------------

CreateUser == \E u \in Ids : \E e \in IF group = "members" THEN Ids ELSE {u} :
    New("users", u, P!CreateUser(pg, u, e, 0), M!CreateUser(mem, u, e, 0))
UpdateUser == \E u \in Known("users"), e \in Ids, v \in Values :
    Both(P!UpdateUser(pg, u, e, v), M!UpdateUser(mem, u, e, v))
CreateOrganization == \E o \in IF group \in {"projects", "apps", "config"} THEN {1} ELSE Ids :
    New("organizations", o, P!CreateOrganization(pg, o, 0), M!CreateOrganization(mem, o, 0))
UpdateOrg == \E o \in Known("organizations"), v \in Values :
    Both(P!UpdateOrg(pg, o, v), M!UpdateOrg(mem, o, v))
AddMembership == \E o \in Known("organizations"), u \in DOMAIN pg["users"] :
    Both(P!AddMembership(pg, o, u, 0), M!AddMembership(mem, o, u, 0))
UpdateMembershipRole == \E o \in Known("organizations"), u \in Known("users"), v \in Values :
    Both(P!UpdateMembershipRole(pg, o, u, v), M!UpdateMembershipRole(mem, o, u, v))
RemoveMembership == \E o \in Known("organizations"), u \in Known("users") :
    Both(P!RemoveMembership(pg, o, u), M!RemoveMembership(mem, o, u))

CreateProject == \E p \in Ids, o \in Known("organizations") :
    New("projects", p, P!CreateProject(pg, p, o), M!CreateProject(mem, p, o))
DeleteProject == \E p \in Known("projects"), o \in Known("organizations") :
    Both(P!DeleteProject(pg, o, p), M!DeleteProject(mem, o, p))
CreateInvitation == \E i \in Ids, o \in Known("organizations") :
    New("invitations", i, P!CreateInvitation(pg, i, o, i), M!CreateInvitation(mem, i, o, i))
RevokeInvitation == \E i \in Known("invitations"), o \in Known("organizations") :
    Both(P!RevokeInvitation(pg, o, i), M!RevokeInvitation(mem, o, i))

\* Accepting adds the project's membership and marks the invitation, in a transaction.
\* That the membership exists is no error to the service, but a statement that failed
\* has ended PostgreSQL's transaction.
AcceptInvitation ==
    \E i \in Known("invitations"), p \in Known("projects"), u \in DOMAIN pg["users"] :
        LET a == P!AddProjectMembership(pg, p, u, 0)
            b == M!AddProjectMembership(mem, p, u, 0)
        IN  Parting(P!WithTx(pg, IF a[2] = OK THEN P!UpdateInvitation(a[1], i, "accepted") ELSE a),
                    M!WithTx(mem, M!UpdateInvitation(b[1], i, "accepted")))

CreateApp == \E a \in Ids, o \in Known("organizations"), p \in Known("projects") \union {Nothing} :
    New("apps", a, P!CreateApp(pg, a, o, p), M!CreateApp(mem, a, o, p))
UpdateApp == \E a \in Known("apps"), v \in Values :
    Both(P!UpdateApp(pg, a, v), M!UpdateApp(mem, a, v))
DeleteApp == \E a \in Known("apps") : Both(P!DeleteApp(pg, a), M!DeleteApp(mem, a))

CreateBuild == \E b \in Ids, a \in Known("apps") :
    New("builds", b, P!CreateBuild(pg, b, a), M!CreateBuild(mem, b, a))
UpdateBuild == \E b \in Known("builds"), v \in Values :
    Both(P!UpdateBuild(pg, b, v), M!UpdateBuild(mem, b, v))
CreateRelease == \E r, rev \in Ids, a \in Known("apps") :
    New("releases", r, P!CreateRelease(pg, r, a, rev), M!CreateRelease(mem, r, a, rev))
UpdateRelease == \E r \in Known("releases"), v \in Values :
    Both(P!UpdateRelease(pg, r, v), M!UpdateRelease(mem, r, v))

SetAppEnv == \E a \in Known("apps"), v \in Values :
    Both(P!SetAppEnv(pg, a, "key", v), M!SetAppEnv(mem, a, "key", v))
DeleteAppEnv == \E a \in Known("apps") :
    Both(P!DeleteAppEnv(pg, a, "key"), M!DeleteAppEnv(mem, a, "key"))
CreateDomain == \E d \in Ids, a \in Known("apps"), h \in Hosts :
    New("domains", d, P!CreateDomain(pg, d, a, h), M!CreateDomain(mem, d, a, h))
UpdateDomain == \E d \in Known("domains"), verified \in BOOLEAN :
    Parting(P!UpdateDomain(pg, d, verified), M!UpdateDomain(mem, d, verified))
DeleteDomain == \E d \in Known("domains") : Both(P!DeleteDomain(pg, d), M!DeleteDomain(mem, d))

CreateDatabase == \E d \in Ids, o \in Known("organizations") :
    New("databases", d, P!CreateDatabase(pg, d, o), M!CreateDatabase(mem, d, o))
UpdateDatabase == \E d \in Known("databases"), v \in Values :
    Both(P!UpdateDatabase(pg, d, v), M!UpdateDatabase(mem, d, v))
DeleteDatabase == \E d \in Known("databases") :
    Both(P!DeleteDatabase(pg, d), M!DeleteDatabase(mem, d))
CreateService == \E s \in Ids, o \in Known("organizations"), p \in Known("projects") \union {Nothing} :
    New("services", s, P!CreateService(pg, s, o, p), M!CreateService(mem, s, o, p))
UpdateService == \E s \in Known("services"), v \in Values :
    Both(P!UpdateService(pg, s, v), M!UpdateService(mem, s, v))
DeleteService == \E s \in Known("services") : Both(P!DeleteService(pg, s), M!DeleteService(mem, s))

CreateRefreshToken == \E k \in Ids, u \in Known("users") :
    New("refresh_tokens", k, P!CreateRefreshToken(pg, k, u), M!CreateRefreshToken(mem, k, u))
RevokeRefreshToken == \E k \in Known("refresh_tokens") :
    Both(P!RevokeRefreshToken(pg, k), M!RevokeRefreshToken(mem, k))
RevokeRefreshTokenIfActive == \E k \in Known("refresh_tokens") :
    Both(P!RevokeRefreshTokenIfActive(pg, k), M!RevokeRefreshTokenIfActive(mem, k))
RevokeAllUserRefreshTokens == \E u \in Known("users") :
    Both(P!RevokeAllUserRefreshTokens(pg, u), M!RevokeAllUserRefreshTokens(mem, u))
DeleteExpiredRefreshTokens ==
    Both(P!DeleteExpiredRefreshTokens(pg), M!DeleteExpiredRefreshTokens(mem))
\* Time passes.
Expire == \E k \in DOMAIN pg["refresh_tokens"] :
    Both(P!Update(pg, "refresh_tokens", k, [expired |-> TRUE]),
         M!Update(mem, "refresh_tokens", k, [expired |-> TRUE]))

CreatePasswordResetToken == \E k \in Ids, u \in Known("users") :
    New("password_reset_tokens", k, P!CreatePasswordResetToken(pg, k, u, k),
                                    M!CreatePasswordResetToken(mem, k, u, k))
InvalidateUserPasswordResetTokens == \E u \in Known("users") :
    Both(P!InvalidateUserPasswordResetTokens(pg, u), M!InvalidateUserPasswordResetTokens(mem, u))
ConsumePasswordResetToken == \E k \in Known("password_reset_tokens") :
    Both(P!ConsumePasswordResetToken(pg, k), M!ConsumePasswordResetToken(mem, k))

CreateApiToken == \E k \in Ids, u \in Known("users") :
    New("api_tokens", k, P!CreateApiToken(pg, k, u, k), M!CreateApiToken(mem, k, u, k))
DeleteApiToken == \E k \in Known("api_tokens"), u \in Known("users") :
    Both(P!DeleteApiToken(pg, u, k), M!DeleteApiToken(mem, u, k))
\* A request that a token has let in touches it later, in the background.
TouchApiToken == \E k \in Known("api_tokens"), v \in Values :
    Both(P!TouchApiToken(pg, k, v), M!TouchApiToken(mem, k, v))

UpsertSubscription == \E o \in Known("organizations"), s \in Ids \union {Nothing} :
    /\ s \in Ids => \A q \in DOMAIN pg["subscriptions"] \ {o} : pg["subscriptions"][q].stripe # s
    /\ Both(P!UpsertSubscription(pg, o, s), M!UpsertSubscription(mem, o, s))
AddUsage == \E k \in Ids, o \in Known("organizations") :
    New("usage_records", k, P!AddUsage(pg, k, o, k), M!AddUsage(mem, k, o, k))
\* The hour's record has the one id, however often it is metered.
AddUsageIfAbsent == \E o \in Known("organizations") :
    LET k == 10 + o IN
    Both(P!AddUsageIfAbsent(pg, k, o, 1), M!AddUsageIfAbsent(mem, k, o, 1))
MarkEventProcessed == \E e \in Ids :
    Both(P!MarkEventProcessed(pg, e), M!MarkEventProcessed(mem, e))
SetMeterState == \E v \in Values : Both(P!SetMeterState(pg, v), M!SetMeterState(mem, v))
SetUsageReportState == \E o \in Known("organizations"), v \in Values :
    Both(P!SetUsageReportState(pg, o, v), M!SetUsageReportState(mem, o, v))
CreateAuditEvent == \E k \in Ids, o \in Known("organizations") \union {Nothing} :
    New("audit_events", k, P!CreateAuditEvent(pg, k, o), M!CreateAuditEvent(mem, k, o))

UpsertPlan == \E k \in Ids, v \in Values : Both(P!UpsertPlan(pg, k, v), M!UpsertPlan(mem, k, v))
DeletePlan == \E k \in Ids : Both(P!DeletePlan(pg, k), M!DeletePlan(mem, k))
UpsertPricingComponent == \E k \in Ids, v \in Values :
    Both(P!UpsertPricingComponent(pg, k, v), M!UpsertPricingComponent(mem, k, v))
DeletePricingComponent == \E k \in Ids :
    Both(P!DeletePricingComponent(pg, k), M!DeletePricingComponent(mem, k))
UpsertServiceTemplate == \E k \in Ids, v \in Values :
    Both(P!UpsertServiceTemplate(pg, k, v), M!UpsertServiceTemplate(mem, k, v))
DeleteServiceTemplate == \E k \in Ids :
    Both(P!DeleteServiceTemplate(pg, k), M!DeleteServiceTemplate(mem, k))
UpdateSettings == \E v \in Values : Both(P!UpdateSettings(pg, v), M!UpdateSettings(mem, v))

-----------------------------------------------------------------------------

Next ==
    \/ group \notin {"catalog"} /\ CreateOrganization
    \/ group \in {"members", "invitations", "refresh", "reset", "api"} /\ CreateUser
    \/ group = "members" /\ (UpdateUser \/ UpdateOrg \/ AddMembership \/ UpdateMembershipRole
                             \/ RemoveMembership)
    \/ group \in {"projects", "invitations"} /\ (CreateProject \/ DeleteProject)
    \/ group = "invitations" /\ (CreateInvitation \/ RevokeInvitation \/ AcceptInvitation)
    \/ group \in {"projects", "apps", "config"} /\ (CreateApp \/ DeleteApp)
    \/ group = "apps" /\ (UpdateApp \/ CreateBuild \/ UpdateBuild \/ CreateRelease \/ UpdateRelease)
    \/ group = "config" /\ (SetAppEnv \/ DeleteAppEnv \/ CreateDomain \/ UpdateDomain \/ DeleteDomain)
    \/ group \in {"projects", "data"} /\ (CreateService \/ DeleteService)
    \/ group = "data" /\ (CreateDatabase \/ UpdateDatabase \/ DeleteDatabase \/ UpdateService
                          \/ CreateAuditEvent)
    \/ group = "refresh" /\ (CreateRefreshToken \/ RevokeRefreshToken \/ RevokeRefreshTokenIfActive
                             \/ RevokeAllUserRefreshTokens \/ DeleteExpiredRefreshTokens \/ Expire)
    \/ group = "reset" /\ (CreatePasswordResetToken \/ InvalidateUserPasswordResetTokens
                           \/ ConsumePasswordResetToken)
    \/ group = "api" /\ (CreateApiToken \/ DeleteApiToken \/ TouchApiToken)
    \/ group = "billing" /\ (UpsertSubscription \/ MarkEventProcessed \/ SetMeterState
                             \/ SetUsageReportState)
    \/ group = "usage" /\ (AddUsage \/ AddUsageIfAbsent)
    \/ group = "catalog" /\ (UpsertPlan \/ DeletePlan \/ UpsertPricingComponent
                             \/ DeletePricingComponent \/ UpsertServiceTemplate
                             \/ DeleteServiceTemplate \/ UpdateSettings)

Spec == Init /\ [][Next]_vars

-----------------------------------------------------------------------------
(* Properties.                                                             *)

\* Types.
TypeOK ==
    /\ DOMAIN pg = TableNames /\ DOMAIN mem = TableNames
    /\ pg["users_by_email"] = Empty
    /\ \A i \in DOMAIN pg["invitations"] :
          pg["invitations"][i].v \in {"pending", "accepted", "revoked"}
    /\ used \subseteq TableNames \X Ids
    /\ split \in BOOLEAN /\ group \in Groups

\* The rows of a store whose parents are there.
Live(db) ==
    [t \in TableNames \ {"users_by_email"} |->
        Only(db[t], {k \in DOMAIN db[t] : \A p \in P!Parents(t, db[t][k]) : Has(db, p[1], p[2])})]

\* No row of PostgreSQL refers to a row that is gone: what an app or a project owned
\* went with it, and nothing that was under way has added to it since (the schema's
\* ON DELETE CASCADE).
NoOrphanRow == \A t \in TableNames \ {"users_by_email"} : Live(pg)[t] = pg[t]

\* The in-memory store has the rows of PostgreSQL, and beside them only rows whose
\* parent is gone, until a host is verified twice or a membership added twice (store.go:
\* a PostgreSQL implementation satisfies the same interface).
SameRows == split \/ \A t \in TableNames \ {"users_by_email"} : Live(mem)[t] = pg[t]

\* The in-memory store has kept rows whose parent is gone.
Orphans == \E t \in TableNames \ {"users_by_email"} : Live(mem)[t] # mem[t]

\* A call is answered alike by both, but for one that names an app or a project that is
\* gone or a row that went with it, one on which they part, and a touch of a token that
\* is gone.
SameAnswers ==
    [][\/ split' \/ answer' = <<>>
       \/ answer'[1] \in {NotFound, Invalid} /\ (Orphans \/ Orphans')
       \/ answer' = <<OK, NotFound>> /\ group = "api"]_vars

\* Of what is there in PostgreSQL, every query finds the same in both stores: by key, by
\* email, token or hash, by parent and by page (applyPage: the two stores paginate
\* identically).
SameReads ==
    \/ split
    \/ /\ \A u \in Ids :
             /\ P!GetUserByID(pg, u) = M!GetUserByID(mem, u)
             /\ P!GetUserByEmail(pg, u) = M!GetUserByEmail(mem, u)
             /\ P!ListOrganizationsForUser(pg, u) = M!ListOrganizationsForUser(mem, u)
             /\ P!ListApiTokensByUser(pg, u) = M!ListApiTokensByUser(mem, u)
       /\ \A o \in Ids :
             /\ P!GetOrganization(pg, o) = M!GetOrganization(mem, o)
             /\ P!ListMemberships(pg, o) = M!ListMemberships(mem, o)
             /\ P!ListProjectsByOrg(pg, o) = M!ListProjectsByOrg(mem, o)
             /\ P!ListInvitationsByOrg(pg, o) = M!ListInvitationsByOrg(mem, o)
             /\ P!ListAppsByOrg(pg, o) = M!ListAppsByOrg(mem, o)
             /\ P!ListDatabasesByOrg(pg, o) = M!ListDatabasesByOrg(mem, o)
             /\ P!ListServicesByOrg(pg, o) = M!ListServicesByOrg(mem, o)
             /\ P!GetSubscription(pg, o) = M!GetSubscription(mem, o)
             /\ P!GetUsageReportState(pg, o) = M!GetUsageReportState(mem, o)
             /\ \A u \in Ids : P!GetMembership(pg, o, u) = M!GetMembership(mem, o, u)
       /\ \A k \in Ids :
             /\ P!GetProject(pg, k) = M!GetProject(mem, k)
             /\ P!GetInvitationByToken(pg, k) = M!GetInvitationByToken(mem, k)
             /\ P!GetApp(pg, k) = M!GetApp(mem, k)
             /\ P!GetDatabase(pg, k) = M!GetDatabase(mem, k)
             /\ P!GetService(pg, k) = M!GetService(mem, k)
             /\ P!GetRefreshToken(pg, k) = M!GetRefreshToken(mem, k)
             /\ P!GetPasswordResetTokenByHash(pg, k) = M!GetPasswordResetTokenByHash(mem, k)
             /\ P!GetApiTokenByHash(pg, k) = M!GetApiTokenByHash(mem, k)
             /\ P!EventProcessed(pg, k) = M!EventProcessed(mem, k)
             /\ P!GetPlan(pg, k) = M!GetPlan(mem, k)
             /\ P!GetPricingComponent(pg, k) = M!GetPricingComponent(mem, k)
             /\ P!GetServiceTemplate(pg, k) = M!GetServiceTemplate(mem, k)
       /\ \A s \in Ids \union {Nothing} :
             /\ P!GetSubscriptionByStripeID(pg, s) = M!GetSubscriptionByStripeID(mem, s)
             /\ P!GetSubscriptionByCustomerID(pg, s) = M!GetSubscriptionByCustomerID(mem, s)
       /\ \A p \in DOMAIN pg["projects"], u \in Ids :
             P!GetProjectMembership(pg, p, u) = M!GetProjectMembership(mem, p, u)
       /\ \A b \in DOMAIN pg["builds"] : P!GetBuild(pg, b) = M!GetBuild(mem, b)
       /\ \A r \in DOMAIN pg["releases"] : P!GetRelease(pg, r) = M!GetRelease(mem, r)
       /\ \A d \in DOMAIN pg["domains"] : P!GetDomain(pg, d) = M!GetDomain(mem, d)
       /\ \A a \in DOMAIN pg["apps"] :
             /\ P!GetAppEnv(pg, a) = M!GetAppEnv(mem, a)
             /\ P!ListAppEnv(pg, a) = M!ListAppEnv(mem, a)
             /\ P!ListDomainsByApp(pg, a) = M!ListDomainsByApp(mem, a)
       /\ \A h \in Hosts : ~Orphans => P!GetVerifiedDomainByHost(pg, h) = M!GetVerifiedDomainByHost(mem, h)
       /\ P!GetMeterState(pg) = M!GetMeterState(mem)
       /\ P!GetSettings(pg) = M!GetSettings(mem)
       /\ P!CountUsers(pg) = M!CountUsers(mem)
       /\ P!ListAllOrgs(pg) = M!ListAllOrgs(mem)
       /\ P!ListAllSubscriptions(pg) = M!ListAllSubscriptions(mem)
       /\ P!SumUsageByMetric(pg) = M!SumUsageByMetric(mem)
       /\ P!ListPlans(pg) = M!ListPlans(mem)
       /\ P!ListPricingComponents(pg) = M!ListPricingComponents(mem)
       /\ P!ListServiceTemplates(pg) = M!ListServiceTemplates(mem)

\* The pages of a list: the same in both stores, and no longer than was asked for.  Of the
\* usage of the whole platform PostgreSQL shows one page, the newest of the rows that the
\* in-memory store lists, all of them and in no order.
SamePages ==
    \A p \in Pages :
        /\ \A a \in DOMAIN pg["apps"] :
              /\ P!ListBuildsByApp(pg, a, p) = M!ListBuildsByApp(mem, a, p)
              /\ P!ListReleasesByApp(pg, a, p) = M!ListReleasesByApp(mem, a, p)
        /\ \A o \in Ids :
              /\ P!ListUsageByOrg(pg, o, p) = M!ListUsageByOrg(mem, o, p)
              /\ P!ListUsageByOrgSince(pg, o, 2, p) = M!ListUsageByOrgSince(mem, o, 2, p)
              /\ P!CountAuditEvents(pg, o) = M!CountAuditEvents(mem, o)
              /\ LET s == P!ListAuditEvents(pg, o, p, DefaultPageLimit, MaxPageLimit)
                 IN  /\ s = M!ListAuditEvents(mem, o, p, DefaultPageLimit, MaxPageLimit)
                     /\ Len(s) <= MaxPageLimit
        /\ LET s == P!ListAllUsage(pg, MaxPageLimit)
               all == M!ListAllUsage(mem)
           IN  /\ s = SubSeq(Descending(all, "at"), 1, Len(s))
               /\ Len(s) = IF Cardinality(DOMAIN all) < MaxPageLimit THEN Cardinality(DOMAIN all) ELSE MaxPageLimit

\* No two domains of one host are verified, in whatever order they were (the partial
\* unique index; VerifyDomain looks first, but another request may be ahead of it).
OneOwnerPerHost ==
    \A d, e \in DOMAIN pg["domains"] :
        pg["domains"][d].verified /\ pg["domains"][e].verified
        /\ pg["domains"][d].host = pg["domains"][e].host => d = e

\* The in-memory index leads to the user with that email, for every user.
EmailIndex ==
    /\ \A u \in DOMAIN mem["users"] :
          LET e == mem["users"][u].email IN Has(mem, "users_by_email", e) /\ mem["users_by_email"][e] = u
    /\ \A e \in DOMAIN mem["users_by_email"] : Has(mem, "users", mem["users_by_email"][e])

\* Between calls the two stores hold and show the same, and each is consistent in itself
\* (store.go: one interface, two implementations).
StoresAgree ==
    /\ TypeOK
    /\ SameRows /\ SameReads /\ SamePages
    /\ NoOrphanRow /\ OneOwnerPerHost /\ EmailIndex

\* A row that was deleted does not come back, whatever calls were under way: a token
\* that is being touched, a build that ends, a domain that is being verified.
DeletedStaysDeleted ==
    [][\A e \in used : /\ ~Has(pg, e[1], e[2]) => ~Has(pg', e[1], e[2])
                       /\ ~Has(mem, e[1], e[2]) => ~Has(mem', e[1], e[2])]_vars

=============================================================================
