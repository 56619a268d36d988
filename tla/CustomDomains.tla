---------------------------- MODULE CustomDomains ----------------------------
(***************************************************************************)
(* Custom domains (platform/appconfig.go): an organization's app claims a  *)
(* host, its owner publishes a token in the DNS, and a verification that   *)
(* finds it sets up the certificate, the listener and the route.  Two      *)
(* requests run at a time, any call to the cluster may fail, and a request *)
(* that failed may be sent again.                                          *)
(*                                                                         *)
(* An organization has one app.  The pool of gateways a listener is placed *)
(* in is the subject of GatewayShards; here a host has a listener or not.  *)
(***************************************************************************)
EXTENDS Naturals, FiniteSets

CONSTANTS
    Orgs, HostNames, Requests,
    Ids,        \* bound: the domains there are at a time; a free id is given again
    None        \* no organization, host or id

ASSUME NoneAssumption == None \notin Orgs \union HostNames \union Ids

VARIABLES
    row,        \* domains: the row of an id
    cert, listener,     \* hosts that have them
    app,        \* organizations whose app exists
    deployed,   \* ... and has a release in its row
    route,      \* the custom hosts an app's HTTPRoute lists
    req,        \* the requests under way
    proven,     \* history: the hosts an organization's token was found at
    overlapped,    \* history: hosts of requests that overlapped or failed half-way
    left        \* history: hosts whose domain went without being torn down

domainVars == <<row, cert, listener, app, deployed, route, req, proven, overlapped, left>>
cluster == <<cert, listener, route>>
history == <<proven, overlapped, left>>

Statuses == {"pending", "verified", "failed"}
NoRow == [org |-> None, host |-> None, status |-> "none"]
Idle == [pc |-> "idle", op |-> "none", org |-> None, id |-> None, host |-> None,
         was |-> FALSE, dep |-> FALSE, hosts |-> {}]

DomainInit ==
    /\ row = [d \in Ids |-> NoRow]
    /\ cert = {} /\ listener = {}
    /\ app = Orgs /\ deployed = {}
    /\ route = [o \in Orgs |-> {}]
    /\ req = [r \in Requests |-> Idle]
    /\ proven = [o \in Orgs |-> {}] /\ overlapped = {} /\ left = {}

-----------------------------------------------------------------------------

HasRow(d) == row[d] # NoRow
Of(o) == {d \in Ids : row[d].org = o}
HostsOf(o) == {row[d].host : d \in Of(o)}

\* Mutant: every domain of the app is routed, verified or not.
appDomainsAll(o) == HostsOf(o)

\* The hosts that an app's workload is applied with: of its verified domains.
appDomains(o) == {row[d].host : d \in {d \in Of(o) : row[d].status = "verified"}}

\* A verified domain of the host.
VerifiedByHost(h) == {d \in Ids : row[d].host = h /\ row[d].status = "verified"}

\* The hosts a request may touch: its own, and the verified ones of its organization.
Reach(q) == IF q.pc = "idle" THEN {}
            ELSE ({q.host} \ {None}) \union appDomains(q.org)

\* A request begins.  Requests that share an organization or a host cross.
Begin(r, q) ==
    /\ req[r].pc = "idle"
    /\ req' = [req EXCEPT ![r] = q]
    /\ LET with == {s \in Requests \ {r} :
                       req[s].pc # "idle" /\ (req[s].org = q.org \/ Reach(req[s]) \intersect Reach(q) # {})}
       IN  overlapped' = overlapped \union
               IF with = {} THEN {} ELSE Reach(q) \union UNION {Reach(req[s]) : s \in with}

Proceed(r, pc) == req' = [req EXCEPT ![r].pc = pc]
Done(r) == req' = [req EXCEPT ![r] = Idle]

\* A call to the cluster fails; the request ends with its error.
Fails(r) ==
    /\ req[r].pc \in {"cert", "listen", "apply", "unlisten", "uncert", "uninstall"}
    /\ Done(r)
    /\ overlapped' = overlapped \union Reach(req[r])
    /\ UNCHANGED <<row, cluster, app, deployed, proven, left>>

-----------------------------------------------------------------------------
AddDomain(o, h) ==
    /\ o \in app
    /\ \E d \in Ids :
          /\ ~HasRow(d) /\ \A r \in Requests : req[r].id # d
          /\ row' = [row EXCEPT ![d] = [org |-> o, host |-> h, status |-> "pending"]]
    /\ UNCHANGED <<cluster, app, deployed, req, history>>

-----------------------------------------------------------------------------
(* VerifyDomain.                                                           *)

\* The app and the domain are read and the TXT records of the host looked up, which find
\* the domain's token or not: the DNS is the tenant's, and may not answer.
VerifyDomain(r, o, d) ==
    /\ o \in app /\ d \in Of(o)
    /\ \E found \in {TRUE, FALSE} :
          /\ Begin(r, [Idle EXCEPT !.pc = IF found THEN "owner" ELSE "fail", !.op = "verify",
                                   !.org = o, !.id = d, !.host = row[d].host, !.dep = o \in deployed])
          /\ proven' = [proven EXCEPT ![o] = @ \union {h \in {row[d].host} : found}]
    /\ UNCHANGED <<row, cluster, app, deployed, left>>

\* The token was not found: the domain is failed, verified as it may have been, and
\* what was set up for it stays.
VerifyFails(r) ==
    LET d == req[r].id IN
    /\ req[r].pc = "fail"
    /\ row' = IF HasRow(d) THEN [row EXCEPT ![d].status = "failed"] ELSE row
    /\ left' = left \union {h \in {req[r].host} : row[d].status = "verified"}
    /\ Done(r)
    /\ UNCHANGED <<cluster, app, deployed, proven, overlapped>>

\* ErrDomainTaken: another domain of the host is verified.
CheckOwner(r) ==
    /\ req[r].pc = "owner"
    /\ IF VerifiedByHost(req[r].host) \subseteq {req[r].id}
       THEN Proceed(r, "mark") ELSE Done(r)
    /\ UNCHANGED <<row, cluster, app, deployed, history>>

\* Mutant: without the unique index on the verified host.
MarkVerifiedAny(r) ==
    LET d == req[r].id IN
    /\ req[r].pc = "mark"
    /\ IF HasRow(d)
       THEN /\ row' = [row EXCEPT ![d].status = "verified"]
            /\ Proceed(r, "cert")
       ELSE Done(r) /\ UNCHANGED row
    /\ UNCHANGED <<cluster, app, deployed, history>>

\* The row may be gone, or the unique index hold another by now.
MarkVerified(r) ==
    LET d == req[r].id IN
    /\ req[r].pc = "mark"
    /\ IF HasRow(d) /\ VerifiedByHost(req[r].host) \subseteq {d}
       THEN /\ row' = [row EXCEPT ![d].status = "verified"]
            /\ Proceed(r, "cert")
       ELSE Done(r) /\ UNCHANGED row
    /\ UNCHANGED <<cluster, app, deployed, history>>

\* attachVerifiedDomain.
EnsureDomainCertificate(r) ==
    /\ req[r].pc = "cert"
    /\ cert' = cert \union {req[r].host}
    /\ Proceed(r, "listen")
    /\ UNCHANGED <<row, listener, route, app, deployed, history>>

\* Mutant: the app is not applied again.
EnsureGatewayListenerOnly(r) ==
    /\ req[r].pc = "listen"
    /\ listener' = listener \union {req[r].host}
    /\ Done(r)
    /\ UNCHANGED <<row, cert, route, app, deployed, history>>

\* Without a release the route waits for the first deployment.
EnsureGatewayListener(r) ==
    /\ req[r].pc = "listen"
    /\ listener' = listener \union {req[r].host}
    /\ IF req[r].dep THEN Proceed(r, "read") ELSE Done(r)
    /\ UNCHANGED <<row, cert, route, app, deployed, history>>

-----------------------------------------------------------------------------
(* applyApp: the domains are read, then the workload is applied with them. *)

\* A lookup that fails is no domain.
ReadDomains(r) ==
    /\ req[r].pc = "read"
    /\ \E hosts \in {appDomains(req[r].org), {}} :
          /\ req' = [req EXCEPT ![r].hosts = hosts, ![r].pc = "apply"]
          /\ overlapped' = IF hosts = appDomains(req[r].org) THEN overlapped ELSE overlapped \union Reach(req[r])
    /\ UNCHANGED <<row, cluster, app, deployed, proven, left>>

Apply(r) ==
    LET o == req[r].org IN
    /\ req[r].pc = "apply"
    /\ route' = [route EXCEPT ![o] = req[r].hosts]
    /\ deployed' = deployed \union {p \in {o} : req[r].op = "deploy" /\ o \in app}
    /\ IF req[r].op = "delete" THEN Proceed(r, "unlisten") ELSE Done(r)
    /\ UNCHANGED <<row, cert, listener, app, history>>

Deploy(r, o) ==
    /\ o \in app
    /\ Begin(r, [Idle EXCEPT !.pc = "read", !.op = "deploy", !.org = o])
    /\ UNCHANGED <<row, cluster, app, deployed, proven, left>>

-----------------------------------------------------------------------------
(* DeleteDomain, and Delete of the app.                                    *)

DeleteDomain(r, o, d) ==
    /\ o \in app /\ d \in Of(o)
    /\ Begin(r, [Idle EXCEPT !.pc = "drop", !.op = "delete", !.org = o, !.id = d,
                             !.host = row[d].host, !.was = row[d].status = "verified", !.dep = o \in deployed])
    /\ UNCHANGED <<row, cluster, app, deployed, proven, left>>

\* Mutant: the app is not applied again without the host.
DropRowOnly(r) ==
    LET d == req[r].id IN
    /\ req[r].pc = "drop"
    /\ IF HasRow(d)
       THEN /\ row' = [row EXCEPT ![d] = NoRow]
            /\ IF req[r].was THEN Proceed(r, "unlisten") ELSE Done(r)
       ELSE Done(r) /\ UNCHANGED row
    /\ UNCHANGED <<cluster, app, deployed, history>>

\* The row goes first, whatever becomes of the rest.
DropRow(r) ==
    LET d == req[r].id IN
    /\ req[r].pc = "drop"
    /\ IF HasRow(d)
       THEN /\ row' = [row EXCEPT ![d] = NoRow]
            /\ IF ~req[r].was THEN Done(r)
               ELSE Proceed(r, IF req[r].dep THEN "read" ELSE "unlisten")
       ELSE Done(r) /\ UNCHANGED row
    /\ UNCHANGED <<cluster, app, deployed, history>>

\* Mutant: the listener stays.
RemoveGatewayListenerNot(r) ==
    /\ req[r].pc = "unlisten"
    /\ Proceed(r, "uncert")
    /\ UNCHANGED <<row, cluster, app, deployed, history>>

RemoveGatewayListener(r) ==
    /\ req[r].pc = "unlisten"
    /\ listener' = listener \ {req[r].host}
    /\ Proceed(r, "uncert")
    /\ UNCHANGED <<row, cert, route, app, deployed, history>>

RemoveDomainCertificate(r) ==
    /\ req[r].pc = "uncert"
    /\ cert' = cert \ {req[r].host}
    /\ Done(r)
    /\ UNCHANGED <<row, listener, route, app, deployed, history>>

\* The release is uninstalled and the row of the app deleted, the rows of its domains
\* with it; their listeners and certificates stay.
Delete(r, o) ==
    /\ o \in app
    /\ Begin(r, [Idle EXCEPT !.pc = IF o \in deployed THEN "uninstall" ELSE "dropapp",
                             !.op = "remove", !.org = o])
    /\ UNCHANGED <<row, cluster, app, deployed, proven, left>>

Uninstall(r) ==
    /\ req[r].pc = "uninstall"
    /\ route' = [route EXCEPT ![req[r].org] = {}]
    /\ Proceed(r, "dropapp")
    /\ UNCHANGED <<row, cert, listener, app, deployed, history>>

DropApp(r) ==
    LET o == req[r].org IN
    /\ req[r].pc = "dropapp"
    /\ app' = app \ {o} /\ deployed' = deployed \ {o}
    /\ row' = [d \in Ids |-> IF d \in Of(o) THEN NoRow ELSE row[d]]
    /\ left' = left \union HostsOf(o)
    /\ Done(r)
    /\ UNCHANGED <<cluster, proven, overlapped>>

-----------------------------------------------------------------------------

DomainNext ==
    \/ \E o \in Orgs, h \in HostNames : AddDomain(o, h)
    \/ \E r \in Requests, o \in Orgs, d \in Ids : VerifyDomain(r, o, d) \/ DeleteDomain(r, o, d)
    \/ \E r \in Requests, o \in Orgs : Deploy(r, o) \/ Delete(r, o)
    \/ \E r \in Requests :
          \/ Fails(r) \/ VerifyFails(r) \/ CheckOwner(r) \/ MarkVerified(r)
          \/ EnsureDomainCertificate(r) \/ EnsureGatewayListener(r)
          \/ ReadDomains(r) \/ Apply(r)
          \/ DropRow(r) \/ RemoveGatewayListener(r) \/ RemoveDomainCertificate(r)
          \/ Uninstall(r) \/ DropApp(r)

DomainSpec == DomainInit /\ [][DomainNext]_domainVars

-----------------------------------------------------------------------------
(* Properties.                                                             *)

\* Types.
DomainTypes ==
    /\ row \in [Ids -> [org : Orgs, host : HostNames, status : Statuses] \union {NoRow}]
    /\ cert \subseteq HostNames /\ listener \subseteq HostNames
    /\ app \subseteq Orgs /\ deployed \subseteq app
    /\ route \in [Orgs -> SUBSET HostNames]

\* No request is under way that may touch the host.
Quiet(h) == \A r \in Requests : h \notin Reach(req[r])

\* An app serves a host, and a host has a listener or a certificate, only after a token
\* of the organization, or of some organization, was found at it, whatever overlaps
\* (appDomains: a pending domain must never reach the route; VerifyDomain: no spoofing).
NothingUnproven ==
    /\ \A o \in Orgs : route[o] \subseteq proven[o]
    /\ cert \union listener \subseteq UNION {proven[o] : o \in Orgs}

\* No two domains of a host are verified, though both requests have looked for an owner
\* before either marked its own.
OneOwner == \A h \in HostNames : Cardinality(VerifiedByHost(h)) <= 1

\* A verified domain is served, by its certificate, its listener and, once its app is
\* deployed, its route, however often it changed hands and the app was deployed; only
\* requests that overlapped or failed half-way leave it out (attachVerifiedDomain).
VerifiedIsServed ==
    \A d \in Ids :
        LET h == row[d].host IN
        row[d].status = "verified" /\ h \notin overlapped /\ Quiet(h) =>
            h \in cert /\ h \in listener /\ (row[d].org \in deployed => h \in route[row[d].org])

\* A host that no verified domain has keeps no listener and no certificate, unless its
\* verification lapsed or its app was deleted (DeleteDomain tears down what was verified).
NothingLeftBehind ==
    \A h \in (cert \union listener) \ (overlapped \union left) : Quiet(h) => VerifiedByHost(h) # {}

\* A host is served by the app of one organization: when it changes hands the route of the
\* one before it has dropped it, unless its verification lapsed.
OneRoute ==
    \A h \in HostNames \ (overlapped \union left) :
        Quiet(h) => Cardinality({o \in Orgs : h \in route[o]}) <= 1

\* What is served is what was proven and is owned, and the reverse (AddDomain, VerifyDomain,
\* DeleteDomain and the deploys between them).
HostsServedByOwner ==
    /\ DomainTypes
    /\ NothingUnproven /\ OneOwner
    /\ VerifiedIsServed /\ NothingLeftBehind /\ OneRoute

=============================================================================
