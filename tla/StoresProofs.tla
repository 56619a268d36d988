---------------------------- MODULE StoresProofs ----------------------------
(***************************************************************************)
(* Proofs about Stores, for any ids, hosts, values and pages and for any   *)
(* set of calls: PostgreSQL and the in-memory store hold, answer and show  *)
(* the same wherever the properties say so.                                *)
(*                                                                         *)
(* First the schema and the statements, each on one store; then what a     *)
(* statement made on both stores keeps (StoresInv); then the calls, one by *)
(* one; then what the queries find.                                        *)
(***************************************************************************)
EXTENDS Stores, FiniteSetTheorems, TLAPS

-----------------------------------------------------------------------------
(* The schema.                                                             *)

\* The tables themselves, those that others refer to, and those whose rows go with a project
\* or an app.
Real == TableNames \ {"users_by_email"}
Base == {"organizations", "users", "projects", "apps"}
Loose == {"project_memberships", "builds", "releases", "app_env", "domains"}
Firm == Real \ Loose

\* The columns of a table that references and unique indexes look at.
Indexed(t) ==
    CASE t = "users" -> {"email"}
      [] t = "invitations" -> {"token"}
      [] t = "releases" -> {"rev", "app"}
      [] t \in {"password_reset_tokens", "api_tokens"} -> {"hash"}
      [] t = "domains" -> {"verified", "host"}
      [] OTHER -> {}
Columns(t) == Indexed(t) \union {r[2] : r \in {r \in P!References : r[1] = t}}

\* A row that has what an index keeps apart in another one; a row whose parent is not there.
Clash(db, t, k, row) ==
    P!Unique(t, row) # {} /\ \E j \in DOMAIN db[t] \ {k} : P!Unique(t, db[t][j]) = P!Unique(t, row)
Lost(db, t, row) == \E p \in P!Parents(t, row) : ~Has(db, p[1], p[2])

\* Each reference of the schema.
LEMMA Refs ==
    ASSUME NEW r \in P!References
    PROVE  /\ r = <<r[1], r[2], r[3]>>
           /\ r[3] = "organizations" <=> r[2] = "org"
           /\ r[3] = "users" <=> r[2] = "user"
           /\ r[3] = "projects" <=> r[2] = "project"
           /\ r[3] = "apps" <=> r[2] = "app"
           /\ r[2] \in {"org", "user", "project", "app"}
           /\ r[3] \in Base
           /\ r[1] \in Loose \ {"project_memberships"} <=> r[2] = "app"
           /\ r[2] = "project" => r[1] = "project_memberships"
           /\ r[1] = "project_memberships" => r[2] \in {"project", "user"}
           /\ r[1] \in {"apps", "projects"} => r[2] = "org"
           /\ r[1] \notin {"organizations", "users"}
  BY DEF P!References, Base, Loose

\* The parents of a row are in the base tables, one for each of the columns that refer to one.
LEMMA Parent ==
    ASSUME NEW t, NEW row, NEW p
    PROVE  p \in P!Parents(t, row) <=> \E r \in P!References : r[1] = t /\ p = <<r[3], row[r[2]]>>
  BY DEF P!Parents

\* A parent is a row of a base table.
LEMMA ParentTables ==
    ASSUME NEW t, NEW row, NEW p \in P!Parents(t, row)
    PROVE  /\ p = <<p[1], p[2]>> /\ p[1] \in Base
           /\ t \notin Loose => p[1] \in {"organizations", "users"}
           /\ t = "project_memberships" => p[1] \in {"projects", "users"}
           /\ t \in Loose \ {"project_memberships"} => p = <<"apps", row.app>>
           /\ t \in {"projects", "apps"} => p[1] = "organizations"
           /\ t \notin {"organizations", "users"}
<1>1. PICK r \in P!References : r[1] = t /\ p = <<r[3], row[r[2]]>>
  BY Parent
<1> QED
  BY <1>1, Refs DEF Base, Loose

\* The tables whose rows have no parent.
LEMMA NoParents ==
    ASSUME NEW t, NEW row,
           t \in {"organizations", "users", "usage_records", "processed_stripe_events", "meter_state",
                 "audit_events",
                  "plans", "pricing_components", "service_templates", "platform_settings"}
    PROVE  P!Parents(t, row) = {}
<1>1. \A r \in P!References : r[1] # t
  BY DEF P!References
<1> QED
  BY <1>1, Parent

\* ... for the tables of one reference.
LEMMA OneParent ==
    ASSUME NEW row
    PROVE  /\ \A t \in {"projects", "invitations", "apps", "databases", "services", "subscriptions",
               "usage_report_state"} :
                P!Parents(t, row) = {<<"organizations", row.org>>}
           /\ \A t \in {"builds", "releases", "app_env", "domains"} : P!Parents(t, row) = {<<"apps", row.app>>}
           /\ \A t \in {"refresh_tokens", "password_reset_tokens", "api_tokens"} :
                P!Parents(t, row) = {<<"users", row.user>>}
<1>1. ASSUME NEW t \in {"projects", "invitations", "apps", "databases", "services", "subscriptions",
          "usage_report_state"}
      PROVE  P!Parents(t, row) = {<<"organizations", row.org>>}
  <2>1. <<t, "org", "organizations">> \in P!References
    BY DEF P!References
  <2>2. \A r \in P!References : r[1] = t => r = <<t, "org", "organizations">>
    BY DEF P!References
  <2> QED
    BY <2>1, <2>2, Parent
<1>2. ASSUME NEW t \in {"builds", "releases", "app_env", "domains"} PROVE P!Parents(t, row) = {<<"apps", row.app>>}
  <2>1. <<t, "app", "apps">> \in P!References
    BY DEF P!References
  <2>2. \A r \in P!References : r[1] = t => r = <<t, "app", "apps">>
    BY DEF P!References
  <2> QED
    BY <2>1, <2>2, Parent
<1>3. ASSUME NEW t \in {"refresh_tokens", "password_reset_tokens", "api_tokens"}
      PROVE  P!Parents(t, row) = {<<"users", row.user>>}
  <2>1. <<t, "user", "users">> \in P!References
    BY DEF P!References
  <2>2. \A r \in P!References : r[1] = t => r = <<t, "user", "users">>
    BY DEF P!References
  <2> QED
    BY <2>1, <2>2, Parent
<1> QED
  BY <1>1, <1>2, <1>3

\* ... and of two.
LEMMA TwoParents ==
    ASSUME NEW row
    PROVE  /\ P!Parents("memberships", row) = {<<"organizations", row.org>>, <<"users", row.user>>}
           /\ P!Parents("project_memberships", row) = {<<"projects", row.project>>, <<"users", row.user>>}
<1>1. P!Parents("memberships", row) = {<<"organizations", row.org>>, <<"users", row.user>>}
  <2>1. <<"memberships", "org", "organizations">> \in P!References
        /\ <<"memberships", "user", "users">> \in P!References
    BY DEF P!References
  <2>2. \A r \in P!References : r[1] = "memberships" =>
            r = <<"memberships", "org", "organizations">> \/ r = <<"memberships", "user", "users">>
    BY DEF P!References
  <2> QED
    BY <2>1, <2>2, Parent
<1>2. P!Parents("project_memberships", row) = {<<"projects", row.project>>, <<"users", row.user>>}
  <2>1. /\ <<"project_memberships", "project", "projects">> \in P!References
        /\ <<"project_memberships", "user", "users">> \in P!References
    BY DEF P!References
  <2>2. \A r \in P!References : r[1] = "project_memberships" =>
            r = <<"project_memberships", "project", "projects">> \/ r = <<"project_memberships", "user", "users">>
    BY DEF P!References
  <2> QED
    BY <2>1, <2>2, Parent
<1> QED
  BY <1>1, <1>2

\* A row keeps its parents and its place in the indexes when the other columns are written.
LEMMA SameKeys ==
    ASSUME NEW t, NEW row, NEW cols, Columns(t) \subseteq DOMAIN row, DOMAIN cols \intersect Columns(t) = {}
    PROVE  /\ DOMAIN With(row, cols) = DOMAIN row
           /\ P!Parents(t, With(row, cols)) = P!Parents(t, row)
           /\ P!Unique(t, With(row, cols)) = P!Unique(t, row)
           /\ \A c \in Columns(t) : With(row, cols)[c] = row[c]
<1>1. DOMAIN With(row, cols) = DOMAIN row
  BY DEF With
<1>2. \A c \in Columns(t) : With(row, cols)[c] = row[c]
  BY DEF With
<1>3. \A r \in P!References : r[1] = t => r[2] \in Columns(t)
  BY DEF Columns
<1>4. P!Parents(t, With(row, cols)) = P!Parents(t, row)
  <2> DEFINE w == With(row, cols)
  <2>1. \A r \in P!References : r[1] = t => w[r[2]] = row[r[2]]
    BY <1>2, <1>3
  <2> HIDE DEF w
  <2>2. \A p : p \in P!Parents(t, w) <=> p \in P!Parents(t, row)
    BY <2>1, Parent
  <2>3. P!Parents(t, w) = P!Parents(t, row)
    BY <2>2
  <2> QED
    BY <2>3 DEF w
<1>5. \A c \in Indexed(t) : With(row, cols)[c] = row[c]
  BY <1>2 DEF Columns
<1>6. P!Unique(t, With(row, cols)) = P!Unique(t, row)
  <2> DEFINE w == With(row, cols)
  <2>1. \A c \in Indexed(t) : w[c] = row[c]
    BY <1>5
  <2> HIDE DEF w
  <2>2. P!Unique(t, w) = P!Unique(t, row)
    BY <2>1 DEF P!Unique, Indexed
  <2> QED
    BY <2>2 DEF w
<1> QED
  BY <1>1, <1>2, <1>4, <1>6

-----------------------------------------------------------------------------
(* The statements.                                                         *)

\* What the statements of PostgreSQL do: a key, an index and a parent decide.
LEMMA PStatements ==
    ASSUME NEW db, NEW t, NEW k, NEW row
    PROVE  /\ P!Write(db, t, k, row) =
                IF Clash(db, t, k, row) THEN <<db, Conflict>>
                ELSE IF Lost(db, t, row) THEN <<db, Invalid>> ELSE <<Put(db, t, k, row), OK>>
           /\ P!Insert(db, t, k, row) = IF Has(db, t, k) THEN <<db, Conflict>> ELSE P!Write(db, t, k, row)
           /\ P!Upsert(db, t, k, row) = P!Write(db, t, k, row)
           /\ P!Update(db, t, k, row) =
                IF Has(db, t, k) THEN P!Write(db, t, k, With(db[t][k], row)) ELSE <<db, NotFound>>
           /\ P!Delete(db, t, k) = IF Has(db, t, k) THEN <<P!Cascade(db, t, {k}), OK>> ELSE <<db, NotFound>>
<1> USE DEF Conflict, Invalid, OK, NotFound, P!Conflict, P!Invalid, P!OK, P!NotFound, Has, P!Has
<1>1. P!Put(db, t, k, row) = Put(db, t, k, row)
  BY DEF P!Put, Put
<1>2. P!Violation(db, t, k, row) = IF Clash(db, t, k, row) THEN Conflict ELSE IF Lost(db, t, row)
          THEN Invalid ELSE OK
  BY DEF P!Violation, Clash, Lost
<1>3. P!Write(db, t, k, row) = IF P!Violation(db, t, k, row) = OK THEN <<Put(db, t, k, row), OK>>
                               ELSE <<db, P!Violation(db, t, k, row)>>
  BY <1>1 DEF P!Write
<1>4. P!With(db[t][k], row) = With(db[t][k], row)
  BY DEF P!With, With
<1>5. P!Update(db, t, k, row) =
                IF Has(db, t, k) THEN P!Write(db, t, k, With(db[t][k], row)) ELSE <<db, NotFound>>
  BY <1>4 DEF P!Update
<1>6. P!Write(db, t, k, row) =
                IF Clash(db, t, k, row) THEN <<db, Conflict>>
                ELSE IF Lost(db, t, row) THEN <<db, Invalid>> ELSE <<Put(db, t, k, row), OK>>
  BY <1>2, <1>3
<1> QED
  BY <1>5, <1>6 DEF P!Insert, P!Upsert, P!Delete

\* ON CONFLICT DO NOTHING.
LEMMA PAbsent ==
    ASSUME NEW db, NEW t, NEW k, NEW row, ~Clash(db, t, k, row), ~Lost(db, t, row)
    PROVE  P!InsertIfAbsent(db, t, k, row) = IF Has(db, t, k) THEN <<db, No>> ELSE <<Put(db, t, k, row), Yes>>
<1>1. P!Write(db, t, k, row) = <<Put(db, t, k, row), OK>>
  BY PStatements
<1> QED
  BY <1>1 DEF P!InsertIfAbsent, P!No, No, P!Yes, Yes, OK, P!OK, Has, P!Has

\* The same of the maps, where only the key decides.
LEMMA MStatements ==
    ASSUME NEW db, NEW t, NEW k, NEW row
    PROVE  /\ M!Insert(db, t, k, row) = IF Has(db, t, k) THEN <<db, Conflict>> ELSE <<Put(db, t, k, row), OK>>
           /\ M!Set(db, t, k, row) = <<Put(db, t, k, row), OK>>
           /\ M!Update(db, t, k, row) =
                IF Has(db, t, k) THEN <<Put(db, t, k, With(db[t][k], row)), OK>> ELSE <<db, NotFound>>
           /\ M!Delete(db, t, k) = IF Has(db, t, k) THEN <<Without(db, t, {k}), OK>> ELSE <<db, NotFound>>
           /\ M!InsertIfAbsent(db, t, k, row) = IF Has(db, t, k) THEN <<db, No>> ELSE <<Put(db, t, k, row), Yes>>
<1> USE DEF Conflict, Invalid, OK, NotFound, No, Yes, M!Conflict, M!Invalid, M!OK, M!NotFound, M!No,
        M!Yes, Has, M!Has
<1>1. M!Put(db, t, k, row) = Put(db, t, k, row)
  BY DEF M!Put, Put
<1>2. M!Put(db, t, k, With(db[t][k], row)) = Put(db, t, k, With(db[t][k], row))
  BY DEF M!Put, Put
<1>4. M!With(db[t][k], row) = With(db[t][k], row)
  BY DEF M!With, With
<1>5. M!Without(db, t, {k}) = Without(db, t, {k})
  BY DEF M!Without, Without, M!Only, Only
<1> QED
  BY <1>1, <1>2, <1>4, <1>5 DEF M!Insert, M!Set, M!Update, M!Delete, M!InsertIfAbsent

-----------------------------------------------------------------------------
(* What a store is between calls.                                          *)

\* Tables of rows that have the columns in question.
Table(f) == f = [k \in DOMAIN f |-> f[k]] /\ IsFiniteSet(DOMAIN f)
Shaped(db) ==
    /\ db = [t \in DOMAIN db |-> db[t]] /\ DOMAIN db = TableNames
    /\ \A t \in TableNames : Table(db[t])
    /\ \A t \in Real : \A k \in DOMAIN db[t] : Columns(t) \subseteq DOMAIN db[t][k]

\* Two tables with the same rows are the same.
LEMMA SameTable ==
    ASSUME NEW f, NEW g, Table(f), Table(g), DOMAIN f = DOMAIN g, \A k \in DOMAIN f : f[k] = g[k]
    PROVE  f = g
<1>1. f = [k \in DOMAIN f |-> f[k]] /\ g = [k \in DOMAIN f |-> g[k]]
  BY DEF Table
<1> QED
  BY <1>1

\* The indexes and the references of the schema.
Apart(db) == \A t \in Real : \A k \in DOMAIN db[t] : ~Clash(db, t, k, db[t][k])
Rooted(db) == \A t \in Real : \A k \in DOMAIN db[t] : ~Lost(db, t, db[t][k])

\* What a write makes of a store.
LEMMA PutIs ==
    ASSUME NEW db, Shaped(db), NEW t \in TableNames, NEW k, NEW row
    PROVE  LET d == Put(db, t, k, row) IN
           /\ d = [u \in DOMAIN d |-> d[u]] /\ DOMAIN d = TableNames
           /\ \A u \in TableNames \ {t} : d[u] = db[u]
           /\ DOMAIN d[t] = DOMAIN db[t] \union {k}
           /\ d[t][k] = row
           /\ \A j \in DOMAIN db[t] \ {k} : d[t][j] = db[t][j]
           /\ Table(d[t])
<1> DEFINE d == Put(db, t, k, row)
<1>1. /\ d = [u \in DOMAIN d |-> d[u]] /\ DOMAIN d = TableNames
      /\ \A u \in TableNames \ {t} : d[u] = db[u]
      /\ d[t] = [j \in DOMAIN db[t] \union {k} |-> IF j = k THEN row ELSE db[t][j]]
  BY DEF Put, Shaped
<1>2. IsFiniteSet(DOMAIN db[t] \union {k})
  BY FS_AddElement DEF Shaped, Table
<1> HIDE DEF d
<1>3. /\ DOMAIN d[t] = DOMAIN db[t] \union {k} /\ d[t][k] = row
      /\ \A j \in DOMAIN db[t] \ {k} : d[t][j] = db[t][j]
  BY <1>1
<1>4. Table(d[t])
  BY <1>1, <1>2, <1>3 DEF Table
<1>5. /\ d = [u \in DOMAIN d |-> d[u]] /\ DOMAIN d = TableNames
      /\ \A u \in TableNames \ {t} : d[u] = db[u]
      /\ DOMAIN d[t] = DOMAIN db[t] \union {k}
      /\ d[t][k] = row
      /\ \A j \in DOMAIN db[t] \ {k} : d[t][j] = db[t][j]
      /\ Table(d[t])
  BY <1>1, <1>3, <1>4
<1> QED
  BY <1>5 DEF d

\* ... what taking rows out makes of it.
LEMMA WithoutIs ==
    ASSUME NEW db, Shaped(db), NEW t \in TableNames, NEW K
    PROVE  LET d == Without(db, t, K) IN
           /\ d = [u \in DOMAIN d |-> d[u]] /\ DOMAIN d = TableNames
           /\ \A u \in TableNames \ {t} : d[u] = db[u]
           /\ DOMAIN d[t] = DOMAIN db[t] \ K
           /\ \A j \in DOMAIN db[t] \ K : d[t][j] = db[t][j]
           /\ Table(d[t])
<1> DEFINE d == Without(db, t, K)
<1>1. /\ d = [u \in DOMAIN d |-> d[u]] /\ DOMAIN d = TableNames
      /\ \A u \in TableNames \ {t} : d[u] = db[u]
      /\ d[t] = [j \in DOMAIN db[t] \intersect (DOMAIN db[t] \ K) |-> db[t][j]]
  BY DEF Without, Only, Shaped
<1>2. IsFiniteSet(DOMAIN db[t] \ K)
  BY FS_Subset DEF Shaped, Table
<1> HIDE DEF d
<1>3. /\ DOMAIN d[t] = DOMAIN db[t] \ K
      /\ \A j \in DOMAIN db[t] \ K : d[t][j] = db[t][j]
  BY <1>1
<1>4. Table(d[t])
  BY <1>1, <1>2, <1>3 DEF Table
<1>5. /\ d = [u \in DOMAIN d |-> d[u]] /\ DOMAIN d = TableNames
      /\ \A u \in TableNames \ {t} : d[u] = db[u]
      /\ DOMAIN d[t] = DOMAIN db[t] \ K
      /\ \A j \in DOMAIN db[t] \ K : d[t][j] = db[t][j]
      /\ Table(d[t])
  BY <1>1, <1>3, <1>4
<1> QED
  BY <1>5 DEF d

\* ... and what goes with a row that is deleted.
Goes(t, K, u, k, row) == \/ u = t /\ k \in K
                         \/ u # t /\ \E x \in K : <<t, x>> \in P!Parents(u, row)

\* ON DELETE CASCADE takes the rows that refer to one of the keys, and only those.
LEMMA CascadeIs ==
    ASSUME NEW db, Shaped(db), NEW t \in TableNames, NEW K
    PROVE  LET d == P!Cascade(db, t, K) IN
           /\ d = [u \in DOMAIN d |-> d[u]] /\ DOMAIN d = TableNames
           /\ \A u \in TableNames : \A k : k \in DOMAIN d[u] <=> k \in DOMAIN db[u] /\ ~Goes(t, K, u, k, db[u][k])
           /\ \A u \in TableNames : \A k \in DOMAIN d[u] : d[u][k] = db[u][k]
           /\ \A u \in TableNames : Table(d[u])
<1> DEFINE d == P!Cascade(db, t, K)
           Stay(u) == {k \in DOMAIN db[u] : \A r \in P!References : r[1] = u /\ r[3] = t => db[u][k][r[2]] \notin K}
<1>1. d = [u \in TableNames |-> IF u = t THEN P!Only(db[u], DOMAIN db[u] \ K) ELSE P!Only(db[u], Stay(u))]
  BY DEF P!Cascade, Shaped
<1>2. d = [u \in DOMAIN d |-> d[u]] /\ DOMAIN d = TableNames
  BY <1>1
<1>3. \A u \in TableNames : d[u] = [k \in IF u = t THEN DOMAIN db[u] \ K ELSE Stay(u) |-> db[u][k]]
  <2> SUFFICES ASSUME NEW u \in TableNames
          PROVE d[u] = [k \in IF u = t THEN DOMAIN db[u] \ K ELSE Stay(u) |-> db[u][k]]
    OBVIOUS
  <2>1. d[u] = IF u = t THEN P!Only(db[u], DOMAIN db[u] \ K) ELSE P!Only(db[u], Stay(u))
    BY <1>1
  <2>2. Stay(u) \subseteq DOMAIN db[u]
    OBVIOUS
  <2>3. \A S \in SUBSET DOMAIN db[u] : P!Only(db[u], S) = [k \in S |-> db[u][k]]
    <3> SUFFICES ASSUME NEW S \in SUBSET DOMAIN db[u] PROVE P!Only(db[u], S) = [k \in S |-> db[u][k]]
      OBVIOUS
    <3>1. DOMAIN db[u] \intersect S = S
      OBVIOUS
    <3> QED
      BY <3>1 DEF P!Only
  <2> HIDE DEF d, Stay
  <2> QED
    BY <2>1, <2>2, <2>3
<1>4. ASSUME NEW u \in TableNames, NEW k \in DOMAIN db[u], u # t
      PROVE  k \in Stay(u) <=> ~\E x \in K : <<t, x>> \in P!Parents(u, db[u][k])
  <2>1. \A x : <<t, x>> \in P!Parents(u, db[u][k]) <=>
                \E r \in P!References : r[1] = u /\ <<t, x>> = <<r[3], db[u][k][r[2]]>>
    BY Parent
  <2>2. k \in Stay(u) <=> \A r \in P!References : r[1] = u /\ r[3] = t => db[u][k][r[2]] \notin K
    OBVIOUS
  <2>3. ASSUME k \in Stay(u), NEW x \in K, <<t, x>> \in P!Parents(u, db[u][k]) PROVE FALSE
    <3>1. PICK r \in P!References : r[1] = u /\ <<t, x>> = <<r[3], db[u][k][r[2]]>>
      BY <2>1, <2>3
    <3>2. r[3] = t /\ db[u][k][r[2]] = x
      BY <3>1
    <3> QED
      BY <2>2, <2>3, <3>1, <3>2
  <2>4. ASSUME k \notin Stay(u) PROVE \E x \in K : <<t, x>> \in P!Parents(u, db[u][k])
    <3>1. PICK r \in P!References : r[1] = u /\ r[3] = t /\ db[u][k][r[2]] \in K
      BY <2>2, <2>4
    <3> QED
      BY <2>1, <3>1
  <2> HIDE DEF Stay
  <2> QED
    BY <2>3, <2>4
<1>5. \A u \in TableNames : \A k : k \in DOMAIN d[u] <=> k \in DOMAIN db[u] /\ ~Goes(t, K, u, k, db[u][k])
  <2> SUFFICES ASSUME NEW u \in TableNames, NEW k
               PROVE  k \in DOMAIN d[u] <=> k \in DOMAIN db[u] /\ ~Goes(t, K, u, k, db[u][k])
    OBVIOUS
  <2>1. DOMAIN d[u] = IF u = t THEN DOMAIN db[u] \ K ELSE Stay(u)
    BY <1>3
  <2>2. Stay(u) \subseteq DOMAIN db[u]
    OBVIOUS
  <2> HIDE DEF d, Stay
  <2> QED
    BY <1>4, <2>1, <2>2 DEF Goes
<1>6. \A u \in TableNames : DOMAIN d[u] \subseteq DOMAIN db[u]
  <2> HIDE DEF d
  <2> QED
    BY <1>5
<1>7. \A u \in TableNames : Table(d[u])
  <2> SUFFICES ASSUME NEW u \in TableNames PROVE Table(d[u])
    OBVIOUS
  <2>1. IsFiniteSet(DOMAIN d[u])
    BY <1>6, FS_Subset DEF Shaped, Table
  <2>2. d[u] = [k \in DOMAIN d[u] |-> d[u][k]]
    <3>1. d[u] = [k \in IF u = t THEN DOMAIN db[u] \ K ELSE Stay(u) |-> db[u][k]]
      BY <1>3
    <3> HIDE DEF d, Stay
    <3> QED
      BY <3>1
  <2> QED
    BY <2>1, <2>2 DEF Table
<1>8. \A u \in TableNames : \A k \in DOMAIN d[u] : d[u][k] = db[u][k]
  <2> SUFFICES ASSUME NEW u \in TableNames, NEW k \in DOMAIN d[u] PROVE d[u][k] = db[u][k]
    OBVIOUS
  <2>1. d[u] = [j \in IF u = t THEN DOMAIN db[u] \ K ELSE Stay(u) |-> db[u][j]]
    BY <1>3
  <2> HIDE DEF d, Stay
  <2> QED
    BY <2>1
<1> QED
  BY <1>2, <1>5, <1>7, <1>8

Sound(db) == Shaped(db) /\ Apart(db) /\ Rooted(db)

\* A row that may be written leaves the indexes and references as they should be.
LEMMA WriteKeeps ==
    ASSUME NEW db, Sound(db), NEW t \in Real, NEW k, NEW row,
           Columns(t) \subseteq DOMAIN row, ~Clash(db, t, k, row), ~Lost(db, t, row)
    PROVE  Sound(Put(db, t, k, row))
<1> DEFINE d == Put(db, t, k, row)
<1>1. /\ d = [u \in DOMAIN d |-> d[u]] /\ DOMAIN d = TableNames
      /\ \A u \in TableNames \ {t} : d[u] = db[u]
      /\ DOMAIN d[t] = DOMAIN db[t] \union {k}
      /\ d[t][k] = row
      /\ \A j \in DOMAIN db[t] \ {k} : d[t][j] = db[t][j]
      /\ Table(d[t])
  BY PutIs DEF Sound, Real
<1> HIDE DEF d
<1>2. Shaped(d)
  <2>1. \A u \in TableNames : Table(d[u])
    BY <1>1 DEF Sound, Shaped
  <2>2. ASSUME NEW u \in Real, NEW j \in DOMAIN d[u] PROVE Columns(u) \subseteq DOMAIN d[u][j]
    BY <1>1, <2>2 DEF Sound, Shaped, Real
  <2> QED
    BY <1>1, <2>1, <2>2 DEF Shaped
<1>3. ASSUME NEW p, ~Has(d, p[1], p[2]), p[1] \in Real PROVE ~Has(db, p[1], p[2])
  BY <1>1, <1>3 DEF Has, Real
<1>4. Rooted(d)
  <2> SUFFICES ASSUME NEW u \in Real, NEW j \in DOMAIN d[u], Lost(d, u, d[u][j]) PROVE FALSE
    BY DEF Rooted
  <2>1. PICK p \in P!Parents(u, d[u][j]) : ~Has(d, p[1], p[2])
    BY DEF Lost
  <2>2. p[1] \in Base
    BY <2>1, ParentTables
  <2>3. p[1] \in Real
    BY <2>2 DEF Base, Real, TableNames
  <2>4. ~Has(db, p[1], p[2])
    BY <1>3, <2>1, <2>3
  <2>5. Lost(db, u, d[u][j])
    BY <2>1, <2>4 DEF Lost
  <2>6. CASE u = t /\ j = k
    BY <1>1, <2>5, <2>6
  <2>7. CASE ~(u = t /\ j = k)
    <3>1. j \in DOMAIN db[u] /\ d[u][j] = db[u][j]
      BY <1>1, <2>7 DEF Real
    <3> QED
      BY <2>5, <3>1 DEF Sound, Rooted
  <2> QED
    BY <2>6, <2>7
<1>5. Apart(d)
  <2> SUFFICES ASSUME NEW u \in Real, NEW j \in DOMAIN d[u], Clash(d, u, j, d[u][j]) PROVE FALSE
    BY DEF Apart
  <2>1. PICK i \in DOMAIN d[u] \ {j} : P!Unique(u, d[u][i]) = P!Unique(u, d[u][j]) /\ P!Unique(u, d[u][j]) # {}
    BY DEF Clash
  <2>2. CASE u # t
    <3>1. d[u] = db[u]
      BY <1>1, <2>2 DEF Real
    <3> QED
      BY <2>1, <3>1 DEF Sound, Apart, Clash
  <2>3. CASE u = t /\ j = k
    <3>1. i \in DOMAIN db[t] \ {k} /\ d[u][i] = db[t][i] /\ d[u][j] = row
      BY <1>1, <2>1, <2>3
    <3> QED
      BY <2>1, <2>3, <3>1 DEF Clash
  <2>4. CASE u = t /\ i = k
    <3>1. j \in DOMAIN db[t] \ {k} /\ d[u][j] = db[t][j] /\ d[u][i] = row
      BY <1>1, <2>1, <2>4
    <3> QED
      BY <2>1, <2>4, <3>1 DEF Clash
  <2>5. CASE u = t /\ i # k /\ j # k
    <3>1. i \in DOMAIN db[u] \ {j} /\ j \in DOMAIN db[u] /\ d[u][j] = db[u][j] /\ d[u][i] = db[u][i]
      BY <1>1, <2>1, <2>5
    <3> QED
      BY <2>1, <3>1 DEF Sound, Apart, Clash
  <2> QED
    BY <2>2, <2>3, <2>4, <2>5
<1> QED
  BY <1>2, <1>4, <1>5 DEF Sound, d

\* Fewer rows are as sound, when no row that stays has lost a parent.
LEMMA FewerKeeps ==
    ASSUME NEW db, Sound(db), NEW d,
           d = [u \in DOMAIN d |-> d[u]], DOMAIN d = TableNames,
           \A u \in TableNames : Table(d[u]),
           \A u \in Real : DOMAIN d[u] \subseteq DOMAIN db[u],
           \A u \in Real : \A k \in DOMAIN d[u] : DOMAIN d[u][k] = DOMAIN db[u][k],
           \A u \in Real : \A k \in DOMAIN d[u] : P!Unique(u, d[u][k]) = P!Unique(u, db[u][k]),
           \A u \in Real : \A k \in DOMAIN d[u] : ~Lost(d, u, d[u][k])
    PROVE  Sound(d)
<1>1. Shaped(d)
  BY DEF Sound, Shaped
<1>2. Rooted(d)
  BY DEF Rooted
<1>3. Apart(d)
  <2> SUFFICES ASSUME NEW u \in Real, NEW j \in DOMAIN d[u], Clash(d, u, j, d[u][j]) PROVE FALSE
    BY DEF Apart
  <2>1. PICK i \in DOMAIN d[u] \ {j} : P!Unique(u, d[u][i]) = P!Unique(u, d[u][j]) /\ P!Unique(u, d[u][j]) # {}
    BY DEF Clash
  <2>2. i \in DOMAIN db[u] \ {j} /\ j \in DOMAIN db[u]
    BY <2>1
  <2>3. P!Unique(u, db[u][i]) = P!Unique(u, db[u][j]) /\ P!Unique(u, db[u][j]) # {}
    BY <2>1
  <2> QED
    BY <2>2, <2>3 DEF Sound, Apart, Clash
<1> QED
  BY <1>1, <1>2, <1>3 DEF Sound

\* A row that is deleted with what refers to it leaves nothing that lost its parent: what
\* goes with a project or an app is nobody's parent.
LEMMA CascadeKeeps ==
    ASSUME NEW db, Sound(db), NEW t \in Real \ {"organizations", "users"}, NEW K
    PROVE  Sound(P!Cascade(db, t, K))
<1> DEFINE d == P!Cascade(db, t, K)
<1>1. /\ d = [u \in DOMAIN d |-> d[u]] /\ DOMAIN d = TableNames
      /\ \A u \in TableNames : \A k : k \in DOMAIN d[u] <=> k \in DOMAIN db[u] /\ ~Goes(t, K, u, k, db[u][k])
      /\ \A u \in TableNames : \A k \in DOMAIN d[u] : d[u][k] = db[u][k]
      /\ \A u \in TableNames : Table(d[u])
  BY CascadeIs DEF Sound, Real
<1> HIDE DEF d
<1>2. ASSUME NEW u \in Real, NEW k \in DOMAIN d[u] PROVE ~Lost(d, u, d[u][k])
  <2> SUFFICES ASSUME NEW p \in P!Parents(u, d[u][k]), ~Has(d, p[1], p[2]) PROVE FALSE
    BY DEF Lost
  <2>1. k \in DOMAIN db[u] /\ d[u][k] = db[u][k] /\ ~Goes(t, K, u, k, db[u][k])
    BY <1>1 DEF Real
  <2>2. Has(db, p[1], p[2])
    BY <2>1 DEF Sound, Rooted, Lost
  <2>3. p = <<p[1], p[2]>> /\ p[1] \in Base /\ u \notin {"organizations", "users"}
        /\ (u \in {"projects", "apps"} => p[1] = "organizations")
    BY ParentTables
  <2>4. p[1] \in TableNames
    BY <2>3 DEF Base, TableNames
  <2>5. Goes(t, K, p[1], p[2], db[p[1]][p[2]])
    BY <1>1, <2>2, <2>4 DEF Has
  <2>6. CASE p[1] = t /\ p[2] \in K
    <3>1. t \in {"projects", "apps"} /\ t # "organizations"
      BY <2>3, <2>6 DEF Base
    <3>3. u # t
      BY <2>3, <2>6, <3>1
    <3>2. <<t, p[2]>> \in P!Parents(u, db[u][k])
      BY <2>1, <2>3, <2>6
    <3> QED
      BY <2>1, <2>6, <3>2, <3>3 DEF Goes
  <2>7. CASE p[1] # t /\ \E x \in K : <<t, x>> \in P!Parents(p[1], db[p[1]][p[2]])
    <3>1. PICK x \in K : <<t, x>> \in P!Parents(p[1], db[p[1]][p[2]])
      BY <2>7
    <3>2. p[1] \notin {"organizations", "users"} /\ (p[1] \in {"projects", "apps"} => t = "organizations")
      BY <3>1, ParentTables
    <3> QED
      BY <2>3, <3>2 DEF Base
  <2> QED
    BY <2>5, <2>6, <2>7 DEF Goes
<1>3. \A u \in Real : DOMAIN d[u] \subseteq DOMAIN db[u] /\ \A k \in DOMAIN d[u] : d[u][k] = db[u][k]
  BY <1>1 DEF Real
<1>4. Sound(d)
  BY <1>1, <1>2, <1>3, FewerKeeps
<1> QED
  BY <1>4 DEF d

-----------------------------------------------------------------------------
(* The two stores.                                                         *)

\* The index leads to the user with the email and to nobody else.
Leads == /\ EmailIndex
         /\ \A e \in DOMAIN mem["users_by_email"] : mem["users"][mem["users_by_email"][e]].email = e

\* Tables whose rows have ids that are given out.
Numbered == {"users", "organizations", "projects", "invitations", "apps", "builds", "releases", "domains",
             "databases", "services", "refresh_tokens", "password_reset_tokens", "api_tokens", "usage_records", "audit_events"}

Listed == Base \union {"invitations"}

\* What a row refers to, and what others refer to, was given out; users, organizations,
\* invitations and usage stay.
Given ==
    /\ used \subseteq Numbered \X Ids
    /\ \A t \in Listed : \A k \in DOMAIN mem[t] : <<t, k>> \in used
    /\ \A t \in Real : \A k \in DOMAIN mem[t] : P!Parents(t, mem[t][k]) \subseteq used
    /\ \A e \in used : e[1] \in {"organizations", "users", "invitations", "usage_records"} =>
          Has(pg, e[1], e[2]) /\ Has(mem, e[1], e[2])

\* Columns that repeat the key, and the statuses of an invitation.
Keyed ==
    /\ \A i \in DOMAIN pg["invitations"] :
          /\ pg["invitations"][i].token = i
          /\ "v" \in DOMAIN pg["invitations"][i] /\ pg["invitations"][i].v \in {"pending", "accepted", "revoked"}
    /\ \A i \in DOMAIN pg["invitations"] : mem["invitations"][i].org = pg["invitations"][i].org
    /\ \A k \in DOMAIN pg["app_env"] : pg["app_env"][k].app = k[1]
    /\ \A k \in DOMAIN mem["project_memberships"] :
          mem["project_memberships"][k].project = k[1] /\ mem["project_memberships"][k].user = k[2]

\* A table whose rows outlive no parent is the same in both; of the others, the in-memory
\* store has kept rows that lost theirs.
Exempt(t) == split /\ t \in {"invitations", "project_memberships", "domains"}
Alike(t) ==
    /\ \A k \in DOMAIN pg[t] : k \in DOMAIN mem[t] /\ mem[t][k] = pg[t][k]
    /\ \A k \in DOMAIN mem[t] : ~Lost(pg, t, mem[t][k]) => k \in DOMAIN pg[t]
Same == \A t \in Real :
    /\ DOMAIN pg[t] \subseteq DOMAIN mem[t]
    /\ Exempt(t) \/ (IF t \in Firm THEN pg[t] = mem[t] ELSE Alike(t))

StoresInv ==
    /\ Sound(pg) /\ Shaped(mem) /\ pg["users_by_email"] = Empty
    /\ Leads /\ Given /\ Keyed /\ Same
    /\ split \in BOOLEAN /\ group \in Groups

\* No row that was given out and is gone comes back.
NoReturn == \A e \in used : /\ ~Has(pg, e[1], e[2]) => ~Has(pg', e[1], e[2])
                            /\ ~Has(mem, e[1], e[2]) => ~Has(mem', e[1], e[2])

\* A base table is the same in both.
LEMMA BaseSame ==
    ASSUME StoresInv
    PROVE  /\ \A t \in Base : t \in Real /\ t \in TableNames /\ pg[t] = mem[t]
           /\ \A t, row : Lost(pg, t, row) <=> Lost(mem, t, row)
<1>1. \A t \in Base : t \in Real /\ t \in TableNames /\ t \in Firm /\ ~Exempt(t)
  BY DEF Base, Real, TableNames, Firm, Loose, Exempt
<1>2. \A t \in Base : pg[t] = mem[t]
  BY <1>1 DEF StoresInv, Same
<1>3. \A t, row : Lost(pg, t, row) <=> Lost(mem, t, row)
  BY <1>2, ParentTables DEF Lost, Has
<1> QED
  BY <1>1, <1>2, <1>3

\* Store d is db with a row written, and perhaps another index of users.
Written(db, d, t, k, row) ==
    /\ d = [u \in DOMAIN d |-> d[u]] /\ DOMAIN d = TableNames
    /\ \A u \in Real \ {t} : d[u] = db[u]
    /\ DOMAIN d[t] = DOMAIN db[t] \union {k}
    /\ d[t][k] = row
    /\ \A j \in DOMAIN db[t] \ {k} : d[t][j] = db[t][j]
    /\ Table(d[t]) /\ Table(d["users_by_email"])

\* Both stores write the same row.
LEMMA BothHave ==
    ASSUME StoresInv, NEW t \in Real \ {"project_memberships"}, NEW k, NEW row, NEW other, Exempt(t) \/ other = row,
           pg' = Put(pg, t, k, row), Written(mem, mem', t, k, other), Leads',
           Columns(t) \subseteq DOMAIN row, ~Clash(pg, t, k, row), ~Lost(pg, t, row),
           P!Parents(t, row) \subseteq used,
           Columns(t) \subseteq DOMAIN other, P!Parents(t, other) \subseteq used,
           used \subseteq used', used' \subseteq used \union {<<t, k>>}, used' \subseteq Numbered \X Ids,
           k \in DOMAIN pg[t] \/ <<t, k>> \notin used,
           t \in Listed => <<t, k>> \in used',
           t = "invitations" => row.token = k /\ "v" \in DOMAIN row /\ row.v \in {"pending", "accepted", "revoked"},
           t = "invitations" => other.org = row.org,
           t = "app_env" => row.app = k[1],
           split' = split, group' = group
    PROVE  StoresInv' /\ NoReturn
<1>1. /\ DOMAIN pg' = TableNames
      /\ \A u \in TableNames \ {t} : pg'[u] = pg[u]
      /\ DOMAIN pg'[t] = DOMAIN pg[t] \union {k}
      /\ pg'[t][k] = row
      /\ \A j \in DOMAIN pg[t] \ {k} : pg'[t][j] = pg[t][j]
      /\ Table(pg'[t])
  BY PutIs DEF StoresInv, Sound, Real
<1>2. /\ mem' = [u \in DOMAIN mem' |-> mem'[u]] /\ DOMAIN mem' = TableNames
      /\ \A u \in Real \ {t} : mem'[u] = mem[u]
      /\ DOMAIN mem'[t] = DOMAIN mem[t] \union {k}
      /\ mem'[t][k] = other
      /\ \A j \in DOMAIN mem[t] \ {k} : mem'[t][j] = mem[t][j]
      /\ Table(mem'[t]) /\ Table(mem'["users_by_email"])
  BY DEF Written
<1>3. Sound(pg')
  BY WriteKeeps DEF StoresInv
<1>4. t \in TableNames /\ t # "users_by_email" /\ "users_by_email" \in TableNames /\ "users" \in TableNames
      /\ "invitations" \in TableNames /\ "app_env" \in TableNames
  BY DEF Real, TableNames
<1>5. DOMAIN pg[t] \subseteq DOMAIN mem[t]
  BY DEF StoresInv, Same
<1>6. Shaped(mem')
  <2>1. \A u \in TableNames : Table(mem'[u])
    BY <1>2 DEF StoresInv, Shaped, Real
  <2>2. ASSUME NEW u \in Real, NEW j \in DOMAIN mem'[u] PROVE Columns(u) \subseteq DOMAIN mem'[u][j]
    BY <1>2, <2>2 DEF StoresInv, Shaped, Real
  <2> QED
    BY <1>2, <2>1, <2>2 DEF Shaped
<1>7. (pg["users_by_email"] = Empty)'
  BY <1>1, <1>4 DEF StoresInv
<1>9. Given'
  <2>1. \A u \in TableNames : \A j : Has(pg, u, j) => Has(pg', u, j)
    BY <1>1 DEF Has
  <2>2. \A u \in Real : \A j : Has(mem, u, j) => Has(mem', u, j)
    BY <1>2 DEF Has
  <2>3. Has(pg', t, k) /\ Has(mem', t, k)
    BY <1>1, <1>2 DEF Has
  <2>4. ASSUME NEW e \in used', e[1] \in {"organizations", "users", "invitations", "usage_records"}
        PROVE  Has(pg', e[1], e[2]) /\ Has(mem', e[1], e[2])
    <3>1. CASE e \in used
      <4>1. e[1] \in TableNames /\ e[1] \in Real
        BY <2>4 DEF TableNames, Real
      <4> QED
        BY <2>1, <2>2, <2>4, <3>1, <4>1 DEF StoresInv, Given
    <3>2. CASE e = <<t, k>>
      BY <2>3, <3>2
    <3> QED
      BY <3>1, <3>2
  <2>5. ASSUME NEW u \in Listed, NEW j \in DOMAIN mem'[u] PROVE <<u, j>> \in used'
    <3>1. u \in TableNames /\ u \in Real
      BY BaseSame DEF Listed, Real, TableNames
    <3> QED
      BY <1>2, <2>5, <3>1 DEF StoresInv, Given
  <2>6. ASSUME NEW u \in Real, NEW j \in DOMAIN mem'[u] PROVE P!Parents(u, mem'[u][j]) \subseteq used'
    <3>1. u \in TableNames
      BY DEF Real
    <3>2. CASE u = t /\ j = k
      BY <1>2, <3>2
    <3>3. CASE ~(u = t /\ j = k)
      <4>1. j \in DOMAIN mem[u] /\ mem'[u][j] = mem[u][j]
        BY <1>2, <3>1, <3>3
      <4> QED
        BY <4>1 DEF StoresInv, Given
    <3> QED
      BY <3>2, <3>3
  <2> QED
    BY <2>4, <2>5, <2>6 DEF Given
<1>10. Keyed'
  <2>1. \A i \in DOMAIN pg'["invitations"] :
          /\ pg'["invitations"][i].token = i
          /\ "v" \in DOMAIN pg'["invitations"][i] /\ pg'["invitations"][i].v \in {"pending", "accepted", "revoked"}
    BY <1>1, <1>4 DEF StoresInv, Keyed
  <2>2. \A j \in DOMAIN pg'["app_env"] : pg'["app_env"][j].app = j[1]
    BY <1>1, <1>4 DEF StoresInv, Keyed
  <2>3. mem'["project_memberships"] = mem["project_memberships"]
    BY <1>2 DEF Real, TableNames
  <2>4. \A j \in DOMAIN pg'["invitations"] : mem'["invitations"][j].org = pg'["invitations"][j].org
    <3>1. "invitations" \in Real /\ DOMAIN pg["invitations"] \subseteq DOMAIN mem["invitations"]
      BY DEF StoresInv, Same, Real, TableNames
    <3>2. CASE t # "invitations"
      <4>1. pg'["invitations"] = pg["invitations"] /\ mem'["invitations"] = mem["invitations"]
        BY <1>1, <1>2, <1>4, <3>1, <3>2
      <4> QED
        BY <4>1 DEF StoresInv, Keyed
    <3>3. CASE t = "invitations"
      <4>1. \A j \in DOMAIN pg["invitations"] : mem["invitations"][j].org = pg["invitations"][j].org
        BY DEF StoresInv, Keyed
      <4> QED
        BY <1>1, <1>2, <3>1, <3>3, <4>1
    <3> QED
      BY <3>2, <3>3
  <2> QED
    BY <2>1, <2>2, <2>3, <2>4 DEF StoresInv, Keyed
<1>11. Same'
  <2> SUFFICES ASSUME NEW u \in Real
               PROVE  /\ DOMAIN pg'[u] \subseteq DOMAIN mem'[u]
                      /\ Exempt(u)' \/ (IF u \in Firm THEN pg'[u] = mem'[u] ELSE Alike(u)')
    BY DEF Same
  <2>1. u \in TableNames /\ (Exempt(u)' <=> Exempt(u))
    BY DEF Real, Exempt
  <2>2. /\ DOMAIN pg[u] \subseteq DOMAIN mem[u]
        /\ Exempt(u) \/ (IF u \in Firm THEN pg[u] = mem[u] ELSE Alike(u))
    BY DEF StoresInv, Same
  <2>3. DOMAIN pg'[u] \subseteq DOMAIN mem'[u]
    BY <1>1, <1>2, <2>1, <2>2
  <2>4. CASE Exempt(u)
    BY <2>1, <2>3, <2>4
  <2>5. CASE u \in Firm /\ ~Exempt(u)
    <3>1. pg[u] = mem[u]
      BY <2>2, <2>5
    <3>2. pg'[u] = mem'[u]
      <4>1. CASE u # t
        BY <1>1, <1>2, <2>1, <3>1, <4>1
      <4>2. CASE u = t
        <5>0. other = row
          BY <2>5, <4>2
        <5>2. DOMAIN pg'[u] = DOMAIN mem'[u] /\ pg'[u][k] = mem'[u][k]
          BY <1>1, <1>2, <3>1, <4>2, <5>0
        <5>3. \A j \in DOMAIN pg[u] \ {k} : pg'[u][j] = mem'[u][j]
          BY <1>1, <1>2, <3>1, <4>2
        <5>4. DOMAIN pg'[u] = DOMAIN pg[u] \union {k}
          BY <1>1, <4>2
        <5>1. DOMAIN pg'[u] = DOMAIN mem'[u] /\ \A j \in DOMAIN pg'[u] : pg'[u][j] = mem'[u][j]
          BY <5>2, <5>3, <5>4
        <5> QED
          BY <1>1, <1>2, <4>2, <5>1 DEF Table
      <4> QED
        BY <4>1, <4>2
    <3> QED
      BY <2>3, <2>5, <3>2
  <2>6. CASE u \in Loose /\ ~Exempt(u)
    <3>1. Alike(u)
      BY <2>2, <2>6 DEF Firm
    <3>0. u = t => other = row
      BY <2>6
    <3>2. ASSUME NEW j \in DOMAIN pg'[u] PROVE j \in DOMAIN mem'[u] /\ mem'[u][j] = pg'[u][j]
      BY <1>1, <1>2, <2>1, <3>0, <3>1, <3>2 DEF Alike
    <3>3. ASSUME NEW j \in DOMAIN mem'[u], ~Lost(pg', u, mem'[u][j]) PROVE j \in DOMAIN pg'[u]
      <4>1. CASE u = t /\ j = k
        BY <1>1, <4>1
      <4>2. CASE ~(u = t /\ j = k)
        <5>1. j \in DOMAIN mem[u] /\ mem'[u][j] = mem[u][j]
          BY <1>2, <2>1, <4>2
        <5>2. ASSUME NEW p \in P!Parents(u, mem[u][j]) PROVE Has(pg, p[1], p[2])
          <6>1. Has(pg', p[1], p[2]) /\ p[1] \in Base /\ p = <<p[1], p[2]>> /\ p \in used
            BY <3>3, <5>1, <5>2, ParentTables DEF Lost, StoresInv, Given
          <6>2. p[1] \in TableNames
            BY <6>1, BaseSame
          <6>3. CASE p = <<t, k>>
            BY <6>1, <6>3 DEF Has
          <6>4. CASE p # <<t, k>>
            BY <1>1, <6>1, <6>2, <6>4 DEF Has
          <6> QED
            BY <6>3, <6>4
        <5>3. ~Lost(pg, u, mem[u][j])
          BY <5>2 DEF Lost
        <5>4. j \in DOMAIN pg[u]
          BY <3>1, <5>1, <5>3 DEF Alike
        <5> QED
          BY <1>1, <2>1, <5>4
      <4> QED
        BY <4>1, <4>2
    <3>4. Alike(u)'
      BY <3>2, <3>3 DEF Alike
    <3> QED
      BY <2>3, <2>6, <3>4 DEF Firm
  <2> QED
    BY <2>4, <2>5, <2>6 DEF Firm
<1>12. NoReturn
  <2> SUFFICES ASSUME NEW e \in used
               PROVE  /\ Has(pg', e[1], e[2]) => Has(pg, e[1], e[2])
                      /\ Has(mem', e[1], e[2]) => Has(mem, e[1], e[2])
    BY DEF NoReturn
  <2>1. e = <<e[1], e[2]>> /\ e[1] \in TableNames /\ e[1] \in Real
    BY DEF StoresInv, Given, Numbered, TableNames, Real
  <2>2. CASE e = <<t, k>>
    BY <1>5, <2>2 DEF Has
  <2>3. CASE e # <<t, k>>
    BY <1>1, <1>2, <2>1, <2>3 DEF Has
  <2> QED
    BY <2>2, <2>3
<1>13. split' \in BOOLEAN /\ group' \in Groups
  BY DEF StoresInv
<1> QED
  BY <1>3, <1>6, <1>7, <1>9, <1>10, <1>11, <1>12, <1>13 DEF StoresInv

\* A row written in both stores, with its parents there, keeps the invariant.
LEMMA BothWrite ==
    ASSUME StoresInv, NEW t \in Real \ {"project_memberships"}, NEW k, NEW row, NEW other, Exempt(t) \/ other = row,
           pg' = Put(pg, t, k, row), mem' = Put(mem, t, k, other),
           Columns(t) \subseteq DOMAIN row, ~Clash(pg, t, k, row), ~Lost(pg, t, row),
           P!Parents(t, row) \subseteq used,
           Columns(t) \subseteq DOMAIN other, P!Parents(t, other) \subseteq used,
           used \subseteq used', used' \subseteq used \union {<<t, k>>}, used' \subseteq Numbered \X Ids,
           k \in DOMAIN pg[t] \/ <<t, k>> \notin used,
           t \in Listed => <<t, k>> \in used',
           t = "users" => k \in DOMAIN pg[t] /\ row.email = pg[t][k].email,
           t = "invitations" => row.token = k /\ "v" \in DOMAIN row /\ row.v \in {"pending", "accepted", "revoked"},
           t = "invitations" => other.org = row.org,
           t = "app_env" => row.app = k[1],
           split' = split, group' = group
    PROVE  StoresInv' /\ NoReturn
<1>1. /\ mem' = [u \in DOMAIN mem' |-> mem'[u]] /\ DOMAIN mem' = TableNames
      /\ \A u \in TableNames \ {t} : mem'[u] = mem[u]
      /\ DOMAIN mem'[t] = DOMAIN mem[t] \union {k}
      /\ mem'[t][k] = other
      /\ \A j \in DOMAIN mem[t] \ {k} : mem'[t][j] = mem[t][j]
      /\ Table(mem'[t])
  BY PutIs DEF StoresInv, Real
<1>2. t \in TableNames /\ t # "users_by_email" /\ "users_by_email" \in TableNames /\ "users" \in TableNames
  BY DEF Real, TableNames
<1>3. mem'["users_by_email"] = mem["users_by_email"]
  BY <1>1, <1>2
<1>4. Written(mem, mem', t, k, other)
  BY <1>1, <1>2, <1>3 DEF Written, StoresInv, Shaped, Real
<1>5. Leads'
  <2>2. CASE t # "users"
    <3>1. mem'["users"] = mem["users"]
      BY <1>1, <1>2, <2>2
    <3> QED
      BY <1>3, <3>1 DEF StoresInv, Leads, EmailIndex, Has
  <2>3. CASE t = "users"
    <3>1. pg["users"] = mem["users"]
      BY BaseSame DEF Base
    <3>4. ~Exempt("users")
      BY DEF Exempt
    <3>2. k \in DOMAIN mem["users"] /\ other.email = mem["users"][k].email
      BY <2>3, <3>1, <3>4
    <3>3. DOMAIN mem'["users"] = DOMAIN mem["users"]
          /\ \A u \in DOMAIN mem["users"] : mem'["users"][u].email = mem["users"][u].email
      BY <1>1, <2>3, <3>2
    <3> QED
      BY <1>3, <3>3 DEF StoresInv, Leads, EmailIndex, Has
  <2> QED
    BY <2>2, <2>3
<1> QED
  BY <1>4, <1>5, BothHave

\* The in-memory store alone writes a row, whose parent is gone.
LEMMA OrphanWrite ==
    ASSUME StoresInv, NEW t \in Loose \ {"project_memberships"}, NEW k, NEW row,
           pg' = pg, mem' = Put(mem, t, k, row),
           Columns(t) \subseteq DOMAIN row, Lost(pg, t, row) \/ Exempt(t), P!Parents(t, row) \subseteq used,
           used \subseteq used', used' \subseteq used \union {<<t, k>>}, used' \subseteq Numbered \X Ids,
           k \notin DOMAIN pg[t], <<t, k>> \notin used \/ k \in DOMAIN mem[t],
           split' = split, group' = group
    PROVE  StoresInv' /\ NoReturn /\ (Lost(pg, t, row) => Orphans')
<1>1. /\ mem' = [u \in DOMAIN mem' |-> mem'[u]] /\ DOMAIN mem' = TableNames
      /\ \A u \in TableNames \ {t} : mem'[u] = mem[u]
      /\ DOMAIN mem'[t] = DOMAIN mem[t] \union {k}
      /\ mem'[t][k] = row
      /\ \A j \in DOMAIN mem[t] \ {k} : mem'[t][j] = mem[t][j]
      /\ Table(mem'[t])
  BY PutIs DEF StoresInv, Loose, TableNames
<1>2. /\ t \in TableNames /\ t \in Real /\ t \notin Firm /\ t \notin Base
      /\ "users_by_email" \in TableNames /\ "users" \in TableNames
      /\ t \notin {"users_by_email", "users", "organizations", "invitations", "usage_records"}
  BY DEF Loose, Firm, Real, TableNames, Base
<1>3. Shaped(mem')
  <2>1. \A u \in TableNames : Table(mem'[u])
    BY <1>1 DEF StoresInv, Shaped
  <2>2. ASSUME NEW u \in Real, NEW j \in DOMAIN mem'[u] PROVE Columns(u) \subseteq DOMAIN mem'[u][j]
    BY <1>1, <2>2 DEF StoresInv, Shaped, Real
  <2> QED
    BY <1>1, <2>1, <2>2 DEF Shaped
<1>4. Leads'
  <2>1. mem'["users_by_email"] = mem["users_by_email"] /\ mem'["users"] = mem["users"]
    BY <1>1, <1>2
  <2> QED
    BY <2>1 DEF StoresInv, Leads, EmailIndex, Has
<1>5. Given'
  <2>1. \A u \in TableNames : \A j : Has(mem, u, j) => Has(mem', u, j)
    BY <1>1 DEF Has
  <2>2. ASSUME NEW e \in used', e[1] \in {"organizations", "users", "invitations", "usage_records"}
        PROVE  Has(pg', e[1], e[2]) /\ Has(mem', e[1], e[2])
    <3>1. e[1] \in TableNames
      BY <2>2 DEF TableNames
    <3>2. e \in used
      BY <1>2, <2>2
    <3> QED
      BY <2>1, <2>2, <3>1, <3>2 DEF StoresInv, Given
  <2>3. ASSUME NEW u \in Listed, NEW j \in DOMAIN mem'[u] PROVE <<u, j>> \in used'
    <3>1. u \in TableNames /\ u # t
      BY <1>2, BaseSame DEF Listed, TableNames
    <3> QED
      BY <1>1, <2>3, <3>1 DEF StoresInv, Given
  <2>4. ASSUME NEW u \in Real, NEW j \in DOMAIN mem'[u] PROVE P!Parents(u, mem'[u][j]) \subseteq used'
    <3>1. u \in TableNames
      BY DEF Real
    <3>2. CASE u = t /\ j = k
      BY <1>1, <3>2
    <3>3. CASE ~(u = t /\ j = k)
      <4>1. j \in DOMAIN mem[u] /\ mem'[u][j] = mem[u][j]
        BY <1>1, <3>1, <3>3
      <4> QED
        BY <4>1 DEF StoresInv, Given
    <3> QED
      BY <3>2, <3>3
  <2> QED
    BY <2>2, <2>3, <2>4 DEF Given
<1>6. Same'
  <2> SUFFICES ASSUME NEW u \in Real
               PROVE  /\ DOMAIN pg'[u] \subseteq DOMAIN mem'[u]
                      /\ Exempt(u)' \/ (IF u \in Firm THEN pg'[u] = mem'[u] ELSE Alike(u)')
    BY DEF Same
  <2>1. u \in TableNames /\ (Exempt(u)' <=> Exempt(u))
    BY DEF Real, Exempt
  <2>2. /\ DOMAIN pg[u] \subseteq DOMAIN mem[u]
        /\ Exempt(u) \/ (IF u \in Firm THEN pg[u] = mem[u] ELSE Alike(u))
    BY DEF StoresInv, Same
  <2>3. CASE u # t
    <3>1. mem'[u] = mem[u]
      BY <1>1, <2>1, <2>3
    <3> QED
      BY <2>1, <2>2, <3>1 DEF Alike
  <2>4. CASE u = t
    <3>1. DOMAIN pg'[u] \subseteq DOMAIN mem'[u]
      BY <1>1, <2>2, <2>4
    <3>2. ~Exempt(u) => Alike(u)'
      BY <1>1, <1>2, <2>2, <2>4 DEF Alike
    <3> QED
      BY <1>2, <2>1, <2>4, <3>1, <3>2
  <2> QED
    BY <2>3, <2>4
<1>7. NoReturn
  <2> SUFFICES ASSUME NEW e \in used, Has(mem', e[1], e[2]) PROVE Has(mem, e[1], e[2])
    BY DEF NoReturn
  <2>1. e = <<e[1], e[2]>> /\ e[1] \in TableNames
    BY DEF StoresInv, Given, Numbered, TableNames
  <2> QED
    BY <1>1, <2>1 DEF Has
<1>8. ASSUME Lost(pg, t, row) PROVE Orphans'
  <2>1. Lost(pg', t, mem'[t][k])
    BY <1>1, <1>8
  <2>2. Lost(mem', t, mem'[t][k])
    <3>1. \A u \in Base : mem'[u] = mem[u]
      BY <1>1, <1>2, BaseSame
    <3>2. \A u \in Base : pg'[u] = mem'[u]
      BY <3>1, BaseSame
    <3> QED
      BY <2>1, <3>2, ParentTables DEF Lost, Has
  <2>3. PICK p \in P!Parents(t, mem'[t][k]) : ~Has(mem', p[1], p[2])
    BY <2>2 DEF Lost
  <2>4. k \notin DOMAIN Live(mem')[t] /\ k \in DOMAIN mem'[t]
    <3>1. Live(mem')[t] = Only(mem'[t],
              {j \in DOMAIN mem'[t] : \A q \in P!Parents(t, mem'[t][j]) : Has(mem', q[1], q[2])})
      BY <1>2 DEF Live
    <3> QED
      BY <1>1, <2>3, <3>1 DEF Only
  <2> QED
    BY <1>2, <2>4 DEF Orphans
<1>9. Sound(pg') /\ (pg["users_by_email"] = Empty)' /\ split' \in BOOLEAN /\ group' \in Groups
  BY DEF StoresInv
<1>10. Keyed'
  <2>1. mem'["project_memberships"] = mem["project_memberships"] /\ mem'["invitations"] = mem["invitations"]
    BY <1>1, <1>2 DEF TableNames
  <2> QED
    BY <2>1 DEF StoresInv, Keyed
<1> QED
  BY <1>3, <1>4, <1>5, <1>6, <1>7, <1>8, <1>9, <1>10 DEF StoresInv

\* Store d is db without the rows of K and what goes with them.
Pruned(db, d, t, K) ==
    /\ d = [u \in DOMAIN d |-> d[u]] /\ DOMAIN d = TableNames
    /\ d["users_by_email"] = db["users_by_email"]
    /\ \A u \in Real : \A k : k \in DOMAIN d[u] <=> k \in DOMAIN db[u] /\ ~Goes(t, K, u, k, db[u][k])
    /\ \A u \in Real : \A k \in DOMAIN d[u] : d[u][k] = db[u][k]
    /\ \A u \in Real : Table(d[u])

\* The rows of K go in both, with what refers to them in PostgreSQL only.
LEMMA BothPrune ==
    ASSUME StoresInv, NEW t \in Real \ {"organizations", "users", "invitations", "usage_records"}, NEW K,
           Pruned(pg, pg', t, K), Sound(pg'), mem' = Without(mem, t, K),
           UNCHANGED <<used, split, group>>
    PROVE  StoresInv' /\ NoReturn
<1>1. /\ mem' = [u \in DOMAIN mem' |-> mem'[u]] /\ DOMAIN mem' = TableNames
      /\ \A u \in TableNames \ {t} : mem'[u] = mem[u]
      /\ DOMAIN mem'[t] = DOMAIN mem[t] \ K
      /\ \A j \in DOMAIN mem[t] \ K : mem'[t][j] = mem[t][j]
      /\ Table(mem'[t])
  BY WithoutIs DEF StoresInv, Real
<1>2. /\ t \in TableNames /\ "users_by_email" \in TableNames /\ "users" \in TableNames
      /\ t \notin {"users_by_email", "users", "organizations", "invitations", "usage_records"}
      /\ {"users", "organizations", "invitations", "usage_records", "app_env"} \subseteq Real
  BY DEF Real, TableNames
<1>3. Shaped(mem')
  <2>1. \A u \in TableNames : Table(mem'[u])
    BY <1>1 DEF StoresInv, Shaped
  <2>2. ASSUME NEW u \in Real, NEW j \in DOMAIN mem'[u] PROVE Columns(u) \subseteq DOMAIN mem'[u][j]
    BY <1>1, <2>2 DEF StoresInv, Shaped, Real
  <2> QED
    BY <1>1, <2>1, <2>2 DEF Shaped
<1>4. Leads'
  <2>1. mem'["users_by_email"] = mem["users_by_email"] /\ mem'["users"] = mem["users"]
    BY <1>1, <1>2
  <2> QED
    BY <2>1 DEF StoresInv, Leads, EmailIndex, Has
<1>5. \A u \in Real : \A j \in DOMAIN mem'[u] : j \in DOMAIN mem[u] /\ mem'[u][j] = mem[u][j]
  BY <1>1 DEF Real
<1>6. \A u \in Real : \A j \in DOMAIN pg'[u] : j \in DOMAIN pg[u] /\ pg'[u][j] = pg[u][j]
  BY DEF Pruned
<1>7. ASSUME NEW u \in Real, u # t, u \notin Loose PROVE pg'[u] = pg[u]
  <2>1. \A j : ~Goes(t, K, u, j, pg[u][j])
    <3> SUFFICES ASSUME NEW j, Goes(t, K, u, j, pg[u][j]) PROVE FALSE
      OBVIOUS
    <3>1. PICK x \in K : <<t, x>> \in P!Parents(u, pg[u][j])
      BY <1>7 DEF Goes
    <3>2. <<t, x>>[1] \in {"organizations", "users"}
      BY <1>7, <3>1, ParentTables
    <3> QED
      BY <1>2, <3>2
  <2>2. DOMAIN pg'[u] = DOMAIN pg[u] /\ \A j \in DOMAIN pg[u] : pg'[u][j] = pg[u][j]
    BY <2>1 DEF Pruned
  <2> QED
    BY <2>2 DEF Pruned, Table, StoresInv, Sound, Shaped, Real
<1>8. Given'
  <2>1. ASSUME NEW e \in used', e[1] \in {"organizations", "users", "invitations", "usage_records"}
        PROVE  Has(pg', e[1], e[2]) /\ Has(mem', e[1], e[2])
    <3>1. e[1] \in Real /\ e[1] # t /\ e[1] \notin Loose
      BY <1>2, <2>1 DEF Loose
    <3>2. pg'[e[1]] = pg[e[1]] /\ mem'[e[1]] = mem[e[1]]
      BY <1>1, <1>7, <3>1 DEF Real
    <3> QED
      BY <2>1, <3>2 DEF StoresInv, Given, Has
  <2>2. \A u \in Listed : \A j \in DOMAIN mem'[u] : <<u, j>> \in used'
    BY <1>2, <1>5, BaseSame DEF StoresInv, Given, Listed
  <2>3. \A u \in Real : \A j \in DOMAIN mem'[u] : P!Parents(u, mem'[u][j]) \subseteq used'
    BY <1>5 DEF StoresInv, Given
  <2>4. used' \subseteq Numbered \X Ids
    BY DEF StoresInv, Given
  <2> QED
    BY <2>1, <2>2, <2>3, <2>4 DEF Given
<1>9. Keyed'
  <2>1. "project_memberships" \in Real /\ "invitations" \in Real /\ "app_env" \in Real
    BY DEF Real, TableNames
  <2>2. mem'["invitations"] = mem["invitations"]
    BY <1>1, <1>2 DEF Real
  <2> QED
    BY <1>5, <1>6, <2>1, <2>2 DEF StoresInv, Keyed
<1>10. Same'
  <2> SUFFICES ASSUME NEW u \in Real
               PROVE  /\ DOMAIN pg'[u] \subseteq DOMAIN mem'[u]
                      /\ Exempt(u)' \/ (IF u \in Firm THEN pg'[u] = mem'[u] ELSE Alike(u)')
    BY DEF Same
  <2>1. u \in TableNames /\ (Exempt(u)' <=> Exempt(u))
    BY DEF Real, Exempt
  <2>2. /\ DOMAIN pg[u] \subseteq DOMAIN mem[u]
        /\ Exempt(u) \/ (IF u \in Firm THEN pg[u] = mem[u] ELSE Alike(u))
    BY DEF StoresInv, Same
  <2>3. DOMAIN pg'[u] \subseteq DOMAIN mem'[u]
    <3>1. CASE u # t
      BY <1>1, <1>6, <2>1, <2>2, <3>1
    <3>2. CASE u = t
      BY <1>1, <2>2, <3>2 DEF Pruned, Goes
    <3> QED
      BY <3>1, <3>2
  <2>4. CASE u \in Firm /\ ~Exempt(u)
    <3>1. pg[u] = mem[u]
      BY <2>2, <2>4
    <3>2. CASE u # t
      BY <1>1, <1>7, <2>1, <2>4, <3>1, <3>2 DEF Firm
    <3>3. CASE u = t
      <4>1. DOMAIN pg'[u] = DOMAIN mem'[u]
        BY <1>1, <3>1, <3>3 DEF Pruned, Goes
      <4>2. \A j \in DOMAIN pg'[u] : pg'[u][j] = mem'[u][j]
        BY <1>5, <1>6, <2>3, <3>1
      <4>3. Table(pg'[u]) /\ Table(mem'[u])
        BY <1>1, <3>3 DEF Pruned
      <4>4. pg'[u] = mem'[u]
        BY <4>1, <4>2, <4>3, SameTable
      <4> QED
        BY <2>3, <2>4, <4>4
    <3> QED
      BY <2>3, <2>4, <3>2, <3>3
  <2>5. CASE u \in Loose /\ ~Exempt(u)
    <3>1. Alike(u)
      BY <2>2, <2>5 DEF Firm
    <3>2. \A j \in DOMAIN pg'[u] : j \in DOMAIN mem'[u] /\ mem'[u][j] = pg'[u][j]
      BY <1>5, <1>6, <2>3, <3>1 DEF Alike
    <3>3. ASSUME NEW j \in DOMAIN mem'[u], ~Lost(pg', u, mem'[u][j]) PROVE j \in DOMAIN pg'[u]
      <4>1. j \in DOMAIN mem[u] /\ mem'[u][j] = mem[u][j]
        BY <1>5
      <4>2. \A p \in P!Parents(u, mem[u][j]) : Has(pg', p[1], p[2]) /\ p = <<p[1], p[2]>> /\ p[1] \in Real
        BY <3>3, <4>1, ParentTables, BaseSame DEF Lost
      <4>3. ~Lost(pg, u, mem[u][j])
        BY <1>6, <4>2 DEF Lost, Has
      <4>4. j \in DOMAIN pg[u] /\ pg[u][j] = mem[u][j]
        BY <3>1, <4>1, <4>3 DEF Alike
      <4>5. ASSUME Goes(t, K, u, j, pg[u][j]) PROVE FALSE
        <5>1. CASE u = t /\ j \in K
          BY <1>1, <3>3, <5>1
        <5>2. CASE u # t /\ \E x \in K : <<t, x>> \in P!Parents(u, pg[u][j])
          <6>1. PICK x \in K : <<t, x>> \in P!Parents(u, pg[u][j])
            BY <5>2
          <6>2. Has(pg', t, x)
            BY <4>2, <4>4, <6>1
          <6> QED
            BY <6>1, <6>2 DEF Pruned, Goes, Has
        <5> QED
          BY <4>5, <5>1, <5>2 DEF Goes
      <4> QED
        BY <4>4, <4>5 DEF Pruned
    <3>4. Alike(u)'
      BY <3>2, <3>3 DEF Alike
    <3> QED
      BY <2>3, <2>5, <3>4 DEF Firm
  <2> QED
    BY <2>1, <2>3, <2>4, <2>5 DEF Firm
<1>11. NoReturn
  <2> SUFFICES ASSUME NEW e \in used
               PROVE  /\ Has(pg', e[1], e[2]) => Has(pg, e[1], e[2])
                      /\ Has(mem', e[1], e[2]) => Has(mem, e[1], e[2])
    BY DEF NoReturn
  <2>1. e[1] \in Real
    BY DEF StoresInv, Given, Numbered, TableNames, Real
  <2> QED
    BY <1>5, <1>6, <2>1 DEF Has
<1>12. (pg["users_by_email"] = Empty)' /\ split' \in BOOLEAN /\ group' \in Groups
  BY DEF StoresInv, Pruned
<1> QED
  BY <1>3, <1>4, <1>8, <1>9, <1>10, <1>11, <1>12 DEF StoresInv

\* Rows of a token table have other columns written, in both stores.
LEMMA RewriteIs ==
    ASSUME NEW db, Shaped(db), NEW t \in Real, NEW x, NEW cols, DOMAIN cols \intersect Columns(t) = {}
    PROVE  LET d == Rewrite(db, t, "user", x, cols) IN
           /\ d = [u \in DOMAIN d |-> d[u]] /\ DOMAIN d = TableNames
           /\ \A u \in TableNames \ {t} : d[u] = db[u]
           /\ DOMAIN d[t] = DOMAIN db[t]
           /\ \A j \in DOMAIN db[t] : /\ DOMAIN d[t][j] = DOMAIN db[t][j]
                                    /\ P!Parents(t, d[t][j]) = P!Parents(t, db[t][j])
                                    /\ P!Unique(t, d[t][j]) = P!Unique(t, db[t][j])
           /\ d[t] = [j \in DOMAIN db[t] |-> IF db[t][j]["user"] = x THEN With(db[t][j], cols) ELSE db[t][j]]
           /\ Table(d[t])
<1> DEFINE d == Rewrite(db, t, "user", x, cols)
<1>1. /\ d = [u \in DOMAIN d |-> d[u]] /\ DOMAIN d = TableNames
      /\ \A u \in TableNames \ {t} : d[u] = db[u]
      /\ d[t] = [j \in DOMAIN db[t] |-> IF db[t][j]["user"] = x THEN With(db[t][j], cols) ELSE db[t][j]]
  BY DEF Rewrite, Shaped, Real
<1> HIDE DEF d
<1>2. DOMAIN d[t] = DOMAIN db[t] /\ \A j \in DOMAIN db[t] : d[t][j] = db[t][j] \/ d[t][j] = With(db[t][j], cols)
  BY <1>1
<1>3. ASSUME NEW j \in DOMAIN db[t]
      PROVE  /\ DOMAIN d[t][j] = DOMAIN db[t][j]
             /\ P!Parents(t, d[t][j]) = P!Parents(t, db[t][j])
             /\ P!Unique(t, d[t][j]) = P!Unique(t, db[t][j])
  <2>1. Columns(t) \subseteq DOMAIN db[t][j]
    BY DEF Shaped
  <2>2. CASE d[t][j] = db[t][j]
    BY <2>2
  <2>3. CASE d[t][j] = With(db[t][j], cols)
    BY <2>1, <2>3, SameKeys
  <2> QED
    BY <1>2, <2>2, <2>3
<1>4. IsFiniteSet(DOMAIN db[t])
  BY DEF Shaped, Table, Real
<1>5. Table(d[t])
  BY <1>1, <1>2, <1>4 DEF Table
<1>6. LET e == d IN
      /\ e = [u \in DOMAIN e |-> e[u]] /\ DOMAIN e = TableNames
      /\ \A u \in TableNames \ {t} : e[u] = db[u]
      /\ DOMAIN e[t] = DOMAIN db[t]
      /\ \A j \in DOMAIN db[t] : /\ DOMAIN e[t][j] = DOMAIN db[t][j]
                               /\ P!Parents(t, e[t][j]) = P!Parents(t, db[t][j])
                               /\ P!Unique(t, e[t][j]) = P!Unique(t, db[t][j])
      /\ e[t] = [j \in DOMAIN db[t] |-> IF db[t][j]["user"] = x THEN With(db[t][j], cols) ELSE db[t][j]]
      /\ Table(e[t])
  BY <1>1, <1>2, <1>3, <1>5
<1> QED
  BY <1>6 DEF d

\* ... and so does one that is written over and keeps what others look at.
LEMMA BothRewrite ==
    ASSUME StoresInv, NEW t \in {"refresh_tokens", "password_reset_tokens"}, NEW x, NEW cols,
           DOMAIN cols \intersect Columns(t) = {},
           pg' = Rewrite(pg, t, "user", x, cols), mem' = Rewrite(mem, t, "user", x, cols),
           UNCHANGED <<used, split, group>>
    PROVE  StoresInv' /\ NoReturn
<1>1. /\ t \in Real /\ t \in Firm /\ t \in TableNames /\ t \notin Base /\ ~Exempt(t)
      /\ {"users_by_email", "users", "app_env", "invitations", "project_memberships"} \subseteq TableNames \ {t}
  BY DEF Real, Firm, Loose, TableNames, Base, Exempt
<1>2. pg[t] = mem[t]
  BY <1>1 DEF StoresInv, Same
<1>3. /\ pg' = [u \in DOMAIN pg' |-> pg'[u]] /\ DOMAIN pg' = TableNames
      /\ \A u \in TableNames \ {t} : pg'[u] = pg[u]
      /\ DOMAIN pg'[t] = DOMAIN pg[t]
      /\ \A j \in DOMAIN pg[t] : /\ DOMAIN pg'[t][j] = DOMAIN pg[t][j]
                               /\ P!Parents(t, pg'[t][j]) = P!Parents(t, pg[t][j])
                               /\ P!Unique(t, pg'[t][j]) = P!Unique(t, pg[t][j])
      /\ pg'[t] = [j \in DOMAIN pg[t] |-> IF pg[t][j]["user"] = x THEN With(pg[t][j], cols) ELSE pg[t][j]]
      /\ Table(pg'[t])
  BY <1>1, RewriteIs DEF StoresInv, Sound
<1>4. /\ mem' = [u \in DOMAIN mem' |-> mem'[u]] /\ DOMAIN mem' = TableNames
      /\ \A u \in TableNames \ {t} : mem'[u] = mem[u]
      /\ DOMAIN mem'[t] = DOMAIN mem[t]
      /\ \A j \in DOMAIN mem[t] : /\ DOMAIN mem'[t][j] = DOMAIN mem[t][j]
                                /\ P!Parents(t, mem'[t][j]) = P!Parents(t, mem[t][j])
                                /\ P!Unique(t, mem'[t][j]) = P!Unique(t, mem[t][j])
      /\ mem'[t] = [j \in DOMAIN mem[t] |-> IF mem[t][j]["user"] = x THEN With(mem[t][j], cols) ELSE mem[t][j]]
      /\ Table(mem'[t])
  BY <1>1, RewriteIs DEF StoresInv
<1>5. pg'[t] = mem'[t]
  BY <1>2, <1>3, <1>4
<1>6. \A u \in TableNames : DOMAIN pg'[u] = DOMAIN pg[u] /\ DOMAIN mem'[u] = DOMAIN mem[u]
  BY <1>3, <1>4
<1>7. \A u \in TableNames : \A j : (Has(pg', u, j) <=> Has(pg, u, j)) /\ (Has(mem', u, j) <=> Has(mem, u, j))
  BY <1>6 DEF Has
<1>8. \A u \in Real : \A j \in DOMAIN mem'[u] : P!Parents(u, mem'[u][j]) = P!Parents(u, mem[u][j])
  BY <1>4 DEF Real
<1>9. \A u, row : Lost(pg', u, row) <=> Lost(pg, u, row)
  <2>1. \A p : p[1] \in Base => p[1] \in TableNames
    BY BaseSame
  <2> QED
    BY <1>7, <2>1, ParentTables DEF Lost
<1>10. Sound(pg')
  <2>1. \A u \in TableNames : Table(pg'[u])
    BY <1>3 DEF StoresInv, Sound, Shaped
  <2>2. \A u \in Real : \A k \in DOMAIN pg'[u] :
            DOMAIN pg'[u][k] = DOMAIN pg[u][k] /\ P!Unique(u, pg'[u][k]) = P!Unique(u, pg[u][k])
    BY <1>3 DEF Real
  <2>3. ASSUME NEW u \in Real, NEW k \in DOMAIN pg'[u] PROVE ~Lost(pg', u, pg'[u][k])
    <3>1. k \in DOMAIN pg[u] /\ P!Parents(u, pg'[u][k]) = P!Parents(u, pg[u][k])
      BY <1>3, <2>3 DEF Real
    <3>2. ~Lost(pg, u, pg[u][k])
      BY <3>1 DEF StoresInv, Sound, Rooted
    <3>3. ~Lost(pg, u, pg'[u][k])
      BY <3>1, <3>2 DEF Lost
    <3> QED
      BY <1>9, <3>3
  <2>4. \A u \in Real : DOMAIN pg'[u] \subseteq DOMAIN pg[u]
    BY <1>6 DEF Real
  <2>5. Sound(pg)
    BY DEF StoresInv
  <2> QED
    BY <1>3, <2>1, <2>2, <2>3, <2>4, <2>5, FewerKeeps
<1>11. Shaped(mem')
  <2>1. \A u \in TableNames : Table(mem'[u])
    BY <1>4 DEF StoresInv, Shaped
  <2>2. ASSUME NEW u \in Real, NEW j \in DOMAIN mem'[u] PROVE Columns(u) \subseteq DOMAIN mem'[u][j]
    BY <1>4, <2>2 DEF StoresInv, Shaped, Real
  <2> QED
    BY <1>4, <2>1, <2>2 DEF Shaped
<1>12. Leads'
  <2>1. mem'["users_by_email"] = mem["users_by_email"] /\ mem'["users"] = mem["users"]
    BY <1>1, <1>4
  <2> QED
    BY <2>1 DEF StoresInv, Leads, EmailIndex, Has
<1>13. Given'
  <2>1. ASSUME NEW e \in used', e[1] \in {"organizations", "users", "invitations", "usage_records"}
        PROVE  Has(pg', e[1], e[2]) /\ Has(mem', e[1], e[2])
    <3>1. e[1] \in TableNames
      BY <2>1 DEF TableNames
    <3> QED
      BY <1>7, <2>1, <3>1 DEF StoresInv, Given
  <2>2. \A u \in Listed : \A j \in DOMAIN mem'[u] : <<u, j>> \in used'
    BY <1>1, <1>6, BaseSame DEF StoresInv, Given, Listed
  <2>3. \A u \in Real : \A j \in DOMAIN mem'[u] : P!Parents(u, mem'[u][j]) \subseteq used'
    BY <1>6, <1>8 DEF StoresInv, Given, Real
  <2>4. used' \subseteq Numbered \X Ids
    BY DEF StoresInv, Given
  <2> QED
    BY <2>1, <2>2, <2>3, <2>4 DEF Given
<1>14. Keyed'
  <2>1. /\ pg'["invitations"] = pg["invitations"] /\ pg'["app_env"] = pg["app_env"]
        /\ mem'["project_memberships"] = mem["project_memberships"] /\ mem'["invitations"] = mem["invitations"]
    BY <1>1, <1>3, <1>4
  <2> QED
    BY <2>1 DEF StoresInv, Keyed
<1>15. Same'
  <2> SUFFICES ASSUME NEW u \in Real
               PROVE  /\ DOMAIN pg'[u] \subseteq DOMAIN mem'[u]
                      /\ Exempt(u)' \/ (IF u \in Firm THEN pg'[u] = mem'[u] ELSE Alike(u)')
    BY DEF Same
  <2>1. u \in TableNames /\ (Exempt(u)' <=> Exempt(u))
    BY DEF Real, Exempt
  <2>2. /\ DOMAIN pg[u] \subseteq DOMAIN mem[u]
        /\ Exempt(u) \/ (IF u \in Firm THEN pg[u] = mem[u] ELSE Alike(u))
    BY DEF StoresInv, Same
  <2>3. CASE u = t
    BY <1>1, <1>5, <2>3
  <2>4. CASE u # t
    <3>1. pg'[u] = pg[u] /\ mem'[u] = mem[u]
      BY <1>3, <1>4, <2>1, <2>4
    <3>2. Alike(u) => Alike(u)'
      BY <1>9, <3>1 DEF Alike
    <3> QED
      BY <2>1, <2>2, <3>1, <3>2
  <2> QED
    BY <2>3, <2>4
<1>16. NoReturn
  <2>1. \A e \in used : e[1] \in TableNames
    BY DEF StoresInv, Given, Numbered, TableNames
  <2> QED
    BY <1>7, <2>1 DEF NoReturn
<1>17. (pg["users_by_email"] = Empty)' /\ split' \in BOOLEAN /\ group' \in Groups
  BY <1>1, <1>3 DEF StoresInv
<1> QED
  BY <1>10, <1>11, <1>12, <1>13, <1>14, <1>15, <1>16, <1>17 DEF StoresInv

\* A call that fails in both, or finds nothing to do.
LEMMA Stays ==
    ASSUME StoresInv, pg' = pg, mem' = mem, UNCHANGED <<used, split, group>>
    PROVE  StoresInv' /\ NoReturn
<1>1. Sound(pg') /\ Shaped(mem') /\ Leads' /\ Given' /\ Keyed' /\ (pg["users_by_email"] = Empty)'
      /\ split' \in BOOLEAN /\ group' \in Groups
  BY DEF StoresInv, Leads, EmailIndex, Given, Keyed
<1>2. Same'
  BY DEF StoresInv, Same, Alike, Exempt
<1>3. NoReturn
  BY DEF NoReturn
<1> QED
  BY <1>1, <1>2, <1>3 DEF StoresInv

-----------------------------------------------------------------------------
(* Statements made on both stores.                                         *)

\* An update of columns that nothing is looked up by.
LEMMA Updates ==
    ASSUME StoresInv, NEW t \in Real \ {"project_memberships"}, NEW k, NEW cols,
        DOMAIN cols \intersect Columns(t) = {},
           t = "invitations" => DOMAIN cols = {"v"} /\ cols.v \in {"pending", "accepted", "revoked"},
           pg' = P!Update(pg, t, k, cols)[1], mem' = M!Update(mem, t, k, cols)[1],
           UNCHANGED <<used, split, group>>
    PROVE  /\ StoresInv' /\ NoReturn
           /\ P!Update(pg, t, k, cols)[2] = IF Has(pg, t, k) THEN OK ELSE NotFound
           /\ M!Update(mem, t, k, cols)[2] = IF Has(mem, t, k) THEN OK ELSE NotFound
           /\ Has(pg, t, k) => Has(mem, t, k)
           /\ Has(mem, t, k) /\ ~Has(pg, t, k) /\ ~split => Orphans'
<1>1. /\ DOMAIN pg[t] \subseteq DOMAIN mem[t]
      /\ Exempt(t) \/ (IF t \in Firm THEN pg[t] = mem[t] ELSE Alike(t))
  BY DEF StoresInv, Same
<1>2. used \subseteq Numbered \X Ids /\ \A u \in Listed : \A j \in DOMAIN mem[u] : <<u, j>> \in used
  BY DEF StoresInv, Given
<1>3. ASSUME NEW db, Shaped(db), k \in DOMAIN db[t]
      PROVE  /\ Columns(t) \subseteq DOMAIN With(db[t][k], cols)
             /\ P!Parents(t, With(db[t][k], cols)) = P!Parents(t, db[t][k])
             /\ P!Unique(t, With(db[t][k], cols)) = P!Unique(t, db[t][k])
             /\ \A c \in Columns(t) : With(db[t][k], cols)[c] = db[t][k][c]
  <2> DEFINE row == db[t][k]
  <2>1. Columns(t) \subseteq DOMAIN row
    BY <1>3 DEF Shaped
  <2> HIDE DEF row
  <2>2. /\ DOMAIN With(row, cols) = DOMAIN row
        /\ P!Parents(t, With(row, cols)) = P!Parents(t, row)
        /\ P!Unique(t, With(row, cols)) = P!Unique(t, row)
        /\ \A c \in Columns(t) : With(row, cols)[c] = row[c]
    <3>1. DOMAIN cols \intersect Columns(t) = {}
      OBVIOUS
    <3> QED
      BY ONLY <2>1, <3>1, SameKeys, Zenon
  <2>3. Columns(t) \subseteq DOMAIN With(row, cols)
    <3> DEFINE w == With(row, cols)
    <3>1. DOMAIN w = DOMAIN row
      BY <2>2
    <3> HIDE DEF w
    <3>2. Columns(t) \subseteq DOMAIN w
      BY <2>1, <3>1
    <3> QED
      BY <3>2 DEF w
  <2> QED
    BY <2>2, <2>3 DEF row
<1>4. M!Update(mem, t, k, cols) = IF Has(mem, t, k) THEN <<Put(mem, t, k, With(mem[t][k], cols)), OK>>
          ELSE <<mem, NotFound>>
  BY MStatements
<1>5. CASE Has(pg, t, k)
  <2> DEFINE row == With(pg[t][k], cols)
             other == With(mem[t][k], cols)
  <2>1. k \in DOMAIN pg[t] /\ k \in DOMAIN mem[t] /\ Has(mem, t, k)
    BY <1>1, <1>5 DEF Has
  <2>2. /\ Columns(t) \subseteq DOMAIN row /\ P!Parents(t, row) = P!Parents(t, pg[t][k])
        /\ P!Unique(t, row) = P!Unique(t, pg[t][k])
        /\ \A c \in Columns(t) : row[c] = pg[t][k][c]
    BY <1>3, <2>1 DEF StoresInv, Sound
  <2>3. Columns(t) \subseteq DOMAIN other /\ P!Parents(t, other) = P!Parents(t, mem[t][k])
    BY <1>3, <2>1 DEF StoresInv
  <2>4. Exempt(t) \/ pg[t][k] = mem[t][k]
    BY <1>1, <2>1 DEF Alike
  <2>5. Exempt(t) \/ other = row
    BY <2>4
  <2>6. P!Parents(t, mem[t][k]) \subseteq used
    BY <2>1 DEF StoresInv, Given
  <2>7. P!Parents(t, pg[t][k]) \subseteq used
    <3> SUFFICES ASSUME NEW p \in P!Parents(t, pg[t][k]) PROVE p \in used
      OBVIOUS
    <3>1. Has(pg, p[1], p[2]) /\ p[1] \in Base /\ p = <<p[1], p[2]>>
      BY <2>1, ParentTables DEF StoresInv, Sound, Rooted, Lost
    <3>2. Has(mem, p[1], p[2])
      BY <3>1, BaseSame DEF Has
    <3> QED
      BY <1>2, <3>1, <3>2 DEF Has, Listed
  <2>8. ~Clash(pg, t, k, row)
    <3>1. ~Clash(pg, t, k, pg[t][k])
      BY <2>1 DEF StoresInv, Sound, Apart
    <3> HIDE DEF row
    <3> QED
      BY <2>2, <3>1 DEF Clash
  <2>9. ~Lost(pg, t, row)
    <3>1. ~Lost(pg, t, pg[t][k])
      BY <2>1 DEF StoresInv, Sound, Rooted
    <3> HIDE DEF row
    <3> QED
      BY <2>2, <3>1 DEF Lost
  <2>10. P!Update(pg, t, k, cols) = <<Put(pg, t, k, row), OK>>
    <3>1. P!Update(pg, t, k, cols) = P!Write(pg, t, k, row)
      BY <1>5, PStatements
    <3>2. P!Write(pg, t, k, row) = <<Put(pg, t, k, row), OK>>
      <4> HIDE DEF row
      <4> QED
        BY <2>8, <2>9, PStatements
    <3> QED
      BY <3>1, <3>2
  <2>11. t \in Listed => <<t, k>> \in used'
    BY <1>2, <2>1
  <2>12. t = "users" => row.email = pg[t][k].email
    <3>1. "email" \in Columns("users")
      BY DEF Columns, Indexed
    <3> HIDE DEF row
    <3> QED
      BY <2>2, <3>1
  <2>13. t = "invitations" => row.token = k /\ "v" \in DOMAIN row /\ row.v \in {"pending", "accepted", "revoked"}
    <3> SUFFICES ASSUME t = "invitations"
                 PROVE  row.token = k /\ "v" \in DOMAIN row /\ row.v \in {"pending", "accepted", "revoked"}
      OBVIOUS
    <3>1. "token" \in Columns("invitations")
      BY DEF Columns, Indexed
    <3>2. row.token = pg[t][k].token /\ pg[t][k].token = k
      BY <2>1, <2>2, <3>1 DEF StoresInv, Keyed
    <3>3. "v" \in DOMAIN pg[t][k]
      BY <2>1 DEF StoresInv, Keyed
    <3>4. "v" \in DOMAIN row /\ row.v = cols.v
      BY <3>3 DEF With
    <3> QED
      BY <3>2, <3>4
  <2>14. t = "app_env" => row.app = k[1]
    <3> SUFFICES ASSUME t = "app_env" PROVE row.app = k[1]
      OBVIOUS
    <3>1. "app" \in Columns("app_env")
      <4>1. <<"app_env", "app", "apps">> \in P!References
        BY DEF P!References
      <4> QED
        BY <4>1 DEF Columns
    <3>2. row.app = pg[t][k].app /\ pg[t][k].app = k[1]
      BY <2>1, <2>2, <3>1 DEF StoresInv, Keyed
    <3> QED
      BY <3>2
  <2>17. t = "invitations" => other.org = row.org
    <3> SUFFICES ASSUME t = "invitations" PROVE other.org = row.org
      OBVIOUS
    <3>1. "org" \in Columns("invitations")
      <4>1. <<"invitations", "org", "organizations">> \in P!References
        BY DEF P!References
      <4> QED
        BY <4>1 DEF Columns
    <3>2. row.org = pg[t][k].org /\ other.org = mem[t][k].org
      BY <1>3, <2>1, <2>2, <3>1 DEF StoresInv
    <3> QED
      BY <2>1, <3>2 DEF StoresInv, Keyed
  <2>15. pg' = Put(pg, t, k, row) /\ mem' = Put(mem, t, k, other)
    BY <1>4, <2>1, <2>10
  <2>16. StoresInv' /\ NoReturn
    <3>1. P!Parents(t, row) \subseteq used /\ P!Parents(t, other) \subseteq used
      BY <2>2, <2>3, <2>6, <2>7
    <3>2. used \subseteq used' /\ used' \subseteq used \union {<<t, k>>} /\ used' \subseteq Numbered \X Ids
      BY <1>2
    <3> HIDE DEF row, other
    <3> QED
      BY <2>1, <2>2, <2>3, <2>5, <2>8, <2>9, <2>11, <2>12, <2>13, <2>14, <2>15, <2>17, <3>1, <3>2, BothWrite
  <2> QED
    BY <1>4, <1>5, <2>1, <2>10, <2>16
<1>6. CASE ~Has(pg, t, k) /\ Has(mem, t, k)
  <2> DEFINE row == With(mem[t][k], cols)
  <2>1. k \notin DOMAIN pg[t] /\ k \in DOMAIN mem[t]
    BY <1>6 DEF Has
  <2>2. ASSUME t = "invitations" PROVE FALSE
    <3>1. <<t, k>> \in used
      BY <1>2, <2>1, <2>2 DEF Listed
    <3>2. Has(pg, t, k)
      BY <2>2, <3>1 DEF StoresInv, Given
    <3> QED
      BY <1>6, <3>2
  <2>3. t \in Loose
    BY <1>1, <2>1, <2>2 DEF Exempt, Firm, Loose
  <2>4. Columns(t) \subseteq DOMAIN row /\ P!Parents(t, row) = P!Parents(t, mem[t][k])
    BY <1>3, <2>1 DEF StoresInv
  <2>5. P!Parents(t, row) \subseteq used
    BY <2>1, <2>4 DEF StoresInv, Given
  <2>6. Lost(pg, t, row) \/ Exempt(t)
    <3>1. Lost(pg, t, mem[t][k]) \/ Exempt(t)
      BY <1>1, <2>1, <2>3 DEF Alike, Firm
    <3> HIDE DEF row
    <3> QED
      BY <2>4, <3>1 DEF Lost
  <2>7. P!Update(pg, t, k, cols) = <<pg, NotFound>>
    BY <1>6, PStatements
  <2>8. pg' = pg /\ mem' = Put(mem, t, k, row)
    BY <1>4, <1>6, <2>7
  <2>9. StoresInv' /\ NoReturn /\ (Lost(pg, t, row) => Orphans')
    <3>1. used \subseteq used' /\ used' \subseteq used \union {<<t, k>>} /\ used' \subseteq Numbered \X Ids
      BY <1>2
    <3> HIDE DEF row
    <3> QED
      BY <2>1, <2>3, <2>4, <2>5, <2>6, <2>8, <3>1, OrphanWrite
  <2>10. Exempt(t) => split
    BY DEF Exempt
  <2> HIDE DEF row
  <2> QED
    BY <1>4, <1>6, <2>6, <2>7, <2>9, <2>10
<1>7. CASE ~Has(pg, t, k) /\ ~Has(mem, t, k)
  <2>1. P!Update(pg, t, k, cols) = <<pg, NotFound>>
    BY <1>7, PStatements
  <2>2. pg' = pg /\ mem' = mem
    BY <1>4, <1>7, <2>1
  <2>3. StoresInv' /\ NoReturn
    BY <2>2, Stays
  <2> QED
    BY <1>4, <1>7, <2>1, <2>3
<1> QED
  BY <1>1, <1>5, <1>6, <1>7 DEF Has

\* A row that only the in-memory store has lost its parent, until the stores part.
LEMMA Alone ==
    ASSUME StoresInv, NEW t \in Real, NEW k \in DOMAIN mem[t], k \notin DOMAIN pg[t]
    PROVE  /\ t \in Loose /\ t # "invitations"
           /\ Exempt(t) \/ Lost(pg, t, mem[t][k])
           /\ Exempt(t) => split
           /\ split \/ Orphans
<1>1. /\ DOMAIN pg[t] \subseteq DOMAIN mem[t]
      /\ Exempt(t) \/ (IF t \in Firm THEN pg[t] = mem[t] ELSE Alike(t))
  BY DEF StoresInv, Same
<1>2. ASSUME t = "invitations" PROVE FALSE
  <2>1. <<t, k>> \in used
    BY <1>2 DEF StoresInv, Given, Listed
  <2> QED
    BY <1>2, <2>1 DEF StoresInv, Given, Has
<1>3. t \in Loose
  BY <1>1, <1>2 DEF Exempt, Firm, Loose
<1>4. Exempt(t) \/ Lost(pg, t, mem[t][k])
  BY <1>1, <1>3 DEF Alike, Firm
<1>5. Exempt(t) => split
  BY DEF Exempt
<1>6. ASSUME Lost(pg, t, mem[t][k]) PROVE Orphans
  <2>1. Lost(mem, t, mem[t][k])
    BY <1>6, BaseSame
  <2>2. PICK p \in P!Parents(t, mem[t][k]) : ~Has(mem, p[1], p[2])
    BY <2>1 DEF Lost
  <2>3. Live(mem)[t] = Only(mem[t], {j \in DOMAIN mem[t] : \A q \in P!Parents(t, mem[t][j]) : Has(mem, q[1], q[2])})
    BY DEF Live, Real
  <2>4. k \notin DOMAIN Live(mem)[t]
    BY <2>2, <2>3 DEF Only
  <2> QED
    BY <2>4 DEF Orphans, Real
<1> QED
  BY <1>2, <1>3, <1>4, <1>5, <1>6

\* A delete in both stores, by the key.
LEMMA Deletes ==
    ASSUME StoresInv, NEW t \in Real \ {"organizations", "users", "invitations", "usage_records"}, NEW k,
           pg' = P!Delete(pg, t, k)[1], mem' = M!Delete(mem, t, k)[1],
           UNCHANGED <<used, split, group>>
    PROVE  /\ StoresInv' /\ NoReturn
           /\ \/ P!Delete(pg, t, k)[2] = M!Delete(mem, t, k)[2]
              \/ P!Delete(pg, t, k)[2] = NotFound /\ (split \/ Orphans)
<1>1. DOMAIN pg[t] \subseteq DOMAIN mem[t]
  BY DEF StoresInv, Same
<1>2. P!Delete(pg, t, k) = IF Has(pg, t, k) THEN <<P!Cascade(pg, t, {k}), OK>> ELSE <<pg, NotFound>>
  BY PStatements
<1>3. M!Delete(mem, t, k) = IF Has(mem, t, k) THEN <<Without(mem, t, {k}), OK>> ELSE <<mem, NotFound>>
  BY MStatements
<1>4. CASE Has(pg, t, k)
  <2>1. Has(mem, t, k)
    BY <1>1, <1>4 DEF Has
  <2>2. pg' = P!Cascade(pg, t, {k}) /\ mem' = Without(mem, t, {k})
    BY <1>2, <1>3, <1>4, <2>1
  <2>3. Sound(pg)
    BY DEF StoresInv
  <2>4. Sound(pg')
    BY <2>2, <2>3, CascadeKeeps
  <2>5. /\ pg' = [u \in DOMAIN pg' |-> pg'[u]] /\ DOMAIN pg' = TableNames
        /\ \A u \in TableNames : \A j : j \in DOMAIN pg'[u] <=> j \in DOMAIN pg[u] /\ ~Goes(t, {k}, u, j, pg[u][j])
        /\ \A u \in TableNames : \A j \in DOMAIN pg'[u] : pg'[u][j] = pg[u][j]
        /\ \A u \in TableNames : Table(pg'[u])
    <3> DEFINE d == P!Cascade(pg, t, {k})
    <3>1. t \in TableNames /\ Shaped(pg)
      BY <2>3 DEF Sound, Real
    <3>2. /\ d = [u \in DOMAIN d |-> d[u]] /\ DOMAIN d = TableNames
          /\ \A u \in TableNames : \A j : j \in DOMAIN d[u] <=> j \in DOMAIN pg[u] /\ ~Goes(t, {k}, u, j, pg[u][j])
          /\ \A u \in TableNames : \A j \in DOMAIN d[u] : d[u][j] = pg[u][j]
          /\ \A u \in TableNames : Table(d[u])
      BY <3>1, CascadeIs
    <3>3. pg' = d
      BY <2>2
    <3> HIDE DEF d
    <3> QED
      BY <3>2, <3>3
  <2>6. pg'["users_by_email"] = pg["users_by_email"]
    <3>1. "users_by_email" \in TableNames
      BY DEF TableNames
    <3>2. \A j : j \notin DOMAIN pg["users_by_email"]
      BY DEF StoresInv, Empty
    <3>3. \A j : j \notin DOMAIN pg'["users_by_email"]
      BY <2>5, <3>1, <3>2
    <3>4. DOMAIN pg'["users_by_email"] = DOMAIN pg["users_by_email"]
      BY <3>2, <3>3
    <3> QED
      BY <2>3, <2>5, <3>1, <3>2, <3>4 DEF Table, Sound, Shaped
  <2>7. Pruned(pg, pg', t, {k})
    BY <2>5, <2>6 DEF Pruned, Real
  <2>8. StoresInv' /\ NoReturn
    BY <2>2, <2>4, <2>7, BothPrune
  <2> QED
    BY <1>2, <1>3, <1>4, <2>1, <2>8
<1>5. CASE ~Has(pg, t, k) /\ Has(mem, t, k)
  <2>1. k \notin DOMAIN pg[t] /\ k \in DOMAIN mem[t]
    BY <1>5 DEF Has
  <2>2. pg' = pg /\ mem' = Without(mem, t, {k})
    BY <1>2, <1>3, <1>5
  <2>3. Sound(pg')
    BY <2>2 DEF StoresInv
  <2>4. ASSUME NEW u \in Real, NEW j \in DOMAIN pg[u], Goes(t, {k}, u, j, pg[u][j]) PROVE FALSE
    <3>1. CASE u = t /\ j \in {k}
      BY <2>1, <3>1
    <3>2. CASE u # t /\ \E x \in {k} : <<t, x>> \in P!Parents(u, pg[u][j])
      <4>1. <<t, k>> \in P!Parents(u, pg[u][j])
        BY <3>2
      <4>2. ~Lost(pg, u, pg[u][j])
        BY DEF StoresInv, Sound, Rooted
      <4> QED
        BY <1>5, <4>1, <4>2 DEF Lost
    <3> QED
      BY <2>4, <3>1, <3>2 DEF Goes
  <2>5. Pruned(pg, pg', t, {k})
    BY <2>2, <2>4 DEF Pruned, StoresInv, Sound, Shaped, Real
  <2>6. StoresInv' /\ NoReturn
    BY <2>2, <2>3, <2>5, BothPrune
  <2>7. split \/ Orphans
    BY <2>1, Alone
  <2> QED
    BY <1>2, <1>5, <2>6, <2>7
<1>6. CASE ~Has(pg, t, k) /\ ~Has(mem, t, k)
  <2>1. pg' = pg /\ mem' = mem
    BY <1>2, <1>3, <1>6
  <2>2. StoresInv' /\ NoReturn
    BY <2>1, Stays
  <2> QED
    BY <1>2, <1>3, <1>6, <2>2
<1> QED
  BY <1>4, <1>5, <1>6

\* Only rows of apps and projects can lose their parent.
LEMMA LostLoose ==
    ASSUME StoresInv, NEW t \in Real, NEW row, P!Parents(t, row) \subseteq used, Lost(pg, t, row)
    PROVE  t \in Loose
<1> SUFFICES ASSUME t \notin Loose PROVE FALSE
  OBVIOUS
<1>1. PICK p \in P!Parents(t, row) : ~Has(pg, p[1], p[2])
  BY DEF Lost
<1>2. p[1] \in {"organizations", "users"} /\ p \in used
  BY <1>1, ParentTables
<1> QED
  BY <1>1, <1>2 DEF StoresInv, Given

\* A row is made under a fresh id.
LEMMA Inserts ==
    ASSUME StoresInv, NEW t \in Numbered \ {"users"}, NEW k \in Ids, NEW row,
           <<t, k>> \notin used, ~Has(mem, t, k),
           Columns(t) \subseteq DOMAIN row, ~Clash(pg, t, k, row), P!Parents(t, row) \subseteq used,
           t = "invitations" => row.token = k /\ "v" \in DOMAIN row /\ row.v \in {"pending", "accepted", "revoked"},
           pg' = P!Insert(pg, t, k, row)[1], mem' = Put(mem, t, k, row),
           used' = used \union {<<t, k>>}, UNCHANGED <<split, group>>
    PROVE  /\ StoresInv' /\ NoReturn
           /\ \/ P!Insert(pg, t, k, row)[2] = OK
              \/ P!Insert(pg, t, k, row)[2] = Invalid /\ Orphans'
<1>1. DOMAIN pg[t] \subseteq DOMAIN mem[t] /\ t \in Real /\ t # "project_memberships" /\ t # "app_env"
      /\ t # "users"
  BY DEF StoresInv, Same, Numbered, Real, TableNames
<1>2. ~Has(pg, t, k) /\ k \notin DOMAIN pg[t]
  BY <1>1 DEF Has
<1>3. P!Insert(pg, t, k, row) = IF Lost(pg, t, row) THEN <<pg, Invalid>> ELSE <<Put(pg, t, k, row), OK>>
  BY <1>2, PStatements
<1>4. used \subseteq used' /\ used' \subseteq used \union {<<t, k>>} /\ used' \subseteq Numbered \X Ids
      /\ <<t, k>> \in used'
  BY DEF StoresInv, Given
<1>5. CASE Lost(pg, t, row)
  <2>1. t \in Loose
    BY <1>1, <1>5, LostLoose
  <2>2. pg' = pg
    BY <1>3, <1>5
  <2>3. StoresInv' /\ NoReturn /\ Orphans'
    BY <1>1, <1>2, <1>4, <1>5, <2>1, <2>2, OrphanWrite
  <2> QED
    BY <1>3, <1>5, <2>3
<1>6. CASE ~Lost(pg, t, row)
  <2>1. pg' = Put(pg, t, k, row)
    BY <1>3, <1>6
  <2>2. StoresInv' /\ NoReturn
    BY <1>1, <1>2, <1>4, <1>6, <2>1, BothWrite
  <2> QED
    BY <1>3, <1>6, <2>2
<1> QED
  BY <1>5, <1>6

\* A row is written where it was or under a key of its own, when no index is in the way.
LEMMA Writes ==
    ASSUME StoresInv, NEW t \in Real \ {"users", "invitations", "project_memberships"}, ~Exempt(t),
           t \in Base => FALSE, NEW k, NEW row,
           t \in Numbered => <<t, k>> \notin used,
           Columns(t) \subseteq DOMAIN row, ~Clash(pg, t, k, row), ~Lost(pg, t, row),
               P!Parents(t, row) \subseteq used,
           t = "app_env" => row.app = k[1],
           pg' = Put(pg, t, k, row), mem' = Put(mem, t, k, row), UNCHANGED <<used, split, group>>
    PROVE  StoresInv' /\ NoReturn
<1>1. <<t, k>> \notin used /\ t \notin Listed
  BY DEF StoresInv, Given, Listed
<1>2. used \subseteq used' /\ used' \subseteq used \union {<<t, k>>} /\ used' \subseteq Numbered \X Ids
  BY DEF StoresInv, Given
<1> QED
  BY <1>1, <1>2, BothWrite

\* The tables whose rows are written over, and whose columns no index looks at.
Set1 == {"app_env", "subscriptions", "meter_state", "usage_report_state", "plans", "pricing_components",
         "service_templates", "platform_settings"}

\* ON CONFLICT DO UPDATE, and the assignment to the map.
LEMMA Upserts ==
    ASSUME StoresInv, NEW t \in Set1, NEW k, NEW row,
           Columns(t) \subseteq DOMAIN row, P!Parents(t, row) \subseteq used,
           t = "app_env" => row.app = k[1],
           pg' = P!Upsert(pg, t, k, row)[1], mem' = M!Set(mem, t, k, row)[1], UNCHANGED <<used, split, group>>
    PROVE  /\ StoresInv' /\ NoReturn /\ M!Set(mem, t, k, row)[2] = OK
           /\ \/ P!Upsert(pg, t, k, row)[2] = OK
              \/ P!Upsert(pg, t, k, row)[2] = Invalid /\ Orphans'
<1>1. /\ t \in Real \ {"users", "invitations", "project_memberships"} /\ ~Exempt(t) /\ t \notin Base
      /\ t \notin Numbered
      /\ t \in Loose => t = "app_env"
  BY DEF Set1, Real, TableNames, Exempt, Base, Numbered, Loose
<1>2. P!Unique(t, row) = {}
  BY DEF Set1, P!Unique
<1>3. ~Clash(pg, t, k, row)
  BY <1>2 DEF Clash
<1>4. P!Upsert(pg, t, k, row) = IF Lost(pg, t, row) THEN <<pg, Invalid>> ELSE <<Put(pg, t, k, row), OK>>
  BY <1>3, PStatements
<1>5. M!Set(mem, t, k, row) = <<Put(mem, t, k, row), OK>>
  BY MStatements
<1>6. CASE ~Lost(pg, t, row)
  <2>1. pg' = Put(pg, t, k, row) /\ mem' = Put(mem, t, k, row)
    BY <1>4, <1>5, <1>6
  <2>2. StoresInv' /\ NoReturn
    BY <1>1, <1>3, <1>6, <2>1, Writes
  <2> QED
    BY <1>4, <1>5, <1>6, <2>2
<1>7. CASE Lost(pg, t, row)
  <2>1. pg' = pg /\ mem' = Put(mem, t, k, row)
    BY <1>4, <1>5, <1>7
  <2>2. t \in Loose /\ t = "app_env"
    BY <1>1, <1>7, LostLoose
  <2>3. k \notin DOMAIN pg[t]
    <3> SUFFICES ASSUME k \in DOMAIN pg[t] PROVE FALSE
      OBVIOUS
    <3>1. pg[t][k].app = row.app /\ ~Lost(pg, t, pg[t][k])
      BY <1>1, <2>2 DEF StoresInv, Keyed, Sound, Rooted
    <3>2. P!Parents(t, row) = {<<"apps", row.app>>} /\ P!Parents(t, pg[t][k]) = {<<"apps", pg[t][k].app>>}
      BY <2>2, OneParent
    <3> QED
      BY <1>7, <3>1, <3>2 DEF Lost
  <2>4. <<t, k>> \notin used
    BY <1>1 DEF StoresInv, Given
  <2>5. used \subseteq used' /\ used' \subseteq used \union {<<t, k>>} /\ used' \subseteq Numbered \X Ids
    BY DEF StoresInv, Given
  <2>6. StoresInv' /\ NoReturn /\ Orphans'
    BY <1>1, <1>7, <2>1, <2>2, <2>3, <2>4, <2>5, OrphanWrite
  <2> QED
    BY <1>4, <1>5, <1>7, <2>6
<1> QED
  BY <1>6, <1>7

\* A row is written if there is none.
LEMMA Absents ==
    ASSUME StoresInv, NEW t \in {"usage_records", "processed_stripe_events"}, NEW k, NEW row,
           Columns(t) \subseteq DOMAIN row,
           pg' = P!InsertIfAbsent(pg, t, k, row)[1], mem' = M!InsertIfAbsent(mem, t, k, row)[1],
           UNCHANGED <<used, split, group>>
    PROVE  /\ StoresInv' /\ NoReturn
           /\ P!InsertIfAbsent(pg, t, k, row)[2] = M!InsertIfAbsent(mem, t, k, row)[2]
<1>1. /\ t \in Real \ {"users", "invitations", "project_memberships"} /\ ~Exempt(t) /\ t \notin Base /\ t \in Firm
      /\ t # "app_env"
  BY DEF Real, TableNames, Exempt, Base, Loose, Firm
<1>2. P!Unique(t, row) = {} /\ P!Parents(t, row) = {}
  BY NoParents DEF P!Unique
<1>3. ~Clash(pg, t, k, row) /\ ~Lost(pg, t, row) /\ P!Parents(t, row) \subseteq used
  BY <1>2 DEF Clash, Lost
<1>4. P!InsertIfAbsent(pg, t, k, row) = IF Has(pg, t, k) THEN <<pg, No>> ELSE <<Put(pg, t, k, row), Yes>>
  BY <1>3, PAbsent
<1>5. M!InsertIfAbsent(mem, t, k, row) = IF Has(mem, t, k) THEN <<mem, No>> ELSE <<Put(mem, t, k, row), Yes>>
  BY MStatements
<1>6. Has(pg, t, k) <=> Has(mem, t, k)
  BY <1>1 DEF StoresInv, Same, Has
<1>7. CASE Has(pg, t, k)
  <2>1. pg' = pg /\ mem' = mem
    BY <1>4, <1>5, <1>6, <1>7
  <2> QED
    BY <1>4, <1>5, <1>6, <1>7, <2>1, Stays
<1>8. CASE ~Has(pg, t, k)
  <2>1. pg' = Put(pg, t, k, row) /\ mem' = Put(mem, t, k, row)
    BY <1>4, <1>5, <1>6, <1>8
  <2>2. t \in Numbered => <<t, k>> \notin used
    <3>1. t \in Numbered => t = "usage_records"
      BY DEF Numbered
    <3> QED
      BY <1>8, <3>1 DEF StoresInv, Given
  <2>3. StoresInv' /\ NoReturn
    BY <1>1, <1>3, <2>1, <2>2, Writes
  <2> QED
    BY <1>4, <1>5, <1>6, <1>8, <2>3
<1> QED
  BY <1>7, <1>8

\* A row written keeps the shape of a store.
LEMMA PutShaped ==
    ASSUME NEW db, Shaped(db), NEW t \in Real, NEW k, NEW row, Columns(t) \subseteq DOMAIN row
    PROVE  Shaped(Put(db, t, k, row))
<1> DEFINE d == Put(db, t, k, row)
<1>1. /\ d = [u \in DOMAIN d |-> d[u]] /\ DOMAIN d = TableNames
      /\ \A u \in TableNames \ {t} : d[u] = db[u]
      /\ DOMAIN d[t] = DOMAIN db[t] \union {k}
      /\ d[t][k] = row
      /\ \A j \in DOMAIN db[t] \ {k} : d[t][j] = db[t][j]
      /\ Table(d[t])
  BY PutIs DEF Real
<1> HIDE DEF d
<1>2. \A u \in TableNames : Table(d[u])
  BY <1>1 DEF Shaped
<1>3. ASSUME NEW u \in Real, NEW j \in DOMAIN d[u] PROVE Columns(u) \subseteq DOMAIN d[u][j]
  BY <1>1, <1>3 DEF Shaped, Real
<1>4. Shaped(d)
  BY <1>1, <1>2, <1>3 DEF Shaped
<1> QED
  BY <1>4 DEF d

\* The tables on which the stores may part.
Free == {"invitations", "project_memberships", "domains"}

\* Where the stores may part, the other tables stay related.
LEMMA Parts ==
    ASSUME StoresInv, Sound(pg'), Shaped(mem'),
           \A u \in TableNames \ Free : pg'[u] = pg[u] /\ mem'[u] = mem[u],
           \A u \in Free : /\ DOMAIN pg[u] \subseteq DOMAIN pg'[u] /\ DOMAIN mem[u] \subseteq DOMAIN mem'[u]
                           /\ DOMAIN pg'[u] \subseteq DOMAIN mem'[u]
                           /\ \A j \in DOMAIN mem'[u] : P!Parents(u, mem'[u][j]) \subseteq used,
           \A u \in Free \ {"project_memberships"} : DOMAIN pg'[u] = DOMAIN pg[u] /\ DOMAIN mem'[u] = DOMAIN mem[u],
           \A i \in DOMAIN pg'["invitations"] :
              /\ pg'["invitations"][i].token = i
              /\ "v" \in DOMAIN pg'["invitations"][i]
              /\ pg'["invitations"][i].v \in {"pending", "accepted", "revoked"},
           \A i \in DOMAIN pg'["invitations"] : mem'["invitations"][i].org = pg'["invitations"][i].org,
           \A k \in DOMAIN mem'["project_memberships"] :
              mem'["project_memberships"][k].project = k[1] /\ mem'["project_memberships"][k].user = k[2],
           split' \in BOOLEAN,
           split' \/ \A u \in Free : IF u \in Firm THEN pg'[u] = mem'[u] ELSE Alike(u)',
           UNCHANGED <<used, group>>
    PROVE  StoresInv' /\ NoReturn
<1>1. /\ \A u \in Real \ Free : pg'[u] = pg[u] /\ mem'[u] = mem[u]
      /\ pg'["users_by_email"] = pg["users_by_email"] /\ mem'["users_by_email"] = mem["users_by_email"]
      /\ pg'["users"] = pg["users"] /\ mem'["users"] = mem["users"]
      /\ pg'["app_env"] = pg["app_env"]
  BY DEF Real, TableNames, Free
<1>2. \A u \in Free : u \in Real /\ u \in TableNames /\ u \notin Base
  BY DEF Real, TableNames, Free, Base
<1>3. \A u \in Real : DOMAIN pg[u] \subseteq DOMAIN pg'[u] /\ DOMAIN mem[u] \subseteq DOMAIN mem'[u]
  BY <1>1
<1>4. \A u, row : Lost(pg', u, row) <=> Lost(pg, u, row)
  <2>1. \A u \in Base : pg'[u] = pg[u]
    BY <1>1, <1>2, BaseSame
  <2> QED
    BY <2>1, ParentTables DEF Lost, Has
<1>5. Leads'
  BY <1>1 DEF StoresInv, Leads, EmailIndex, Has
<1>6. Given'
  <2>1. ASSUME NEW e \in used', e[1] \in {"organizations", "users", "invitations", "usage_records"}
        PROVE  Has(pg', e[1], e[2]) /\ Has(mem', e[1], e[2])
    <3>1. e[1] \in Real
      BY <2>1 DEF Real, TableNames
    <3>2. Has(pg, e[1], e[2]) /\ Has(mem, e[1], e[2])
      BY <2>1 DEF StoresInv, Given
    <3> QED
      BY <1>3, <3>1, <3>2 DEF Has
  <2>2. ASSUME NEW u \in Listed, NEW j \in DOMAIN mem'[u] PROVE <<u, j>> \in used'
    <3>1. j \in DOMAIN mem[u]
      BY <1>1, <1>2, <2>2, BaseSame DEF Listed, Free
    <3> QED
      BY <3>1 DEF StoresInv, Given
  <2>3. ASSUME NEW u \in Real, NEW j \in DOMAIN mem'[u] PROVE P!Parents(u, mem'[u][j]) \subseteq used'
    BY <1>1, <2>3 DEF StoresInv, Given
  <2> QED
    BY <2>1, <2>2, <2>3 DEF StoresInv, Given
<1>7. Keyed'
  BY <1>1 DEF StoresInv, Keyed
<1>8. Same'
  <2> SUFFICES ASSUME NEW u \in Real
               PROVE  /\ DOMAIN pg'[u] \subseteq DOMAIN mem'[u]
                      /\ Exempt(u)' \/ (IF u \in Firm THEN pg'[u] = mem'[u] ELSE Alike(u)')
    BY DEF Same
  <2>1. CASE u \in Free
    BY <2>1 DEF Exempt, Free
  <2>2. CASE u \notin Free
    <3>1. pg'[u] = pg[u] /\ mem'[u] = mem[u] /\ ~Exempt(u)
      BY <1>1, <2>2 DEF Exempt, Free
    <3>2. /\ DOMAIN pg[u] \subseteq DOMAIN mem[u]
          /\ IF u \in Firm THEN pg[u] = mem[u] ELSE Alike(u)
      BY <3>1 DEF StoresInv, Same
    <3>3. Alike(u) => Alike(u)'
      BY <1>4, <3>1 DEF Alike
    <3> QED
      BY <3>1, <3>2, <3>3
  <2> QED
    BY <2>1, <2>2
<1>9. NoReturn
  <2> SUFFICES ASSUME NEW e \in used
               PROVE  /\ Has(pg', e[1], e[2]) => Has(pg, e[1], e[2])
                      /\ Has(mem', e[1], e[2]) => Has(mem, e[1], e[2])
    BY DEF NoReturn
  <2>1. e[1] \in Real /\ e[1] # "project_memberships"
    BY DEF StoresInv, Given, Numbered, TableNames, Real
  <2> QED
    BY <1>1, <2>1 DEF Has
<1>10. (pg["users_by_email"] = Empty)' /\ split' \in BOOLEAN /\ group' \in Groups
  BY <1>1 DEF StoresInv
<1> QED
  BY <1>5, <1>6, <1>7, <1>8, <1>9, <1>10 DEF StoresInv

\* A domain whose mark of verification is written keeps its app.
LEMMA Marks ==
    ASSUME NEW row, Columns("domains") \subseteq DOMAIN row, NEW b
    PROVE  LET w == With(row, [verified |-> b]) IN
           Columns("domains") \subseteq DOMAIN w /\ P!Parents("domains", w) = P!Parents("domains", row)
<1> DEFINE w == With(row, [verified |-> b])
<1>1. "app" \in Columns("domains")
  <2>1. <<"domains", "app", "apps">> \in P!References
    BY DEF P!References
  <2> QED
    BY <2>1 DEF Columns
<1>2. DOMAIN w = DOMAIN row /\ w.app = row.app
  BY <1>1 DEF With
<1> HIDE DEF w
<1>3. P!Parents("domains", w) = {<<"apps", w.app>>} /\ P!Parents("domains", row) = {<<"apps", row.app>>}
  BY OneParent
<1>4. Columns("domains") \subseteq DOMAIN w /\ P!Parents("domains", w) = P!Parents("domains", row)
  BY <1>2, <1>3
<1> QED
  BY <1>4 DEF w

\* A host that is verified already is refused by PostgreSQL only, a domain that went with
\* its app is written in memory only: there the stores part.
LEMMA VerifiesDomain ==
    ASSUME StoresInv, NEW d, NEW b,
           pg' = P!Update(pg, "domains", d, [verified |-> b])[1],
           mem' = M!Update(mem, "domains", d, [verified |-> b])[1],
           split' = (split \/ P!Update(pg, "domains", d, [verified |-> b])[2]
                              # M!Update(mem, "domains", d, [verified |-> b])[2]),
           UNCHANGED <<used, group>>
    PROVE  StoresInv' /\ NoReturn
<1> DEFINE t == "domains"
           row == With(pg[t][d], [verified |-> b])
           other == With(mem[t][d], [verified |-> b])
<1>1. t \in Real /\ t \in TableNames /\ t \notin Firm /\ t \in Free /\ t # "invitations"
      /\ t # "project_memberships"
  BY DEF Real, TableNames, Firm, Loose, Free
<1>2. DOMAIN pg[t] \subseteq DOMAIN mem[t] /\ (split \/ Alike(t)) /\ split \in BOOLEAN
  BY <1>1 DEF StoresInv, Same, Exempt
<1>3. Sound(pg) /\ Shaped(pg) /\ Shaped(mem)
  BY DEF StoresInv, Sound
<1>4. P!Update(pg, t, d, [verified |-> b]) = IF Has(pg, t, d) THEN P!Write(pg, t, d, row) ELSE <<pg, NotFound>>
  BY PStatements
<1>5. M!Update(mem, t, d, [verified |-> b]) = IF Has(mem, t, d) THEN <<Put(mem, t, d, other), OK>>
          ELSE <<mem, NotFound>>
  BY MStatements
<1>6. P!Write(pg, t, d, row) = IF Clash(pg, t, d, row) THEN <<pg, Conflict>>
                               ELSE IF Lost(pg, t, row) THEN <<pg, Invalid>> ELSE <<Put(pg, t, d, row), OK>>
  BY PStatements
<1>7. \A u \in {"invitations", "project_memberships"} : u \in TableNames \ {t}
  BY DEF TableNames
<1>8. \A u \in Free \ {t} : u \in Real /\ u \in TableNames /\ ~(Exempt(u) /\ ~split)
                            /\ DOMAIN pg[u] \subseteq DOMAIN mem[u]
                            /\ (split \/ IF u \in Firm THEN pg[u] = mem[u] ELSE Alike(u))
  BY DEF Free, Real, TableNames, StoresInv, Same, Exempt
<1>9. ASSUME Has(mem, t, d), mem' = Put(mem, t, d, other)
      PROVE  /\ Shaped(mem') /\ \A u \in TableNames \ {t} : mem'[u] = mem[u]
             /\ DOMAIN mem'[t] = DOMAIN mem[t] /\ mem'[t][d] = other
             /\ \A j \in DOMAIN mem[t] \ {d} : mem'[t][j] = mem[t][j]
             /\ \A j \in DOMAIN mem'[t] : P!Parents(t, mem'[t][j]) \subseteq used
  <2>1. d \in DOMAIN mem[t]
    BY <1>9 DEF Has
  <2>2. Columns(t) \subseteq DOMAIN mem[t][d]
    BY <1>1, <1>3, <2>1 DEF Shaped
  <2>3. Columns(t) \subseteq DOMAIN other /\ P!Parents(t, other) = P!Parents(t, mem[t][d])
    <3> DEFINE old == mem[t][d]
    <3> HIDE DEF old
    <3>1. Columns("domains") \subseteq DOMAIN old
      BY <2>2 DEF old
    <3>2. LET w == With(old, [verified |-> b]) IN
          Columns("domains") \subseteq DOMAIN w /\ P!Parents("domains", w) = P!Parents("domains", old)
      BY <3>1, Marks
    <3> QED
      BY <3>2 DEF old
  <2> HIDE DEF other
  <2>4. /\ \A u \in TableNames \ {t} : mem'[u] = mem[u]
        /\ DOMAIN mem'[t] = DOMAIN mem[t] \union {d} /\ mem'[t][d] = other
        /\ \A j \in DOMAIN mem[t] \ {d} : mem'[t][j] = mem[t][j]
    BY <1>1, <1>3, <1>9, PutIs
  <2>5. Shaped(mem')
    BY <1>1, <1>3, <1>9, <2>3, PutShaped
  <2>6. \A j \in DOMAIN mem[t] : P!Parents(t, mem[t][j]) \subseteq used
    BY <1>1 DEF StoresInv, Given
  <2> QED
    BY <2>1, <2>3, <2>4, <2>5, <2>6
<1>10. CASE ~Has(mem, t, d)
  <2>1. ~Has(pg, t, d)
    BY <1>2, <1>10 DEF Has
  <2>2. pg' = pg /\ mem' = mem /\ split' = split
    BY <1>2, <1>4, <1>5, <1>10, <2>1
  <2> QED
    BY <2>2, Stays
<1>11. CASE Has(mem, t, d) /\ pg' = pg /\ split' = TRUE
  <2>1. mem' = Put(mem, t, d, other)
    BY <1>5, <1>11
  <2>2. /\ Shaped(mem') /\ \A u \in TableNames \ {t} : mem'[u] = mem[u]
        /\ DOMAIN mem'[t] = DOMAIN mem[t]
        /\ \A j \in DOMAIN mem'[t] : P!Parents(t, mem'[t][j]) \subseteq used
    BY <1>9, <1>11, <2>1
  <2>3. \A u \in Free : /\ DOMAIN pg'[u] = DOMAIN pg[u] /\ DOMAIN mem'[u] = DOMAIN mem[u]
                        /\ DOMAIN pg'[u] \subseteq DOMAIN mem'[u]
                        /\ \A j \in DOMAIN mem'[u] : P!Parents(u, mem'[u][j]) \subseteq used
    <3>1. \A u \in Free \ {t} : \A j \in DOMAIN mem[u] : P!Parents(u, mem[u][j]) \subseteq used
      BY <1>8 DEF StoresInv, Given
    <3>2. \A u \in Free \ {t} : mem'[u] = mem[u]
      BY <1>8, <2>2
    <3>3. \A u \in Free \ {t} : /\ DOMAIN pg'[u] = DOMAIN pg[u] /\ DOMAIN mem'[u] = DOMAIN mem[u]
                        /\ DOMAIN pg'[u] \subseteq DOMAIN mem'[u]
                        /\ \A j \in DOMAIN mem'[u] : P!Parents(u, mem'[u][j]) \subseteq used
      BY <1>8, <1>11, <3>1, <3>2
    <3>4. /\ DOMAIN pg'[t] = DOMAIN pg[t] /\ DOMAIN mem'[t] = DOMAIN mem[t]
          /\ DOMAIN pg'[t] \subseteq DOMAIN mem'[t]
          /\ \A j \in DOMAIN mem'[t] : P!Parents(t, mem'[t][j]) \subseteq used
      BY <1>2, <1>11, <2>2
    <3> QED
      BY <3>3, <3>4
  <2>4. Sound(pg') /\ \A u \in TableNames \ Free : pg'[u] = pg[u] /\ mem'[u] = mem[u]
    BY <1>1, <1>3, <1>11, <2>2
  <2>5. \A i \in DOMAIN pg'["invitations"] :
              /\ pg'["invitations"][i].token = i
              /\ "v" \in DOMAIN pg'["invitations"][i]
              /\ pg'["invitations"][i].v \in {"pending", "accepted", "revoked"}
    BY <1>11 DEF StoresInv, Keyed
  <2>7. \A i \in DOMAIN pg'["invitations"] : mem'["invitations"][i].org = pg'["invitations"][i].org
    BY <1>7, <1>11, <2>2 DEF StoresInv, Keyed
  <2>6. \A k \in DOMAIN mem'["project_memberships"] :
              mem'["project_memberships"][k].project = k[1] /\ mem'["project_memberships"][k].user = k[2]
    BY <1>7, <2>2 DEF StoresInv, Keyed
  <2> HIDE DEF t
  <2> QED
    BY <1>11, <2>2, <2>3, <2>4, <2>5, <2>6, <2>7, Parts
<1>12. CASE Has(pg, t, d) /\ ~Clash(pg, t, d, row)
  <2>1. d \in DOMAIN pg[t] /\ d \in DOMAIN mem[t] /\ Has(mem, t, d)
    BY <1>2, <1>12 DEF Has
  <2>2. Columns(t) \subseteq DOMAIN pg[t][d]
    BY <1>1, <1>3, <2>1 DEF Shaped
  <2>3. Columns(t) \subseteq DOMAIN row /\ P!Parents(t, row) = P!Parents(t, pg[t][d])
    <3> DEFINE old == pg[t][d]
    <3> HIDE DEF old
    <3>1. Columns("domains") \subseteq DOMAIN old
      BY <2>2 DEF old
    <3>2. LET w == With(old, [verified |-> b]) IN
          Columns("domains") \subseteq DOMAIN w /\ P!Parents("domains", w) = P!Parents("domains", old)
      BY <3>1, Marks
    <3> QED
      BY <3>2 DEF old
  <2>4. split \/ row = other
    <3>1. split \/ pg[t][d] = mem[t][d]
      BY <1>2, <2>1 DEF Alike
    <3> QED
      BY <3>1
  <2>5. ~Lost(pg, t, pg[t][d])
    BY <1>1, <1>3, <2>1 DEF Sound, Rooted
  <2> HIDE DEF row, other
  <2>6. ~Lost(pg, t, row)
    BY <2>3, <2>5 DEF Lost
  <2>7. pg' = Put(pg, t, d, row) /\ mem' = Put(mem, t, d, other) /\ split' = split
    BY <1>2, <1>4, <1>5, <1>6, <1>12, <2>1, <2>6
  <2>8. Sound(pg')
    BY <1>1, <1>3, <1>12, <2>3, <2>6, <2>7, WriteKeeps
  <2>9. /\ \A u \in TableNames \ {t} : pg'[u] = pg[u]
        /\ DOMAIN pg'[t] = DOMAIN pg[t] \union {d} /\ pg'[t][d] = row
        /\ \A j \in DOMAIN pg[t] \ {d} : pg'[t][j] = pg[t][j]
    BY <1>1, <1>3, <2>7, PutIs
  <2>10. DOMAIN pg'[t] = DOMAIN pg[t]
    BY <2>1, <2>9
  <2>11. /\ Shaped(mem') /\ \A u \in TableNames \ {t} : mem'[u] = mem[u]
         /\ DOMAIN mem'[t] = DOMAIN mem[t] /\ mem'[t][d] = other
         /\ \A j \in DOMAIN mem[t] \ {d} : mem'[t][j] = mem[t][j]
         /\ \A j \in DOMAIN mem'[t] : P!Parents(t, mem'[t][j]) \subseteq used
    BY <1>9, <2>1, <2>7
  <2>12. \A u \in Free \ {t} : mem'[u] = mem[u] /\ pg'[u] = pg[u]
    BY <1>8, <2>9, <2>11
  <2>13. \A u \in Free : /\ DOMAIN pg'[u] = DOMAIN pg[u] /\ DOMAIN mem'[u] = DOMAIN mem[u]
                         /\ DOMAIN pg'[u] \subseteq DOMAIN mem'[u]
                         /\ \A j \in DOMAIN mem'[u] : P!Parents(u, mem'[u][j]) \subseteq used
    <3>1. \A u \in Free \ {t} : \A j \in DOMAIN mem[u] : P!Parents(u, mem[u][j]) \subseteq used
      BY <1>8 DEF StoresInv, Given
    <3>3. \A u \in Free \ {t} : /\ DOMAIN pg'[u] = DOMAIN pg[u] /\ DOMAIN mem'[u] = DOMAIN mem[u]
                        /\ DOMAIN pg'[u] \subseteq DOMAIN mem'[u]
                        /\ \A j \in DOMAIN mem'[u] : P!Parents(u, mem'[u][j]) \subseteq used
      BY <1>8, <2>12, <3>1
    <3>4. /\ DOMAIN pg'[t] = DOMAIN pg[t] /\ DOMAIN mem'[t] = DOMAIN mem[t]
          /\ DOMAIN pg'[t] \subseteq DOMAIN mem'[t]
          /\ \A j \in DOMAIN mem'[t] : P!Parents(t, mem'[t][j]) \subseteq used
      BY <1>2, <2>10, <2>11
    <3> QED
      BY <3>3, <3>4
  <2>14. \A u \in TableNames \ Free : pg'[u] = pg[u] /\ mem'[u] = mem[u]
    BY <1>1, <2>9, <2>11
  <2>15. \A i \in DOMAIN pg'["invitations"] :
              /\ pg'["invitations"][i].token = i
              /\ "v" \in DOMAIN pg'["invitations"][i]
              /\ pg'["invitations"][i].v \in {"pending", "accepted", "revoked"}
    BY <1>7, <2>9 DEF StoresInv, Keyed
  <2>19. \A i \in DOMAIN pg'["invitations"] : mem'["invitations"][i].org = pg'["invitations"][i].org
    BY <1>7, <2>9, <2>11 DEF StoresInv, Keyed
  <2>16. \A k \in DOMAIN mem'["project_memberships"] :
              mem'["project_memberships"][k].project = k[1] /\ mem'["project_memberships"][k].user = k[2]
    BY <1>7, <2>11 DEF StoresInv, Keyed
  <2>17. \A u, w : Lost(pg', u, w) <=> Lost(pg, u, w)
    <3>1. \A u \in Base : pg'[u] = pg[u]
      BY <2>9, BaseSame DEF Base
    <3> QED
      BY <3>1, ParentTables DEF Lost, Has
  <2>18. ASSUME ~split, NEW u \in Free PROVE IF u \in Firm THEN pg'[u] = mem'[u] ELSE Alike(u)'
    <3>1. CASE u # t
      <4>1. pg'[u] = pg[u] /\ mem'[u] = mem[u] /\ (IF u \in Firm THEN pg[u] = mem[u] ELSE Alike(u))
        BY <1>8, <2>12, <2>18, <3>1
      <4>2. Alike(u) => Alike(u)'
        BY <2>17, <4>1 DEF Alike
      <4> QED
        BY <4>1, <4>2
    <3>2. CASE u = t
      <4>1. Alike(t) /\ row = other
        BY <1>2, <2>4, <2>18
      <4>2. \A j \in DOMAIN pg'[t] : j \in DOMAIN mem'[t] /\ mem'[t][j] = pg'[t][j]
        BY <2>9, <2>10, <2>11, <4>1 DEF Alike
      <4>3. ASSUME NEW j \in DOMAIN mem'[t], ~Lost(pg', t, mem'[t][j]) PROVE j \in DOMAIN pg'[t]
        <5>1. CASE j = d
          BY <2>1, <2>10, <5>1
        <5>2. CASE j # d
          <6>1. j \in DOMAIN mem[t] /\ ~Lost(pg, t, mem[t][j])
            BY <2>11, <2>17, <4>3, <5>2
          <6> QED
            BY <2>10, <4>1, <6>1 DEF Alike
        <5> QED
          BY <5>1, <5>2
      <4>4. Alike(t)'
        BY <4>2, <4>3 DEF Alike
      <4> QED
        BY <1>1, <3>2, <4>4
    <3> QED
      BY <3>1, <3>2
  <2> HIDE DEF t
  <2> QED
    BY <1>2, <2>7, <2>8, <2>11, <2>13, <2>14, <2>15, <2>16, <2>18, <2>19, Parts
<1>13. ASSUME Has(mem, t, d), ~(Has(pg, t, d) /\ ~Clash(pg, t, d, row)) PROVE pg' = pg /\ split' = TRUE
  <2>1. M!Update(mem, t, d, [verified |-> b])[2] = OK
    BY <1>5, <1>13
  <2>2. /\ P!Update(pg, t, d, [verified |-> b])[1] = pg
        /\ P!Update(pg, t, d, [verified |-> b])[2] \in {NotFound, Conflict}
    BY <1>4, <1>6, <1>13
  <2> QED
    BY <1>2, <2>1, <2>2 DEF OK, NotFound, Conflict
<1> QED
  BY <1>10, <1>11, <1>12, <1>13

\* What was given out and stays is there in both stores.
LEMMA KnownThere ==
    ASSUME StoresInv
    PROVE  /\ \A t \in {"organizations", "users", "invitations"} : \A k : <<t, k>> \in used <=> k \in DOMAIN pg[t]
           /\ \A t \in Listed : \A k \in DOMAIN pg[t] : <<t, k>> \in used
           /\ \A e \in used : e = <<e[1], e[2]>>
<1>1. \A t \in Listed : DOMAIN pg[t] \subseteq DOMAIN mem[t]
  <2>1. \A t \in Listed : t \in Real
    BY DEF Listed, Base, Real, TableNames
  <2> QED
    BY <2>1 DEF StoresInv, Same
<1>2. \A t \in {"organizations", "users", "invitations"} : t \in Listed
  BY DEF Listed, Base
<1>3. \A t \in Listed : \A k \in DOMAIN pg[t] : <<t, k>> \in used
  BY <1>1 DEF StoresInv, Given
<1>4. \A t \in {"organizations", "users", "invitations"} : \A k : <<t, k>> \in used => k \in DOMAIN pg[t]
  BY DEF StoresInv, Given, Has
<1>5. \A e \in used : e = <<e[1], e[2]>>
  BY DEF StoresInv, Given
<1> QED
  BY <1>2, <1>3, <1>4, <1>5

\* The membership of an accepted invitation, in PostgreSQL.
LEMMA PJoins ==
    ASSUME StoresInv, NEW p, NEW u, NEW r, DOMAIN r = {"project", "user", "v"}
    PROVE  LET t == "project_memberships"
               a == P!Insert(pg, t, <<p, u>>, r) IN
           \/ a = <<Put(pg, t, <<p, u>>, r), OK>> /\ Sound(Put(pg, t, <<p, u>>, r))
               /\ ~Has(pg, t, <<p, u>>) /\ ~Lost(pg, t, r)
           \/ a = <<pg, Conflict>>
           \/ a = <<pg, Invalid>>
<1> DEFINE t == "project_memberships"
           k == <<p, u>>
<1>1. t \in Real
  BY DEF Real, TableNames
<1>2. P!Unique(t, r) = {}
  BY DEF P!Unique
<1>3. ~Clash(pg, t, k, r)
  BY <1>2 DEF Clash
<1>4. Columns(t) \subseteq DOMAIN r
  <2>1. Indexed(t) = {}
    BY DEF Indexed
  <2>2. \A q \in P!References : q[1] = t => q[2] \in {"project", "user"}
    BY DEF P!References
  <2> QED
    BY <2>1, <2>2 DEF Columns
<1> HIDE DEF t
<1>5. ~Lost(pg, t, r) => Sound(Put(pg, t, k, r))
  BY <1>1, <1>3, <1>4, WriteKeeps DEF StoresInv
<1>6. P!Insert(pg, t, k, r) = IF Has(pg, t, k) THEN <<pg, Conflict>>
                              ELSE IF Lost(pg, t, r) THEN <<pg, Invalid>> ELSE <<Put(pg, t, k, r), OK>>
  BY <1>3, PStatements
<1> QED
  BY <1>5, <1>6 DEF t

\* The mark of an accepted invitation.
LEMMA PAccepts ==
    ASSUME NEW db, Sound(db), NEW i \in DOMAIN db["invitations"]
    PROVE  LET w == With(db["invitations"][i], [v |-> "accepted"]) IN
           /\ P!Update(db, "invitations", i, [v |-> "accepted"]) = <<Put(db, "invitations", i, w), OK>>
           /\ Sound(Put(db, "invitations", i, w))
<1> DEFINE t == "invitations"
           old == db[t][i]
           w == With(old, [v |-> "accepted"])
<1>1. t \in Real
  BY DEF Real, TableNames
<1>2. Columns(t) \subseteq DOMAIN old /\ ~Clash(db, t, i, old) /\ ~Lost(db, t, old)
  BY <1>1 DEF Sound, Shaped, Apart, Rooted
<1>3. DOMAIN [v |-> "accepted"] \intersect Columns(t) = {}
  <2>1. "v" \notin Indexed(t)
    BY DEF Indexed
  <2>2. \A q \in P!References : q[2] # "v"
    BY DEF P!References
  <2> QED
    BY <2>1, <2>2 DEF Columns
<1>4. P!Update(db, t, i, [v |-> "accepted"]) = P!Write(db, t, i, w)
  BY PStatements DEF Has
<1> HIDE DEF old, t
<1>5. /\ DOMAIN w = DOMAIN old /\ P!Parents(t, w) = P!Parents(t, old) /\ P!Unique(t, w) = P!Unique(t, old)
  BY <1>2, <1>3, SameKeys
<1> HIDE DEF w
<1>6. Columns(t) \subseteq DOMAIN w /\ ~Clash(db, t, i, w) /\ ~Lost(db, t, w)
  BY <1>2, <1>5 DEF Clash, Lost
<1>7. P!Write(db, t, i, w) = <<Put(db, t, i, w), OK>>
  BY <1>6, PStatements
<1>8. Sound(Put(db, t, i, w))
  BY <1>1, <1>6, WriteKeeps
<1> QED
  BY <1>4, <1>7, <1>8 DEF w, old, t

\* An invitation is accepted: what is written in memory.
Joins(p, u) == [project |-> p, user |-> u, v |-> 0]
Joined(p, u) == IF Has(mem, "project_memberships", <<p, u>>) THEN mem
                ELSE Put(mem, "project_memberships", <<p, u>>, Joins(p, u))
Marked(i) == With(mem["invitations"][i], [v |-> "accepted"])
Accepted(i, p, u) == Put(Joined(p, u), "invitations", i, Marked(i))

\* The transaction of an acceptance, in memory.
LEMMA MAccepts ==
    ASSUME StoresInv, NEW i \in DOMAIN mem["invitations"], NEW p, NEW u, <<"projects", p>> \in used,
        <<"users", u>> \in used
    PROVE  /\ Shaped(Accepted(i, p, u))
           /\ \A t \in TableNames \ {"invitations", "project_memberships"} : Accepted(i, p, u)[t] = mem[t]
           /\ DOMAIN Accepted(i, p, u)["invitations"] = DOMAIN mem["invitations"]
           /\ Accepted(i, p, u)["invitations"][i] = Marked(i)
           /\ \A j \in DOMAIN mem["invitations"] :
               Accepted(i, p, u)["invitations"][j].org = mem["invitations"][j].org
           /\ \A j \in DOMAIN mem["invitations"] \ {i} : Accepted(i, p, u)["invitations"][j] = mem["invitations"][j]
           /\ Accepted(i, p, u)["project_memberships"] = Joined(p, u)["project_memberships"]
           /\ DOMAIN Accepted(i, p, u)["project_memberships"] = DOMAIN mem["project_memberships"] \union {<<p, u>>}
           /\ \A j \in DOMAIN mem["project_memberships"] :
                 Accepted(i, p, u)["project_memberships"][j] = mem["project_memberships"][j]
           /\ <<p, u>> \notin DOMAIN mem["project_memberships"] =>
                 Accepted(i, p, u)["project_memberships"][<<p, u>>] = Joins(p, u)
           /\ \A t \in {"invitations", "project_memberships"} : \A j \in DOMAIN Accepted(i, p, u)[t] :
                 P!Parents(t, Accepted(i, p, u)[t][j]) \subseteq used
           /\ \A k \in DOMAIN Accepted(i, p, u)["project_memberships"] :
                 /\ Accepted(i, p, u)["project_memberships"][k].project = k[1]
                 /\ Accepted(i, p, u)["project_memberships"][k].user = k[2]
           /\ P!Parents("project_memberships", Joins(p, u)) = {<<"projects", p>>, <<"users", u>>}
<1> DEFINE N == "invitations"
           T == "project_memberships"
           k == <<p, u>>
           r == Joins(p, u)
           m == Joined(p, u)
           w == Marked(i)
           d == Accepted(i, p, u)
<1>0. /\ r = [project |-> p, user |-> u, v |-> 0]
      /\ m = IF Has(mem, T, k) THEN mem ELSE Put(mem, T, k, r)
      /\ w = With(mem[N][i], [v |-> "accepted"])
      /\ d = Put(m, N, i, w)
  BY DEF Joins, Joined, Marked, Accepted
<1> HIDE DEF r, m, w, d
<1>1. N \in Real /\ T \in Real /\ N \in TableNames /\ T \in TableNames /\ N # T
  BY DEF Real, TableNames
<1>2. Shaped(mem)
  BY DEF StoresInv
<1>3. P!Parents(T, r) = {<<"projects", p>>, <<"users", u>>}
  BY <1>0, TwoParents
<1>4. Columns(T) \subseteq DOMAIN r
  <2>1. Indexed(T) = {}
    BY DEF Indexed
  <2>2. \A q \in P!References : q[1] = T => q[2] \in {"project", "user"}
    BY DEF P!References
  <2> QED
    BY <1>0, <2>1, <2>2 DEF Columns
<1>5. /\ Columns(N) \subseteq DOMAIN w /\ P!Parents(N, w) = P!Parents(N, mem[N][i]) /\ w.org = mem[N][i].org
  <2> DEFINE old == mem[N][i]
  <2>1. DOMAIN [v |-> "accepted"] \intersect Columns(N) = {}
    <3>1. "v" \notin Indexed(N)
      BY DEF Indexed
    <3>2. \A q \in P!References : q[2] # "v"
      BY DEF P!References
    <3> QED
      BY <3>1, <3>2 DEF Columns
  <2>2. Columns(N) \subseteq DOMAIN old /\ w = With(old, [v |-> "accepted"])
    BY <1>0, <1>1, <1>2 DEF Shaped
  <2>4. "org" \in Columns(N)
    <3>1. <<"invitations", "org", "organizations">> \in P!References
      BY DEF P!References
    <3> QED
      BY <3>1 DEF Columns
  <2> HIDE DEF old, N
  <2>3. DOMAIN w = DOMAIN old /\ P!Parents(N, w) = P!Parents(N, old) /\ w.org = old.org
    BY <2>1, <2>2, <2>4, SameKeys
  <2> QED
    BY <2>2, <2>3 DEF old
<1>6. /\ Shaped(m) /\ \A t \in TableNames \ {T} : m[t] = mem[t]
      /\ DOMAIN m[T] = DOMAIN mem[T] \union {k}
      /\ \A j \in DOMAIN mem[T] : m[T][j] = mem[T][j]
      /\ k \notin DOMAIN mem[T] => m[T][k] = r
  <2>1. CASE Has(mem, T, k)
    BY <1>0, <1>2, <2>1 DEF Has
  <2>2. CASE ~Has(mem, T, k)
    <3>1. m = Put(mem, T, k, r) /\ k \notin DOMAIN mem[T]
      BY <1>0, <2>2 DEF Has
    <3>2. Shaped(m)
      BY <1>1, <1>2, <1>4, <3>1, PutShaped
    <3>3. /\ \A t \in TableNames \ {T} : m[t] = mem[t]
          /\ DOMAIN m[T] = DOMAIN mem[T] \union {k} /\ m[T][k] = r
          /\ \A j \in DOMAIN mem[T] \ {k} : m[T][j] = mem[T][j]
      BY <1>1, <1>2, <3>1, PutIs
    <3> QED
      BY <3>1, <3>2, <3>3
  <2> QED
    BY <2>1, <2>2
<1>7. /\ Shaped(d) /\ \A t \in TableNames \ {N} : d[t] = m[t]
      /\ DOMAIN d[N] = DOMAIN m[N] \union {i} /\ d[N][i] = w
      /\ \A j \in DOMAIN m[N] \ {i} : d[N][j] = m[N][j]
  <2>1. Shaped(d)
    BY <1>0, <1>1, <1>5, <1>6, PutShaped
  <2>2. /\ \A t \in TableNames \ {N} : d[t] = m[t]
        /\ DOMAIN d[N] = DOMAIN m[N] \union {i} /\ d[N][i] = w
        /\ \A j \in DOMAIN m[N] \ {i} : d[N][j] = m[N][j]
    <3>1. Shaped(m) /\ N \in TableNames /\ d = Put(m, N, i, w)
      BY <1>0, <1>1, <1>6
    <3> HIDE DEF N
    <3> QED
      BY ONLY <3>1, PutIs
  <2> QED
    BY <2>1, <2>2
<1>8. m[N] = mem[N] /\ d[T] = m[T]
  BY <1>1, <1>6, <1>7
<1>9. \A t \in {N, T} : \A j \in DOMAIN mem[t] : P!Parents(t, mem[t][j]) \subseteq used
  BY <1>1 DEF StoresInv, Given
<1>10. \A j \in DOMAIN d[N] : P!Parents(N, d[N][j]) \subseteq used
  BY <1>5, <1>7, <1>8, <1>9
<1>11. \A j \in DOMAIN d[T] : P!Parents(T, d[T][j]) \subseteq used
  BY <1>3, <1>6, <1>8, <1>9
<1>12. \A j \in DOMAIN d[T] : d[T][j].project = j[1] /\ d[T][j].user = j[2]
  <2>1. \A j \in DOMAIN mem[T] : mem[T][j].project = j[1] /\ mem[T][j].user = j[2]
    BY DEF StoresInv, Keyed
  <2>2. r.project = k[1] /\ r.user = k[2]
    BY <1>0
  <2> HIDE DEF T, k
  <2> QED
    BY <1>6, <1>8, <2>1, <2>2
<1>13. DOMAIN d[N] = DOMAIN mem[N] /\ \A j \in DOMAIN mem[N] \ {i} : d[N][j] = mem[N][j]
  BY <1>7, <1>8
<1>18. \A j \in DOMAIN mem[N] : d[N][j].org = mem[N][j].org
  BY <1>5, <1>13, <1>7
<1>14. \A t \in TableNames \ {N, T} : d[t] = mem[t]
  BY <1>6, <1>7
<1>15. /\ DOMAIN d[T] = DOMAIN mem[T] \union {k} /\ \A j \in DOMAIN mem[T] : d[T][j] = mem[T][j]
       /\ k \notin DOMAIN mem[T] => d[T][k] = r
  BY <1>6, <1>8
<1>16. \A t \in {N, T} : \A j \in DOMAIN d[t] : P!Parents(t, d[t][j]) \subseteq used
  BY <1>10, <1>11
<1>17. Shaped(d) /\ d[N][i] = w
  BY <1>7
<1> QED
  BY ONLY <1>3, <1>8, <1>12, <1>13, <1>14, <1>15, <1>16, <1>17, <1>18 DEF r, m, w, d

\* An acceptance: both write the two rows, or PostgreSQL misses the project and rolls back.
LEMMA Accepts ==
    ASSUME StoresInv, NEW i \in Known("invitations"), NEW p \in Known("projects"), NEW u \in DOMAIN pg["users"],
           LET a == P!AddProjectMembership(pg, p, u, 0)
               b == M!AddProjectMembership(mem, p, u, 0)
           IN  Parting(P!WithTx(pg, IF a[2] = OK THEN P!UpdateInvitation(a[1], i, "accepted") ELSE a),
                       M!WithTx(mem, M!UpdateInvitation(b[1], i, "accepted")))
    PROVE  StoresInv' /\ NoReturn /\ (split' \/ answer' = <<>>)
<1> DEFINE N == "invitations"
           T == "project_memberships"
           k == <<p, u>>
           r == Joins(p, u)
           a == P!Insert(pg, T, k, r)
           m == Joined(p, u)
           acc == [v |-> "accepted"]
           w == Marked(i)
           d == Accepted(i, p, u)
           pd == Put(pg, T, k, r)
           pw == With(pd[N][i], acc)
           done == IF a[2] = OK THEN P!Update(a[1], N, i, acc) ELSE a
           res == IF done[2] = OK THEN done ELSE <<pg, done[2]>>
<1>1. /\ <<N, i>> \in used /\ <<"projects", p>> \in used /\ <<"users", u>> \in used
      /\ i \in DOMAIN pg[N] /\ i \in DOMAIN mem[N]
  <2>1. <<N, i>> \in used /\ <<"projects", p>> \in used
    BY DEF Known
  <2>2. <<"users", u>> \in used
    BY KnownThere DEF Listed, Base
  <2>3. Has(pg, N, i) /\ Has(mem, N, i)
    BY <2>1 DEF StoresInv, Given
  <2> QED
    BY <2>1, <2>2, <2>3 DEF Has
<1>2. /\ N \in Real /\ T \in Real /\ N \in TableNames /\ T \in TableNames /\ N \in Firm /\ T \notin Firm
      /\ N # T /\ DOMAIN r = {"project", "user", "v"} /\ "domains" \in Real /\ "domains" \in TableNames
      /\ "domains" \notin Firm
  BY DEF Real, TableNames, Firm, Loose, Joins
<1>3. M!Insert(mem, T, k, r)[1] = m
  <2>1. M!Insert(mem, T, k, r) = IF Has(mem, T, k) THEN <<mem, Conflict>> ELSE <<Put(mem, T, k, r), OK>>
    BY MStatements
  <2> QED
    BY <2>1 DEF Joined
<1>4. /\ Shaped(d)
      /\ \A t \in TableNames \ {N, T} : d[t] = mem[t]
      /\ DOMAIN d[N] = DOMAIN mem[N] /\ d[N][i] = w
      /\ \A j \in DOMAIN mem[N] \ {i} : d[N][j] = mem[N][j]
      /\ \A j \in DOMAIN mem[N] : d[N][j].org = mem[N][j].org
      /\ d[T] = m[T]
      /\ DOMAIN d[T] = DOMAIN mem[T] \union {k}
      /\ \A j \in DOMAIN mem[T] : d[T][j] = mem[T][j]
      /\ k \notin DOMAIN mem[T] => d[T][k] = r
      /\ \A t \in {N, T} : \A j \in DOMAIN d[t] : P!Parents(t, d[t][j]) \subseteq used
      /\ \A j \in DOMAIN d[T] : d[T][j].project = j[1] /\ d[T][j].user = j[2]
      /\ P!Parents(T, r) = {<<"projects", p>>, <<"users", u>>}
  BY <1>1, MAccepts
<1>5. M!Update(m, N, i, acc) = <<d, OK>>
  <2>1. m[N] = mem[N]
    <3>1. Shaped(mem)
      BY DEF StoresInv
    <3>2. \A t \in TableNames \ {T} : Put(mem, T, k, r)[t] = mem[t]
      BY <1>2, <3>1, PutIs
    <3> QED
      BY <1>2, <3>2 DEF Joined
  <2>2. Has(m, N, i)
    BY <1>1, <2>1 DEF Has
  <2> HIDE DEF m, acc
  <2>3. M!Update(m, N, i, acc) = <<Put(m, N, i, With(m[N][i], acc)), OK>>
    BY <2>2, MStatements
  <2> QED
    BY <2>1, <2>3 DEF Accepted, Marked, m, acc
<1>6. /\ pg' = res[1] /\ mem' = d
      /\ answer' = IF res[2] = OK THEN <<>> ELSE <<res[2], OK>>
      /\ split' = (split \/ res[2] # OK)
      /\ UNCHANGED <<used, group>>
  <2>1. P!AddProjectMembership(pg, p, u, 0) = a /\ M!AddProjectMembership(mem, p, u, 0) = M!Insert(mem, T, k, r)
    BY DEF P!AddProjectMembership, M!AddProjectMembership, Joins
  <2>2. \A db : P!UpdateInvitation(db, i, "accepted") = P!Update(db, N, i, acc)
            /\ M!UpdateInvitation(db, i, "accepted") = M!Update(db, N, i, acc)
    BY DEF P!UpdateInvitation, M!UpdateInvitation
  <2>3. \A db, x : P!WithTx(db, x) = (IF x[2] = OK THEN x ELSE <<db, x[2]>>) /\ M!WithTx(db, x) = x
    BY DEF P!WithTx, M!WithTx, P!OK, OK
  <2> DEFINE q == P!WithTx(pg, IF P!AddProjectMembership(pg, p, u, 0)[2] = OK
                                THEN P!UpdateInvitation(P!AddProjectMembership(pg, p, u, 0)[1], i, "accepted")
                                ELSE P!AddProjectMembership(pg, p, u, 0))
             s == M!WithTx(mem, M!UpdateInvitation(M!AddProjectMembership(mem, p, u, 0)[1], i, "accepted"))
  <2>4. Parting(q, s)
    OBVIOUS
  <2>5. q = res
    <3> HIDE DEF a, acc
    <3> QED
      BY <2>1, <2>2, <2>3
  <2>6. s = <<d, OK>>
    <3> HIDE DEF m, acc, d
    <3> QED
      BY <1>3, <1>5, <2>1, <2>2, <2>3
  <2> HIDE DEF q, s, res, d
  <2>7. Parting(res, <<d, OK>>)
    BY <2>4, <2>5, <2>6
  <2> QED
    BY <2>7 DEF Parting, Call
<1>7. split \in BOOLEAN /\ Sound(pg) /\ Shaped(pg)
  BY DEF StoresInv, Sound
<1>8. \/ a = <<pd, OK>> /\ Sound(pd) /\ ~Has(pg, T, k) /\ ~Lost(pg, T, r)
      \/ a = <<pg, Conflict>>
      \/ a = <<pg, Invalid>>
  BY <1>2, PJoins
<1>9. /\ \A t \in Free : DOMAIN mem[t] \subseteq DOMAIN mem'[t]
                         /\ \A j \in DOMAIN mem'[t] : P!Parents(t, mem'[t][j]) \subseteq used
      /\ \A t \in Free \ {T} : DOMAIN mem'[t] = DOMAIN mem[t]
  <2>1. \A j \in DOMAIN mem["domains"] : P!Parents("domains", mem["domains"][j]) \subseteq used
    BY <1>2 DEF StoresInv, Given
  <2>2. mem'["domains"] = mem["domains"]
    BY <1>2, <1>4, <1>6
  <2> HIDE DEF d
  <2> QED
    BY <1>4, <1>6, <2>1, <2>2 DEF Free
<1>10. \A t \in Free : DOMAIN pg[t] \subseteq DOMAIN mem[t]
  <2>1. \A t \in Free : t \in Real
    BY DEF Free, Real, TableNames
  <2> QED
    BY <2>1 DEF StoresInv, Same
<1>11. \A t \in TableNames \ Free : mem'[t] = mem[t]
  BY <1>4, <1>6 DEF Free
<1>12. \A j \in DOMAIN mem'[T] : mem'[T][j].project = j[1] /\ mem'[T][j].user = j[2]
  BY <1>4, <1>6
<1>13. Shaped(mem')
  BY <1>4, <1>6
<1>14. CASE a = <<pg, Conflict>> \/ a = <<pg, Invalid>>
  <2>1. res[1] = pg /\ res[2] # OK
    BY <1>14 DEF OK, Conflict, Invalid
  <2>2. pg' = pg /\ split' = TRUE
    BY <1>6, <1>7, <2>1
  <2>3. \A j \in DOMAIN pg'["invitations"] :
              /\ pg'["invitations"][j].token = j
              /\ "v" \in DOMAIN pg'["invitations"][j]
              /\ pg'["invitations"][j].v \in {"pending", "accepted", "revoked"}
    BY <2>2 DEF StoresInv, Keyed
  <2>8. \A j \in DOMAIN pg'[N] : mem'[N][j].org = pg'[N][j].org
    <3>1. \A j \in DOMAIN pg[N] : mem[N][j].org = pg[N][j].org /\ j \in DOMAIN mem[N]
      BY <1>2 DEF StoresInv, Keyed, Same
    <3> QED
      BY <1>4, <1>6, <2>2, <3>1
  <2>4. Sound(pg') /\ \A t \in TableNames \ Free : pg'[t] = pg[t] /\ mem'[t] = mem[t]
    BY <1>7, <1>11, <2>2
  <2>5. \A t \in Free : /\ DOMAIN pg[t] \subseteq DOMAIN pg'[t] /\ DOMAIN mem[t] \subseteq DOMAIN mem'[t]
                        /\ DOMAIN pg'[t] \subseteq DOMAIN mem'[t]
                        /\ \A j \in DOMAIN mem'[t] : P!Parents(t, mem'[t][j]) \subseteq used
    BY <1>9, <1>10, <2>2
  <2>6. \A t \in Free \ {T} : DOMAIN pg'[t] = DOMAIN pg[t] /\ DOMAIN mem'[t] = DOMAIN mem[t]
    BY <1>9, <2>2
  <2>7. StoresInv' /\ NoReturn
    <3> USE DEF T
    <3> HIDE DEF d, res
    <3>1. UNCHANGED <<used, group>> /\ split' \in BOOLEAN
      BY <1>6, <2>2
    <3> QED
      BY <1>12, <1>13, <2>2, <2>3, <2>4, <2>5, <2>6, <2>8, <3>1, Parts
  <2> QED
    BY <2>2, <2>7
<1>15. CASE a = <<pd, OK>> /\ Sound(pd) /\ ~Has(pg, T, k) /\ ~Lost(pg, T, r)
  <2>1. /\ \A t \in TableNames \ {T} : pd[t] = pg[t]
        /\ DOMAIN pd[T] = DOMAIN pg[T] \union {k} /\ pd[T][k] = r
        /\ \A j \in DOMAIN pg[T] \ {k} : pd[T][j] = pg[T][j]
    BY <1>2, <1>7, PutIs
  <2>2. pd[N] = pg[N] /\ i \in DOMAIN pd[N]
    BY <1>1, <1>2, <2>1
  <2> HIDE DEF pd
  <2>3. P!Update(pd, N, i, acc) = <<Put(pd, N, i, pw), OK>> /\ Sound(Put(pd, N, i, pw))
    BY <1>15, <2>2, PAccepts
  <2>4. res = <<Put(pd, N, i, pw), OK>>
    <3>1. a[1] = pd /\ a[2] = OK
      BY <1>15
    <3> HIDE DEF a, acc, pw
    <3> QED
      BY <2>3, <3>1
  <2> HIDE DEF pw, res, a, d
  <2>5. pg' = Put(pd, N, i, pw) /\ split' = split /\ answer' = <<>> /\ mem' = d /\ Sound(pg')
        /\ UNCHANGED <<used, group>>
    BY <1>6, <1>7, <2>3, <2>4
  <2>6. /\ \A t \in TableNames \ {N} : pg'[t] = pd[t]
        /\ DOMAIN pg'[N] = DOMAIN pd[N] \union {i} /\ pg'[N][i] = pw
        /\ \A j \in DOMAIN pd[N] \ {i} : pg'[N][j] = pd[N][j]
    <3>1. Shaped(pd) /\ N \in TableNames
      BY <1>2, <1>15 DEF Sound
    <3> QED
      BY <2>5, <3>1, PutIs
  <2>7. /\ \A t \in TableNames \ {N, T} : pg'[t] = pg[t]
        /\ DOMAIN pg'[N] = DOMAIN pg[N] /\ pg'[N][i] = pw /\ \A j \in DOMAIN pg[N] \ {i} : pg'[N][j] = pg[N][j]
        /\ DOMAIN pg'[T] = DOMAIN pg[T] \union {k} /\ pg'[T][k] = r
        /\ \A j \in DOMAIN pg[T] : pg'[T][j] = pg[T][j]
    <3>1. k \notin DOMAIN pg[T]
      BY <1>15 DEF Has
    <3> QED
      BY <1>2, <2>1, <2>2, <2>6, <3>1
  <2>8. pw = With(pg[N][i], acc)
    BY <2>2 DEF pw
  <2>9. /\ "token" \in DOMAIN pg[N][i] /\ "v" \in DOMAIN pg[N][i]
    <3>1. "token" \in Columns("invitations")
      BY DEF Columns, Indexed
    <3> QED
      BY <1>1, <1>2, <1>7, <3>1 DEF StoresInv, Keyed, Shaped
  <2>10. \A j \in DOMAIN pg'["invitations"] :
              /\ pg'["invitations"][j].token = j
              /\ "v" \in DOMAIN pg'["invitations"][j]
              /\ pg'["invitations"][j].v \in {"pending", "accepted", "revoked"}
    <3>1. \A j \in DOMAIN pg[N] :
              /\ pg[N][j].token = j
              /\ "v" \in DOMAIN pg[N][j] /\ pg[N][j].v \in {"pending", "accepted", "revoked"}
      BY DEF StoresInv, Keyed
    <3>2. pw.token = i /\ "v" \in DOMAIN pw /\ pw.v = "accepted"
      BY <1>1, <2>8, <2>9, <3>1 DEF With
    <3> QED
      BY <2>7, <3>1, <3>2
  <2>17. \A j \in DOMAIN pg'[N] : mem'[N][j].org = pg'[N][j].org
    <3>1. \A j \in DOMAIN pg[N] : mem[N][j].org = pg[N][j].org /\ j \in DOMAIN mem[N]
      BY <1>2 DEF StoresInv, Keyed, Same
    <3>2. "org" \in DOMAIN pg[N][i]
      <4>1. <<"invitations", "org", "organizations">> \in P!References
        BY DEF P!References
      <4>2. "org" \in Columns("invitations")
        BY <4>1 DEF Columns
      <4> QED
        BY <1>1, <1>2, <1>7, <4>2 DEF Shaped
    <3>3. pw.org = pg[N][i].org
      BY <2>8, <3>2 DEF With
    <3> QED
      BY <1>4, <2>5, <2>7, <3>1, <3>3
  <2>11. \A t \in Free : /\ DOMAIN pg[t] \subseteq DOMAIN pg'[t] /\ DOMAIN mem[t] \subseteq DOMAIN mem'[t]
                         /\ DOMAIN pg'[t] \subseteq DOMAIN mem'[t]
                         /\ \A j \in DOMAIN mem'[t] : P!Parents(t, mem'[t][j]) \subseteq used
    <3>1. \A t \in Free : DOMAIN pg[t] \subseteq DOMAIN pg'[t] /\ DOMAIN pg'[t] \subseteq DOMAIN mem'[t]
      <4>1. DOMAIN mem'[T] = DOMAIN mem[T] \union {k} /\ DOMAIN mem'[N] = DOMAIN mem[N]
            /\ mem'["domains"] = mem["domains"]
        BY <1>2, <1>4, <2>5
      <4>2. pg'["domains"] = pg["domains"]
        BY <1>2, <2>7
      <4> QED
        BY <1>10, <2>7, <4>1, <4>2 DEF Free
    <3> QED
      BY <1>9, <3>1
  <2>12. \A t \in Free \ {T} : DOMAIN pg'[t] = DOMAIN pg[t] /\ DOMAIN mem'[t] = DOMAIN mem[t]
    <3>1. pg'["domains"] = pg["domains"]
      BY <1>2, <2>7
    <3> QED
      BY <1>9, <2>7, <3>1 DEF Free
  <2>13. \A t \in TableNames \ Free : pg'[t] = pg[t] /\ mem'[t] = mem[t]
    BY <1>11, <2>7 DEF Free
  <2>14. \A t, row : Lost(pg', t, row) <=> Lost(pg, t, row)
    <3>1. \A t \in Base : pg'[t] = pg[t]
      BY <2>7, BaseSame DEF Base
    <3> QED
      BY <3>1, ParentTables DEF Lost, Has
  <2>15. ASSUME ~split, NEW t \in Free PROVE IF t \in Firm THEN pg'[t] = mem'[t] ELSE Alike(t)'
    <3>0. pg[N] = mem[N] /\ Alike(T) /\ Alike("domains")
      BY <1>2, <2>15 DEF StoresInv, Same, Exempt
    <3>1. CASE t = "domains"
      <4>1. pg'["domains"] = pg["domains"] /\ mem'["domains"] = mem["domains"]
        BY <1>2, <1>4, <2>5, <2>7
      <4>2. Alike("domains")'
        BY <2>14, <3>0, <4>1 DEF Alike
      <4> QED
        BY <1>2, <3>1, <4>2
    <3>2. CASE t = N
      <4>1. pw = w
        BY <2>8, <3>0 DEF Marked
      <4>2. DOMAIN pg'[N] = DOMAIN mem'[N] /\ \A j \in DOMAIN pg'[N] : pg'[N][j] = mem'[N][j]
        <5>1. DOMAIN mem'[N] = DOMAIN pg[N] /\ mem'[N][i] = pw
              /\ \A j \in DOMAIN pg[N] \ {i} : mem'[N][j] = pg[N][j]
          BY <1>4, <2>5, <3>0, <4>1
        <5> QED
          BY <2>7, <5>1
      <4>3. Table(pg'[N]) /\ Table(mem'[N])
        BY <1>2, <1>13, <2>5 DEF Sound, Shaped
      <4> QED
        BY <1>2, <3>2, <4>2, <4>3, SameTable
    <3>3. CASE t = T
      <4>1. k \notin DOMAIN mem[T]
        <5> SUFFICES ASSUME k \in DOMAIN mem[T] PROVE FALSE
          OBVIOUS
        <5>1. mem[T][k].project = p /\ mem[T][k].user = u
          BY DEF StoresInv, Keyed
        <5>2. P!Parents(T, mem[T][k]) = {<<"projects", p>>, <<"users", u>>}
          BY <5>1, TwoParents
        <5>3. ~Lost(pg, T, mem[T][k])
          BY <1>4, <1>15, <5>2 DEF Lost
        <5> QED
          BY <1>15, <3>0, <5>3 DEF Alike, Has
      <4>2. DOMAIN mem'[T] = DOMAIN mem[T] \union {k} /\ mem'[T][k] = r
            /\ \A j \in DOMAIN mem[T] : mem'[T][j] = mem[T][j]
        BY <1>4, <2>5, <4>1
      <4>3. \A j \in DOMAIN pg'[T] : j \in DOMAIN mem'[T] /\ mem'[T][j] = pg'[T][j]
        BY <2>7, <3>0, <4>2 DEF Alike
      <4>4. ASSUME NEW j \in DOMAIN mem'[T], ~Lost(pg', T, mem'[T][j]) PROVE j \in DOMAIN pg'[T]
        <5>1. CASE j = k
          BY <2>7, <5>1
        <5>2. CASE j # k
          <6>1. j \in DOMAIN mem[T] /\ ~Lost(pg, T, mem[T][j])
            BY <2>14, <4>2, <4>4, <5>2
          <6> QED
            BY <2>7, <3>0, <6>1 DEF Alike
        <5> QED
          BY <5>1, <5>2
      <4>5. Alike(T)'
        BY <4>3, <4>4 DEF Alike
      <4> QED
        BY <1>2, <3>3, <4>5
    <3> QED
      BY <3>1, <3>2, <3>3 DEF Free
  <2>16. StoresInv' /\ NoReturn
    <3>1. split' \in BOOLEAN
      BY <1>7, <2>5
    <3> QED
      BY <1>12, <1>13, <2>5, <2>10, <2>11, <2>12, <2>13, <2>15, <2>17, <3>1, Parts
  <2> QED
    BY <2>5, <2>16
<1> QED
  BY <1>8, <1>14, <1>15

-----------------------------------------------------------------------------
(* The calls.                                                              *)

Answered ==
    \/ split' \/ answer' = <<>>
    \/ answer'[1] \in {NotFound, Invalid} /\ (Orphans \/ Orphans')
    \/ answer' = <<OK, NotFound>> /\ group = "api"

Holds == StoresInv' /\ NoReturn /\ Answered

\* Columns that no index and no reference looks at.
LEMMA Plain ==
    ASSUME NEW t
    PROVE  /\ "v" \notin Columns(t) /\ "revoked" \notin Columns(t) /\ "expired" \notin Columns(t)
           /\ "used" \notin Columns(t)
           /\ \A x : /\ DOMAIN [v |-> x] \intersect Columns(t) = {}
                     /\ DOMAIN [revoked |-> x] \intersect Columns(t) = {}
                     /\ DOMAIN [expired |-> x] \intersect Columns(t) = {}
                     /\ DOMAIN [used |-> x] \intersect Columns(t) = {}
<1>1. \A c \in {"v", "revoked", "expired", "used"} : c \notin Indexed(t)
  BY DEF Indexed
<1>2. \A q \in P!References : q[2] \notin {"v", "revoked", "expired", "used"}
  BY DEF P!References
<1>3. /\ "v" \notin Columns(t) /\ "revoked" \notin Columns(t) /\ "expired" \notin Columns(t)
      /\ "used" \notin Columns(t)
  BY <1>1, <1>2 DEF Columns
<1> QED
  BY <1>3

\* An update.
LEMMA UpdateHolds ==
    ASSUME StoresInv, NEW t \in Real \ {"project_memberships"}, NEW k, NEW cols,
        DOMAIN cols \intersect Columns(t) = {},
           t = "invitations" => DOMAIN cols = {"v"} /\ cols.v \in {"pending", "accepted", "revoked"},
           Both(P!Update(pg, t, k, cols), M!Update(mem, t, k, cols))
    PROVE  Holds
<1> DEFINE p == P!Update(pg, t, k, cols)
           m == M!Update(mem, t, k, cols)
<1>1. /\ pg' = p[1] /\ mem' = m[1] /\ UNCHANGED <<used, split, group>>
      /\ answer' = IF p[2] = m[2] THEN <<>> ELSE <<p[2], m[2]>>
  BY DEF Both, Call
<1>2. /\ StoresInv' /\ NoReturn
      /\ p[2] = IF Has(pg, t, k) THEN OK ELSE NotFound
      /\ m[2] = IF Has(mem, t, k) THEN OK ELSE NotFound
      /\ Has(pg, t, k) => Has(mem, t, k)
      /\ Has(mem, t, k) /\ ~Has(pg, t, k) /\ ~split => Orphans'
  BY <1>1, Updates
<1> HIDE DEF p, m
<1>3. Answered
  <2>1. CASE p[2] = m[2]
    BY <1>1, <2>1 DEF Answered
  <2>2. CASE p[2] # m[2]
    <3>1. p[2] = NotFound /\ (split \/ Orphans')
      BY <1>2, <2>2
    <3>2. answer'[1] = NotFound /\ split \in BOOLEAN /\ split' = split
      BY <1>1, <2>2, <3>1 DEF StoresInv
    <3> QED
      BY <3>1, <3>2 DEF Answered
  <2> QED
    BY <2>1, <2>2
<1> QED
  BY <1>2, <1>3 DEF Holds

\* Nothing is written and both answer alike.
LEMMA SameCall ==
    ASSUME StoresInv, NEW x, Both(<<pg, x>>, <<mem, x>>)
    PROVE  Holds
<1>1. pg' = pg /\ mem' = mem /\ answer' = <<>> /\ UNCHANGED <<used, split, group>>
  BY DEF Both, Call
<1> QED
  BY <1>1, Stays DEF Holds, Answered

\* The calls that update one row by its key.
LEMMA PlainUpdates ==
    ASSUME StoresInv,
           \/ UpdateUser \/ UpdateOrg \/ UpdateMembershipRole \/ UpdateApp \/ UpdateBuild \/ UpdateRelease
           \/ UpdateDatabase \/ UpdateService \/ RevokeRefreshToken
    PROVE  Holds
<1>1. \A t \in {"users", "organizations", "memberships", "apps", "builds", "releases", "databases",
          "services", "refresh_tokens"} :
        t \in Real \ {"project_memberships"} /\ t # "invitations"
  BY DEF Real, TableNames
<1>2. ASSUME NEW t \in {"users", "organizations", "memberships", "apps", "builds", "releases",
          "databases", "services"},
             NEW k, NEW v, Both(P!Update(pg, t, k, [v |-> v]), M!Update(mem, t, k, [v |-> v]))
      PROVE  Holds
  <2> DEFINE cols == [v |-> v]
  <2>1. DOMAIN cols \intersect Columns(t) = {}
    BY Plain
  <2> HIDE DEF cols
  <2>2. Both(P!Update(pg, t, k, cols), M!Update(mem, t, k, cols))
    BY <1>2 DEF cols
  <2> QED
    BY <1>1, <2>1, <2>2, UpdateHolds
<1>3. CASE UpdateUser
  <2>1. PICK u, e, v : Both(P!UpdateUser(pg, u, e, v), M!UpdateUser(mem, u, e, v))
    BY <1>3 DEF UpdateUser
  <2> QED
    BY <1>2, <2>1 DEF P!UpdateUser, M!UpdateUser
<1>4. CASE UpdateOrg
  <2>1. PICK o, v : Both(P!UpdateOrg(pg, o, v), M!UpdateOrg(mem, o, v))
    BY <1>4 DEF UpdateOrg
  <2> QED
    BY <1>2, <2>1 DEF P!UpdateOrg, M!UpdateOrg
<1>5. CASE UpdateMembershipRole
  <2>1. PICK o, u, v : Both(P!UpdateMembershipRole(pg, o, u, v), M!UpdateMembershipRole(mem, o, u, v))
    BY <1>5 DEF UpdateMembershipRole
  <2> QED
    BY <1>2, <2>1 DEF P!UpdateMembershipRole, M!UpdateMembershipRole
<1>6. CASE UpdateApp
  <2>1. PICK a, v : Both(P!UpdateApp(pg, a, v), M!UpdateApp(mem, a, v))
    BY <1>6 DEF UpdateApp
  <2> QED
    BY <1>2, <2>1 DEF P!UpdateApp, M!UpdateApp
<1>7. CASE UpdateBuild
  <2>1. PICK b, v : Both(P!UpdateBuild(pg, b, v), M!UpdateBuild(mem, b, v))
    BY <1>7 DEF UpdateBuild
  <2> QED
    BY <1>2, <2>1 DEF P!UpdateBuild, M!UpdateBuild
<1>8. CASE UpdateRelease
  <2>1. PICK r, v : Both(P!UpdateRelease(pg, r, v), M!UpdateRelease(mem, r, v))
    BY <1>8 DEF UpdateRelease
  <2> QED
    BY <1>2, <2>1 DEF P!UpdateRelease, M!UpdateRelease
<1>9. CASE UpdateDatabase
  <2>1. PICK d, v : Both(P!UpdateDatabase(pg, d, v), M!UpdateDatabase(mem, d, v))
    BY <1>9 DEF UpdateDatabase
  <2> QED
    BY <1>2, <2>1 DEF P!UpdateDatabase, M!UpdateDatabase
<1>10. CASE UpdateService
  <2>1. PICK s, v : Both(P!UpdateService(pg, s, v), M!UpdateService(mem, s, v))
    BY <1>10 DEF UpdateService
  <2> QED
    BY <1>2, <2>1 DEF P!UpdateService, M!UpdateService
<1>11. CASE RevokeRefreshToken
  <2>1. PICK k : Both(P!RevokeRefreshToken(pg, k), M!RevokeRefreshToken(mem, k))
    BY <1>11 DEF RevokeRefreshToken
  <2> DEFINE cols == [revoked |-> TRUE]
  <2>2. DOMAIN cols \intersect Columns("refresh_tokens") = {}
    BY Plain
  <2>3. Both(P!Update(pg, "refresh_tokens", k, cols), M!Update(mem, "refresh_tokens", k, cols))
    BY <2>1 DEF P!RevokeRefreshToken, M!RevokeRefreshToken
  <2> HIDE DEF cols
  <2> QED
    BY <1>1, <2>2, <2>3, UpdateHolds
<1> QED
  BY <1>3, <1>4, <1>5, <1>6, <1>7, <1>8, <1>9, <1>10, <1>11

\* The clock passes the expiry of a token.
LEMMA ExpireHolds == ASSUME StoresInv, Expire PROVE Holds
<1> DEFINE t == "refresh_tokens"
           cols == [expired |-> TRUE]
<1>1. PICK k : Both(P!Update(pg, t, k, cols), M!Update(mem, t, k, cols))
  BY DEF Expire
<1>2. DOMAIN cols \intersect Columns(t) = {} /\ t \in Real \ {"project_memberships"} /\ t # "invitations"
  BY Plain DEF Real, TableNames
<1> HIDE DEF cols
<1> QED
  BY <1>1, <1>2, UpdateHolds

\* An invitation is revoked in its organization only.
LEMMA RevokeInvitationHolds == ASSUME StoresInv, RevokeInvitation PROVE Holds
<1> DEFINE t == "invitations"
           cols == [v |-> "revoked"]
<1>1. PICK i, o : Both(P!RevokeInvitation(pg, o, i), M!RevokeInvitation(mem, o, i))
  BY DEF RevokeInvitation
<1>2. /\ DOMAIN cols \intersect Columns(t) = {} /\ t \in Real \ {"project_memberships"}
      /\ DOMAIN cols = {"v"} /\ cols.v \in {"pending", "accepted", "revoked"}
  BY Plain DEF Real, TableNames
<1>3. DOMAIN mem[t] = DOMAIN pg[t]
  <2>1. DOMAIN pg[t] \subseteq DOMAIN mem[t]
    BY <1>2 DEF StoresInv, Same
  <2>2. \A k \in DOMAIN mem[t] : <<t, k>> \in used
    BY DEF StoresInv, Given, Listed
  <2> QED
    BY <2>1, <2>2, KnownThere
<1>4. \A k \in DOMAIN pg[t] : mem[t][k].org = pg[t][k].org
  BY DEF StoresInv, Keyed
<1>5. i \in DOMAIN P!Where(pg[t], "org", o) <=> i \in DOMAIN M!Where(mem[t], "org", o)
  BY <1>3, <1>4 DEF P!Where, M!Where, P!Only, M!Only
<1>6. /\ P!RevokeInvitation(pg, o, i) = IF i \in DOMAIN P!Where(pg[t], "org", o)
          THEN P!Update(pg, t, i, cols) ELSE <<pg, NotFound>>
      /\ M!RevokeInvitation(mem, o, i) = IF i \in DOMAIN M!Where(mem[t], "org", o)
          THEN M!Update(mem, t, i, cols) ELSE <<mem, NotFound>>
  BY DEF P!RevokeInvitation, M!RevokeInvitation, P!NotFound, M!NotFound, NotFound
<1> HIDE DEF cols
<1>7. CASE i \in DOMAIN P!Where(pg[t], "org", o)
  BY <1>1, <1>2, <1>5, <1>6, <1>7, UpdateHolds
<1>8. CASE i \notin DOMAIN P!Where(pg[t], "org", o)
  BY <1>1, <1>5, <1>6, <1>8, SameCall
<1> QED
  BY <1>7, <1>8

\* A table that is the same in both.
LEMMA FirmSame ==
    ASSUME StoresInv, NEW t \in Firm \ {"invitations"}
    PROVE  pg[t] = mem[t] /\ t \in Real /\ t \in TableNames
  BY DEF StoresInv, Same, Firm, Loose, Exempt, Real

\* A mark that is set once.
LEMMA MarkHolds ==
    ASSUME StoresInv, NEW t \in {"refresh_tokens", "password_reset_tokens"}, NEW k, NEW cols,
           DOMAIN cols \intersect Columns(t) = {}, NEW col,
           LET p == P!Update(pg, t, k, cols)
               m == M!Update(mem, t, k, cols) IN
           Both(IF ~Has(pg, t, k) THEN <<pg, NotFound>> ELSE IF pg[t][k][col] THEN <<pg, No>> ELSE <<p[1], Yes>>,
                IF ~Has(mem, t, k) THEN <<mem, NotFound>> ELSE IF mem[t][k][col] THEN <<mem, No>>
                    ELSE <<m[1], Yes>>)
    PROVE  Holds
<1> DEFINE p == P!Update(pg, t, k, cols)
           m == M!Update(mem, t, k, cols)
           x == IF ~Has(pg, t, k) THEN <<pg, NotFound>> ELSE IF pg[t][k][col] THEN <<pg, No>> ELSE <<p[1], Yes>>
           y == IF ~Has(mem, t, k) THEN <<mem, NotFound>> ELSE IF mem[t][k][col] THEN <<mem, No>> ELSE <<m[1], Yes>>
<1>1. /\ pg' = x[1] /\ mem' = y[1] /\ UNCHANGED <<used, split, group>>
      /\ answer' = IF x[2] = y[2] THEN <<>> ELSE <<x[2], y[2]>>
  BY DEF Both, Call
<1>2. pg[t] = mem[t] /\ t \in Real \ {"project_memberships"} /\ t # "invitations"
  BY FirmSame DEF Firm, Real, Loose, TableNames
<1>3. Has(pg, t, k) <=> Has(mem, t, k)
  BY <1>2 DEF Has
<1> HIDE DEF p, m
<1>4. CASE ~Has(pg, t, k)
  <2>1. pg' = pg /\ mem' = mem /\ answer' = <<>>
    BY <1>1, <1>3, <1>4
  <2> QED
    BY <1>1, <2>1, Stays DEF Holds, Answered
<1>5. CASE Has(pg, t, k) /\ pg[t][k][col]
  <2>1. pg' = pg /\ mem' = mem /\ answer' = <<>>
    BY <1>1, <1>2, <1>3, <1>5
  <2> QED
    BY <1>1, <2>1, Stays DEF Holds, Answered
<1>6. CASE Has(pg, t, k) /\ ~pg[t][k][col]
  <2>1. pg' = p[1] /\ mem' = m[1] /\ answer' = <<>>
    BY <1>1, <1>2, <1>3, <1>6
  <2>2. StoresInv' /\ NoReturn
    BY <1>1, <1>2, <2>1, Updates DEF p, m
  <2> QED
    BY <2>1, <2>2 DEF Holds, Answered
<1> QED
  BY <1>4, <1>5, <1>6

\* RevokeRefreshTokenIfActive: the rotation is won once, in both.
LEMMA RevokeIfActiveHolds == ASSUME StoresInv, RevokeRefreshTokenIfActive PROVE Holds
<1> DEFINE t == "refresh_tokens"
           cols == [revoked |-> TRUE]
<1>1. PICK k : Both(P!RevokeRefreshTokenIfActive(pg, k), M!RevokeRefreshTokenIfActive(mem, k))
  BY DEF RevokeRefreshTokenIfActive
<1>2. DOMAIN cols \intersect Columns(t) = {}
  BY Plain
<1>3. Both(IF ~Has(pg, t, k) THEN <<pg, NotFound>> ELSE IF pg[t][k]["revoked"] THEN <<pg, No>>
          ELSE <<P!Update(pg, t, k, cols)[1], Yes>>,
           IF ~Has(mem, t, k) THEN <<mem, NotFound>> ELSE IF mem[t][k]["revoked"] THEN <<mem, No>>
               ELSE <<M!Update(mem, t, k, cols)[1], Yes>>)
  BY <1>1 DEF P!RevokeRefreshTokenIfActive, M!RevokeRefreshTokenIfActive, P!RevokeRefreshToken,
     M!RevokeRefreshToken,
              P!Has, M!Has, Has, P!NotFound, M!NotFound, NotFound, P!No, M!No, No, P!Yes, M!Yes, Yes
<1> HIDE DEF cols
<1> QED
  BY <1>2, <1>3, MarkHolds

\* ConsumePasswordResetToken: the link is used once, in both.
LEMMA ConsumeHolds == ASSUME StoresInv, ConsumePasswordResetToken PROVE Holds
<1> DEFINE t == "password_reset_tokens"
           cols == [used |-> TRUE]
<1>1. PICK k : Both(P!ConsumePasswordResetToken(pg, k), M!ConsumePasswordResetToken(mem, k))
  BY DEF ConsumePasswordResetToken
<1>2. DOMAIN cols \intersect Columns(t) = {}
  BY Plain
<1>3. Both(IF ~Has(pg, t, k) THEN <<pg, NotFound>> ELSE IF pg[t][k]["used"] THEN <<pg, No>>
          ELSE <<P!Update(pg, t, k, cols)[1], Yes>>,
           IF ~Has(mem, t, k) THEN <<mem, NotFound>> ELSE IF mem[t][k]["used"] THEN <<mem, No>>
               ELSE <<M!Update(mem, t, k, cols)[1], Yes>>)
  BY <1>1 DEF P!ConsumePasswordResetToken, M!ConsumePasswordResetToken,
              P!Has, M!Has, Has, P!NotFound, M!NotFound, NotFound, P!No, M!No, No, P!Yes, M!Yes, Yes
<1> HIDE DEF cols
<1> QED
  BY <1>2, <1>3, MarkHolds

\* A touch of a token: nothing is said of a missing row in PostgreSQL.
LEMMA TouchHolds == ASSUME StoresInv, group = "api", TouchApiToken PROVE Holds
<1> DEFINE t == "api_tokens"
<1>1. PICK k, v : Both(P!TouchApiToken(pg, k, v), M!TouchApiToken(mem, k, v))
  BY DEF TouchApiToken
<1> DEFINE cols == [v |-> v]
           p == P!Update(pg, t, k, cols)
           m == M!Update(mem, t, k, cols)
<1>2. DOMAIN cols \intersect Columns(t) = {} /\ t \in Real \ {"project_memberships"} /\ t # "invitations"
      /\ pg[t] = mem[t]
  BY Plain, FirmSame DEF Real, TableNames, Firm, Loose
<1>3. /\ pg' = p[1] /\ mem' = m[1] /\ UNCHANGED <<used, split, group>>
      /\ answer' = IF OK = m[2] THEN <<>> ELSE <<OK, m[2]>>
  BY <1>1 DEF Both, Call, P!TouchApiToken, M!TouchApiToken, P!OK, OK
<1> HIDE DEF cols
<1>4. StoresInv' /\ NoReturn /\ m[2] = IF Has(mem, t, k) THEN OK ELSE NotFound
  BY <1>2, <1>3, Updates
<1>5. Answered
  <2> HIDE DEF m
  <2> QED
    BY <1>3, <1>4 DEF Answered
<1> QED
  BY <1>4, <1>5 DEF Holds

\* The tokens of a user are marked, all at once.
LEMMA RewriteHolds ==
    ASSUME StoresInv, NEW t \in {"refresh_tokens", "password_reset_tokens"}, NEW x, NEW cols,
        DOMAIN cols \intersect Columns(t) = {},
           Both(<<Rewrite(pg, t, "user", x, cols), OK>>, <<Rewrite(mem, t, "user", x, cols), OK>>)
    PROVE  Holds
<1>1. /\ pg' = Rewrite(pg, t, "user", x, cols) /\ mem' = Rewrite(mem, t, "user", x, cols)
      /\ UNCHANGED <<used, split, group>> /\ answer' = <<>>
  BY DEF Both, Call
<1>2. StoresInv' /\ NoReturn
  BY <1>1, BothRewrite
<1> QED
  BY <1>1, <1>2 DEF Holds, Answered

\* All sessions of a user end; all links of a user are used up.
LEMMA RevokeAllHolds == ASSUME StoresInv, RevokeAllUserRefreshTokens \/ InvalidateUserPasswordResetTokens
    PROVE Holds
<1>1. \A db, t, x, cols : P!Rewrite(db, t, "user", x, cols) = Rewrite(db, t, "user", x, cols)
                          /\ M!Rewrite(db, t, "user", x, cols) = Rewrite(db, t, "user", x, cols)
  BY DEF P!Rewrite, M!Rewrite, Rewrite, P!With, M!With, With
<1>2. CASE RevokeAllUserRefreshTokens
  <2> DEFINE cols == [revoked |-> TRUE]
  <2>1. PICK u : Both(P!RevokeAllUserRefreshTokens(pg, u), M!RevokeAllUserRefreshTokens(mem, u))
    BY <1>2 DEF RevokeAllUserRefreshTokens
  <2>2. /\ P!RevokeAllUserRefreshTokens(pg, u) = <<P!Rewrite(pg, "refresh_tokens", "user", u, cols), OK>>
        /\ M!RevokeAllUserRefreshTokens(mem, u) = <<M!Rewrite(mem, "refresh_tokens", "user", u, cols), OK>>
    BY DEF P!RevokeAllUserRefreshTokens, M!RevokeAllUserRefreshTokens, P!OK, M!OK, OK
  <2>3. DOMAIN cols \intersect Columns("refresh_tokens") = {}
    BY Plain
  <2> HIDE DEF cols
  <2>4. Both(<<Rewrite(pg, "refresh_tokens", "user", u, cols), OK>>,
            <<Rewrite(mem, "refresh_tokens", "user", u, cols), OK>>)
    BY <1>1, <2>1, <2>2
  <2> QED
    BY <2>3, <2>4, RewriteHolds
<1>3. CASE InvalidateUserPasswordResetTokens
  <2> DEFINE cols == [used |-> TRUE]
  <2>1. PICK u : Both(P!InvalidateUserPasswordResetTokens(pg, u), M!InvalidateUserPasswordResetTokens(mem, u))
    BY <1>3 DEF InvalidateUserPasswordResetTokens
  <2>2. /\ P!InvalidateUserPasswordResetTokens(pg, u) =
            <<P!Rewrite(pg, "password_reset_tokens", "user", u, cols), OK>>
        /\ M!InvalidateUserPasswordResetTokens(mem, u) =
            <<M!Rewrite(mem, "password_reset_tokens", "user", u, cols), OK>>
    BY DEF P!InvalidateUserPasswordResetTokens, M!InvalidateUserPasswordResetTokens, P!OK, M!OK, OK
  <2>3. DOMAIN cols \intersect Columns("password_reset_tokens") = {}
    BY Plain
  <2> HIDE DEF cols
  <2>4. Both(<<Rewrite(pg, "password_reset_tokens", "user", u, cols), OK>>,
             <<Rewrite(mem, "password_reset_tokens", "user", u, cols), OK>>)
    BY <1>1, <2>1, <2>2
  <2> QED
    BY <2>3, <2>4, RewriteHolds
<1> QED
  BY <1>2, <1>3

-----------------------------------------------------------------------------
(* Rows that are deleted.                                                  *)

\* A delete by the key is answered alike, except for a row that lost its parent.
LEMMA DeleteHolds ==
    ASSUME StoresInv, NEW t \in Real \ {"organizations", "users", "invitations", "usage_records"}, NEW k,
           Both(P!Delete(pg, t, k), M!Delete(mem, t, k))
    PROVE  Holds
<1> DEFINE p == P!Delete(pg, t, k)
           m == M!Delete(mem, t, k)
<1>1. /\ pg' = p[1] /\ mem' = m[1] /\ UNCHANGED <<used, split, group>>
      /\ answer' = IF p[2] = m[2] THEN <<>> ELSE <<p[2], m[2]>>
  BY DEF Both, Call
<1>2. /\ StoresInv' /\ NoReturn
      /\ \/ p[2] = m[2]
         \/ p[2] = NotFound /\ (split \/ Orphans)
  BY <1>1, Deletes
<1> HIDE DEF p, m
<1>3. split' = split /\ split \in BOOLEAN
  BY <1>1 DEF StoresInv
<1>4. Answered
  BY <1>1, <1>2, <1>3 DEF Answered
<1> QED
  BY <1>2, <1>4 DEF Holds

\* The calls that delete one row by its key.
LEMMA PlainDeletes ==
    ASSUME StoresInv,
           \/ RemoveMembership \/ DeleteApp \/ DeleteDomain \/ DeleteDatabase \/ DeleteService
           \/ DeletePlan \/ DeletePricingComponent \/ DeleteServiceTemplate
    PROVE  Holds
<1>1. \A t \in {"memberships", "apps", "domains", "databases", "services", "plans", "pricing_components",
          "service_templates"} :
        t \in Real \ {"organizations", "users", "invitations", "usage_records"}
  BY DEF Real, TableNames
<1>2. CASE RemoveMembership
  <2>1. PICK o, u : Both(P!RemoveMembership(pg, o, u), M!RemoveMembership(mem, o, u))
    BY <1>2 DEF RemoveMembership
  <2> QED
    BY <1>1, <2>1, DeleteHolds DEF P!RemoveMembership, M!RemoveMembership
<1>3. CASE DeleteApp
  <2>1. PICK a : Both(P!DeleteApp(pg, a), M!DeleteApp(mem, a))
    BY <1>3 DEF DeleteApp
  <2> QED
    BY <1>1, <2>1, DeleteHolds DEF P!DeleteApp, M!DeleteApp
<1>4. CASE DeleteDomain
  <2>1. PICK d : Both(P!DeleteDomain(pg, d), M!DeleteDomain(mem, d))
    BY <1>4 DEF DeleteDomain
  <2> QED
    BY <1>1, <2>1, DeleteHolds DEF P!DeleteDomain, M!DeleteDomain
<1>5. CASE DeleteDatabase
  <2>1. PICK d : Both(P!DeleteDatabase(pg, d), M!DeleteDatabase(mem, d))
    BY <1>5 DEF DeleteDatabase
  <2> QED
    BY <1>1, <2>1, DeleteHolds DEF P!DeleteDatabase, M!DeleteDatabase
<1>6. CASE DeleteService
  <2>1. PICK s : Both(P!DeleteService(pg, s), M!DeleteService(mem, s))
    BY <1>6 DEF DeleteService
  <2> QED
    BY <1>1, <2>1, DeleteHolds DEF P!DeleteService, M!DeleteService
<1>7. CASE DeletePlan
  <2>1. PICK k : Both(P!DeletePlan(pg, k), M!DeletePlan(mem, k))
    BY <1>7 DEF DeletePlan
  <2> QED
    BY <1>1, <2>1, DeleteHolds DEF P!DeletePlan, M!DeletePlan
<1>8. CASE DeletePricingComponent
  <2>1. PICK k : Both(P!DeletePricingComponent(pg, k), M!DeletePricingComponent(mem, k))
    BY <1>8 DEF DeletePricingComponent
  <2> QED
    BY <1>1, <2>1, DeleteHolds DEF P!DeletePricingComponent, M!DeletePricingComponent
<1>9. CASE DeleteServiceTemplate
  <2>1. PICK k : Both(P!DeleteServiceTemplate(pg, k), M!DeleteServiceTemplate(mem, k))
    BY <1>9 DEF DeleteServiceTemplate
  <2> QED
    BY <1>1, <2>1, DeleteHolds DEF P!DeleteServiceTemplate, M!DeleteServiceTemplate
<1> QED
  BY <1>2, <1>3, <1>4, <1>5, <1>6, <1>7, <1>8, <1>9

\* The tables are read alike by both modules.
LEMMA ReadsAlike ==
    ASSUME NEW f, NEW col, NEW x
    PROVE  /\ P!Where(f, col, x) = Where(f, col, x) /\ M!Where(f, col, x) = Where(f, col, x)
           /\ P!Empty = Empty /\ M!Empty = Empty
  BY DEF P!Where, M!Where, Where, P!Only, M!Only, Only, P!Empty, M!Empty, Empty, P!Nothing, M!Nothing, Nothing

\* DeleteProject refuses a project with apps or services, in both.
LEMMA DeleteProjectHolds == ASSUME StoresInv, DeleteProject PROVE Holds
<1> DEFINE t == "projects"
<1>1. PICK p, o : Both(P!DeleteProject(pg, o, p), M!DeleteProject(mem, o, p))
  BY DEF DeleteProject
<1>2. t \in Real \ {"organizations", "users", "invitations", "usage_records"}
  BY DEF Real, TableNames
<1>3. pg[t] = mem[t] /\ \A s \in {"apps", "services"} : pg[s] = mem[s]
  <2>1. {"projects", "apps", "services"} \subseteq Firm \ {"invitations"}
    BY DEF Firm, Real, TableNames, Loose
  <2> QED
    BY <2>1, FirmSame
<1> DEFINE there == p \in DOMAIN Where(mem[t], "org", o)
           busy == \E s \in {"apps", "services"} : Where(mem[s], "project", p) # Empty
<1>4. P!DeleteProject(pg, o, p) = IF ~there THEN <<pg, NotFound>> ELSE IF busy THEN <<pg, Conflict>>
          ELSE P!Delete(pg, t, p)
  <2>1. P!DeleteProject(pg, o, p) =
          IF p \notin DOMAIN P!Where(pg[t], "org", o) THEN <<pg, NotFound>>
          ELSE IF \E s \in {"apps", "services"} : P!Where(pg[s], "project", p) # P!Empty
              THEN <<pg, Conflict>> ELSE P!Delete(pg, t, p)
    BY DEF P!DeleteProject, P!NotFound, NotFound, P!Conflict, Conflict
  <2> QED
    BY <1>3, <2>1, ReadsAlike
<1>5. M!DeleteProject(mem, o, p) = IF ~there THEN <<mem, NotFound>> ELSE IF busy THEN <<mem, Conflict>>
          ELSE M!Delete(mem, t, p)
  <2>1. M!DeleteProject(mem, o, p) =
          IF p \notin DOMAIN M!Where(mem[t], "org", o) THEN <<mem, NotFound>>
          ELSE IF \E s \in {"apps", "services"} : M!Where(mem[s], "project", p) # M!Empty
              THEN <<mem, Conflict>> ELSE M!Delete(mem, t, p)
    BY DEF M!DeleteProject, M!NotFound, NotFound, M!Conflict, Conflict
  <2> QED
    BY <2>1, ReadsAlike
<1> HIDE DEF there, busy
<1>6. CASE ~there
  BY <1>1, <1>4, <1>5, <1>6, SameCall
<1>7. CASE there /\ busy
  BY <1>1, <1>4, <1>5, <1>7, SameCall
<1>8. CASE there /\ ~busy
  BY <1>1, <1>2, <1>4, <1>5, <1>8, DeleteHolds
<1> QED
  BY <1>6, <1>7, <1>8

\* A token is deleted by its user only.
LEMMA DeleteApiTokenHolds == ASSUME StoresInv, DeleteApiToken PROVE Holds
<1> DEFINE t == "api_tokens"
<1>1. PICK k, u : Both(P!DeleteApiToken(pg, u, k), M!DeleteApiToken(mem, u, k))
  BY DEF DeleteApiToken
<1>2. t \in Real \ {"organizations", "users", "invitations", "usage_records"} /\ t \in Firm \ {"invitations"}
  BY DEF Firm, Real, TableNames, Loose
<1>3. pg[t] = mem[t]
  BY <1>2, FirmSame
<1> DEFINE there == k \in DOMAIN Where(mem[t], "user", u)
<1>4. /\ P!DeleteApiToken(pg, u, k) = IF there THEN P!Delete(pg, t, k) ELSE <<pg, NotFound>>
      /\ M!DeleteApiToken(mem, u, k) = IF there THEN M!Delete(mem, t, k) ELSE <<mem, NotFound>>
  BY <1>3, ReadsAlike DEF P!DeleteApiToken, M!DeleteApiToken, P!NotFound, M!NotFound, NotFound
<1> HIDE DEF there
<1>5. CASE there
  BY <1>1, <1>2, <1>4, <1>5, DeleteHolds
<1>6. CASE ~there
  BY <1>1, <1>4, <1>6, SameCall
<1> QED
  BY <1>5, <1>6

\* Rows of a table that nothing refers to are taken out of both.
LEMMA WithoutHolds ==
    ASSUME StoresInv, NEW t \in {"app_env", "refresh_tokens"}, NEW K,
           Both(<<Without(pg, t, K), OK>>, <<Without(mem, t, K), OK>>)
    PROVE  Holds
<1>1. /\ pg' = Without(pg, t, K) /\ mem' = Without(mem, t, K) /\ answer' = <<>> /\ UNCHANGED <<used, split, group>>
  BY DEF Both, Call
<1>2. /\ t \in Real \ {"organizations", "users", "invitations", "usage_records"} /\ t \in TableNames
      /\ t \notin Base
      /\ "users_by_email" \in TableNames \ {t}
  BY DEF Real, TableNames, Base
<1>3. Sound(pg) /\ Shaped(pg)
  BY DEF StoresInv, Sound
<1>4. /\ pg' = [u \in DOMAIN pg' |-> pg'[u]] /\ DOMAIN pg' = TableNames
      /\ \A u \in TableNames \ {t} : pg'[u] = pg[u]
      /\ DOMAIN pg'[t] = DOMAIN pg[t] \ K
      /\ \A j \in DOMAIN pg[t] \ K : pg'[t][j] = pg[t][j]
      /\ Table(pg'[t])
  <2> DEFINE d == Without(pg, t, K)
  <2>1. /\ d = [u \in DOMAIN d |-> d[u]] /\ DOMAIN d = TableNames
        /\ \A u \in TableNames \ {t} : d[u] = pg[u]
        /\ DOMAIN d[t] = DOMAIN pg[t] \ K
        /\ \A j \in DOMAIN pg[t] \ K : d[t][j] = pg[t][j]
        /\ Table(d[t])
    BY <1>2, <1>3, WithoutIs
  <2>2. pg' = d
    BY <1>1
  <2> HIDE DEF d
  <2> QED
    BY <2>1, <2>2
<1>5. \A u \in Real : \A j, row : Goes(t, K, u, j, row) <=> u = t /\ j \in K
  <2> SUFFICES ASSUME NEW u \in Real, NEW row, NEW x, <<t, x>> \in P!Parents(u, row) PROVE FALSE
    BY DEF Goes
  <2>1. <<t, x>>[1] \in Base
    BY ParentTables
  <2> QED
    BY <1>2, <2>1
<1>6. \A u \in TableNames : Table(pg'[u])
  BY <1>3, <1>4 DEF Shaped
<1>7. Pruned(pg, pg', t, K)
  <2>1. ASSUME NEW u \in Real, NEW j
        PROVE  j \in DOMAIN pg'[u] <=> j \in DOMAIN pg[u] /\ ~Goes(t, K, u, j, pg[u][j])
    <3>1. Goes(t, K, u, j, pg[u][j]) <=> u = t /\ j \in K
      BY <1>5
    <3> QED
      BY <1>4, <3>1 DEF Real
  <2>2. ASSUME NEW u \in Real, NEW j \in DOMAIN pg'[u] PROVE pg'[u][j] = pg[u][j]
    BY <1>4 DEF Real
  <2> QED
    BY <1>2, <1>4, <1>6, <2>1, <2>2 DEF Pruned, Real
<1>8. Sound(pg')
  <2>1. \A b \in Base : pg'[b] = pg[b]
    BY <1>2, <1>4 DEF Base, TableNames
  <2>2. ASSUME NEW u \in Real, NEW row PROVE Lost(pg', u, row) <=> Lost(pg, u, row)
    BY <2>1, ParentTables DEF Lost, Has
  <2>3. \A u \in Real : /\ DOMAIN pg'[u] \subseteq DOMAIN pg[u]
                        /\ \A j \in DOMAIN pg'[u] : pg'[u][j] = pg[u][j]
    BY <1>4 DEF Real
  <2>4. \A u \in Real : \A j \in DOMAIN pg'[u] : ~Lost(pg', u, pg'[u][j])
    BY <1>3, <2>2, <2>3 DEF Sound, Rooted
  <2> QED
    BY <1>3, <1>4, <1>6, <2>3, <2>4, FewerKeeps
<1>9. StoresInv' /\ NoReturn
  BY <1>1, <1>2, <1>7, <1>8, BothPrune
<1> QED
  BY <1>1, <1>9 DEF Holds, Answered

\* A variable of an app, and the expired sessions, are taken out.
LEMMA TakeOutHolds == ASSUME StoresInv, DeleteAppEnv \/ DeleteExpiredRefreshTokens PROVE Holds
<1>1. \A db, t, K : P!Without(db, t, K) = Without(db, t, K) /\ M!Without(db, t, K) = Without(db, t, K)
  BY DEF P!Without, M!Without, Without, P!Only, M!Only, Only
<1>2. CASE DeleteAppEnv
  <2>1. PICK a : Both(P!DeleteAppEnv(pg, a, "key"), M!DeleteAppEnv(mem, a, "key"))
    BY <1>2 DEF DeleteAppEnv
  <2>2. /\ P!DeleteAppEnv(pg, a, "key") = <<P!Without(pg, "app_env", {<<a, "key">>}), OK>>
        /\ M!DeleteAppEnv(mem, a, "key") = <<M!Without(mem, "app_env", {<<a, "key">>}), OK>>
    BY DEF P!DeleteAppEnv, M!DeleteAppEnv, P!OK, M!OK, OK
  <2>3. Both(<<Without(pg, "app_env", {<<a, "key">>}), OK>>, <<Without(mem, "app_env", {<<a, "key">>}), OK>>)
    BY <1>1, <2>1, <2>2
  <2> QED
    BY <2>3, WithoutHolds
<1>3. CASE DeleteExpiredRefreshTokens
  <2> DEFINE t == "refresh_tokens"
             K == DOMAIN Where(pg[t], "expired", TRUE)
  <2>1. Both(P!DeleteExpiredRefreshTokens(pg), M!DeleteExpiredRefreshTokens(mem))
    BY <1>3 DEF DeleteExpiredRefreshTokens
  <2>2. /\ P!DeleteExpiredRefreshTokens(pg) = <<P!Without(pg, t, DOMAIN P!Where(pg[t], "expired", TRUE)), OK>>
        /\ M!DeleteExpiredRefreshTokens(mem) = <<M!Without(mem, t, DOMAIN M!Where(mem[t], "expired", TRUE)), OK>>
    BY DEF P!DeleteExpiredRefreshTokens, M!DeleteExpiredRefreshTokens, P!OK, M!OK, OK
  <2>3. pg[t] = mem[t]
    BY FirmSame DEF Firm, Real, TableNames, Loose
  <2>4. DOMAIN P!Where(pg[t], "expired", TRUE) = K /\ DOMAIN M!Where(mem[t], "expired", TRUE) = K
    BY <2>3, ReadsAlike
  <2> HIDE DEF K
  <2>5. Both(<<Without(pg, t, K), OK>>, <<Without(mem, t, K), OK>>)
    BY <1>1, <2>1, <2>2, <2>4
  <2> QED
    BY <2>5, WithoutHolds
<1> QED
  BY <1>2, <1>3

-----------------------------------------------------------------------------
(* Rows that are made.                                                     *)

\* An id that is fresh.
LEMMA Fresh ==
    ASSUME NEW t, NEW k \in Ids, NEW p, NEW m, New(t, k, p, m)
    PROVE  /\ <<t, k>> \notin used /\ ~Has(mem, t, k) /\ UNCHANGED <<split, group>>
           /\ pg' = p[1] /\ mem' = m[1]
           /\ answer' = IF p[2] = m[2] THEN <<>> ELSE <<p[2], m[2]>>
           /\ used' = used \union {e \in {<<t, k>>} : OK \in {p[2], m[2]}}
<1>1. k \in Nat \ {0}
  BY IdsAssumption DEF Nothing
<1>2. k \in 1..k
  BY <1>1
<1>3. (<<t, k>> \in used) = (k < k)
  BY <1>2 DEF New
<1>4. <<t, k>> \notin used
  BY <1>1, <1>3
<1> QED
  BY <1>4 DEF New, Call

\* A row made under a fresh id, with its parents there or gone.
LEMMA NewHolds ==
    ASSUME StoresInv, NEW t \in Numbered \ {"users"}, NEW k \in Ids, NEW row,
           Columns(t) \subseteq DOMAIN row, ~Clash(pg, t, k, row), P!Parents(t, row) \subseteq used,
           t = "invitations" => row.token = k /\ "v" \in DOMAIN row /\ row.v \in {"pending", "accepted", "revoked"},
           New(t, k, P!Insert(pg, t, k, row), <<Put(mem, t, k, row), OK>>)
    PROVE  Holds
<1> DEFINE p == P!Insert(pg, t, k, row)
<1>1. /\ <<t, k>> \notin used /\ ~Has(mem, t, k) /\ UNCHANGED <<split, group>>
      /\ pg' = p[1] /\ mem' = Put(mem, t, k, row)
      /\ answer' = IF p[2] = OK THEN <<>> ELSE <<p[2], OK>>
      /\ used' = used \union {e \in {<<t, k>>} : OK \in {p[2], OK}}
  <2> DEFINE m == <<Put(mem, t, k, row), OK>>
  <2>1. m[1] = Put(mem, t, k, row) /\ m[2] = OK /\ New(t, k, p, m)
    OBVIOUS
  <2> HIDE DEF p, m
  <2>2. /\ <<t, k>> \notin used /\ ~Has(mem, t, k) /\ UNCHANGED <<split, group>>
        /\ pg' = p[1] /\ mem' = m[1]
        /\ answer' = IF p[2] = m[2] THEN <<>> ELSE <<p[2], m[2]>>
        /\ used' = used \union {e \in {<<t, k>>} : OK \in {p[2], m[2]}}
    BY <2>1, Fresh
  <2> QED
    BY <2>1, <2>2
<1>2. used' = used \union {<<t, k>>}
  BY <1>1
<1>3. /\ StoresInv' /\ NoReturn
      /\ \/ p[2] = OK
         \/ p[2] = Invalid /\ Orphans'
  BY <1>1, <1>2, Inserts
<1> HIDE DEF p
<1>4. Answered
  BY <1>1, <1>3 DEF Answered
<1> QED
  BY <1>3, <1>4 DEF Holds

\* ... as the in-memory store makes them.
LEMMA InsertHolds ==
    ASSUME StoresInv, NEW t \in Numbered \ {"users"}, NEW k \in Ids, NEW row,
           Columns(t) \subseteq DOMAIN row, ~Clash(pg, t, k, row), P!Parents(t, row) \subseteq used,
           t = "invitations" => row.token = k /\ "v" \in DOMAIN row /\ row.v \in {"pending", "accepted", "revoked"},
           \/ New(t, k, P!Insert(pg, t, k, row), M!Insert(mem, t, k, row))
           \/ New(t, k, P!Insert(pg, t, k, row), M!Set(mem, t, k, row))
    PROVE  Holds
<1>1. ~Has(mem, t, k)
  BY DEF New
<1>2. /\ M!Insert(mem, t, k, row) = <<Put(mem, t, k, row), OK>>
      /\ M!Set(mem, t, k, row) = <<Put(mem, t, k, row), OK>>
  BY <1>1, MStatements
<1>3. New(t, k, P!Insert(pg, t, k, row), <<Put(mem, t, k, row), OK>>)
  BY <1>2
<1> QED
  BY <1>3, NewHolds

\* No index tells the rows of most tables apart.
LEMMA NoClash ==
    ASSUME NEW t, NEW k, NEW row, NEW db,
           \/ t \notin {"users", "invitations", "releases", "password_reset_tokens", "api_tokens", "domains"}
           \/ t = "domains" /\ ~row.verified
    PROVE  ~Clash(db, t, k, row)
<1>1. P!Unique(t, row) = {}
  BY DEF P!Unique
<1> QED
  BY <1>1 DEF Clash

\* The columns of the tables.
LEMMA ColumnsAre ==
    /\ Columns("organizations") = {} /\ Columns("users") = {"email"}
    /\ Columns("usage_records") = {} /\ Columns("audit_events") = {}
    /\ \A t \in {"projects", "apps", "databases", "services", "subscriptions", "usage_report_state"} :
        Columns(t) = {"org"}
    /\ Columns("invitations") = {"org", "token"}
    /\ \A t \in {"builds", "app_env"} : Columns(t) = {"app"}
    /\ Columns("releases") = {"app", "rev"}
    /\ Columns("domains") = {"app", "host", "verified"}
    /\ Columns("refresh_tokens") = {"user"}
    /\ \A t \in {"password_reset_tokens", "api_tokens"} : Columns(t) = {"user", "hash"}
    /\ Columns("memberships") = {"org", "user"}
    /\ \A t \in {"processed_stripe_events", "meter_state", "plans", "pricing_components", "service_templates",
                 "platform_settings"} : Columns(t) = {}
<1> DEFINE Ref(t) == {r[2] : r \in {r \in P!References : r[1] = t}}
<1>1. \A t, c : c \in Ref(t) <=> \E r \in P!References : r[1] = t /\ r[2] = c
  OBVIOUS
<1>2. \A t : Columns(t) = Indexed(t) \union Ref(t)
  BY DEF Columns
<1> HIDE DEF Ref
<1>3. /\ Ref("organizations") = {} /\ Ref("users") = {} /\ Ref("usage_records") = {} /\ Ref("audit_events") = {}
      /\ \A t \in {"projects", "apps", "databases", "services", "subscriptions", "usage_report_state",
          "invitations"} :
            Ref(t) = {"org"}
      /\ \A t \in {"builds", "app_env", "releases", "domains"} : Ref(t) = {"app"}
      /\ \A t \in {"refresh_tokens", "password_reset_tokens", "api_tokens"} : Ref(t) = {"user"}
      /\ Ref("memberships") = {"org", "user"}
      /\ \A t \in {"processed_stripe_events", "meter_state", "plans", "pricing_components", "service_templates",
                   "platform_settings"} : Ref(t) = {}
  BY <1>1 DEF P!References
<1>4. /\ Indexed("users") = {"email"} /\ Indexed("invitations") = {"token"} /\ Indexed("releases") = {"rev", "app"}
      /\ Indexed("domains") = {"verified", "host"}
      /\ \A t \in {"password_reset_tokens", "api_tokens"} : Indexed(t) = {"hash"}
      /\ \A t \in {"organizations", "usage_records", "audit_events", "projects", "apps", "databases", "services",
                   "subscriptions", "usage_report_state", "builds", "app_env", "refresh_tokens", "memberships",
                   "processed_stripe_events", "meter_state", "plans", "pricing_components", "service_templates",
                   "platform_settings"} : Indexed(t) = {}
  BY DEF Indexed
<1> QED
  BY <1>2, <1>3, <1>4

\* The tables with ids are tables.
LEMMA NumberedReal == \A t \in Numbered : t \in Real /\ t \in TableNames
  BY DEF Numbered, Real, TableNames

\* What is made in an organization, by a user, and on its own.
LEMMA OrgCreates ==
    ASSUME StoresInv, \/ CreateProject \/ CreateInvitation \/ CreateApp \/ CreateDatabase \/ CreateService
    PROVE  Holds
<1>1. ASSUME NEW t \in {"projects", "invitations", "apps", "databases", "services"}, NEW k \in Ids,
             NEW o \in Known("organizations"), NEW row, row.org = o, Columns(t) \subseteq DOMAIN row,
             t = "invitations" => row.token = k /\ "v" \in DOMAIN row
                                 /\ row.v \in {"pending", "accepted", "revoked"},
             New(t, k, P!Insert(pg, t, k, row), M!Insert(mem, t, k, row))
      PROVE  Holds
  <2>1. t \in Numbered \ {"users"}
    BY DEF Numbered
  <2>2. P!Parents(t, row) = {<<"organizations", o>>}
    BY <1>1, OneParent
  <2>3. P!Parents(t, row) \subseteq used
    BY <2>2 DEF Known
  <2>4. ~Clash(pg, t, k, row)
    <3>1. CASE t # "invitations"
      BY <3>1, NoClash
    <3>2. CASE t = "invitations"
      <4>1. P!Unique(t, row) = {row.token}
        BY <3>2 DEF P!Unique
      <4>2. \A j \in DOMAIN pg[t] : P!Unique(t, pg[t][j]) = {pg[t][j].token} /\ pg[t][j].token = j
        BY <3>2 DEF P!Unique, StoresInv, Keyed
      <4>3. row.token = k
        BY <1>1, <3>2
      <4> QED
        BY <4>1, <4>2, <4>3 DEF Clash
    <3> QED
      BY <3>1, <3>2
  <2> QED
    BY <1>1, <2>1, <2>3, <2>4, InsertHolds
<1>2. CASE CreateProject
  <2>1. PICK p \in Ids, o \in Known("organizations") :
            New("projects", p, P!CreateProject(pg, p, o), M!CreateProject(mem, p, o))
    BY <1>2 DEF CreateProject
  <2> DEFINE row == [org |-> o]
  <2>2. row.org = o /\ Columns("projects") \subseteq DOMAIN row
    BY ColumnsAre
  <2>3. New("projects", p, P!Insert(pg, "projects", p, row), M!Insert(mem, "projects", p, row))
    BY <2>1 DEF P!CreateProject, M!CreateProject
  <2> HIDE DEF row
  <2> QED
    BY <1>1, <2>2, <2>3
<1>3. CASE CreateInvitation
  <2>1. PICK i \in Ids, o \in Known("organizations") :
          New("invitations", i, P!CreateInvitation(pg, i, o, i), M!CreateInvitation(mem, i, o, i))
    BY <1>3 DEF CreateInvitation
  <2> DEFINE row == [org |-> o, token |-> i, v |-> "pending"]
  <2>2. row.org = o /\ Columns("invitations") \subseteq DOMAIN row /\ row.token = i /\ "v" \in DOMAIN row
        /\ row.v = "pending"
    BY ColumnsAre
  <2>3. New("invitations", i, P!Insert(pg, "invitations", i, row), M!Insert(mem, "invitations", i, row))
    BY <2>1 DEF P!CreateInvitation, M!CreateInvitation
  <2> HIDE DEF row
  <2> QED
    BY <1>1, <2>2, <2>3
<1>4. CASE CreateApp
  <2>1. PICK a \in Ids, o \in Known("organizations"), p \in Known("projects") \union {Nothing} :
          New("apps", a, P!CreateApp(pg, a, o, p), M!CreateApp(mem, a, o, p))
    BY <1>4 DEF CreateApp
  <2> DEFINE row == [org |-> o, project |-> p, v |-> 0]
  <2>2. row.org = o /\ Columns("apps") \subseteq DOMAIN row
    BY ColumnsAre
  <2>3. New("apps", a, P!Insert(pg, "apps", a, row), M!Insert(mem, "apps", a, row))
    BY <2>1 DEF P!CreateApp, M!CreateApp
  <2> HIDE DEF row
  <2> QED
    BY <1>1, <2>2, <2>3
<1>5. CASE CreateDatabase
  <2>1. PICK d \in Ids, o \in Known("organizations") :
            New("databases", d, P!CreateDatabase(pg, d, o), M!CreateDatabase(mem, d, o))
    BY <1>5 DEF CreateDatabase
  <2> DEFINE row == [org |-> o, v |-> 0]
  <2>2. row.org = o /\ Columns("databases") \subseteq DOMAIN row
    BY ColumnsAre
  <2>3. New("databases", d, P!Insert(pg, "databases", d, row), M!Insert(mem, "databases", d, row))
    BY <2>1 DEF P!CreateDatabase, M!CreateDatabase
  <2> HIDE DEF row
  <2> QED
    BY <1>1, <2>2, <2>3
<1>6. CASE CreateService
  <2>1. PICK s \in Ids, o \in Known("organizations"), p \in Known("projects") \union {Nothing} :
          New("services", s, P!CreateService(pg, s, o, p), M!CreateService(mem, s, o, p))
    BY <1>6 DEF CreateService
  <2> DEFINE row == [org |-> o, project |-> p, v |-> 0]
  <2>2. row.org = o /\ Columns("services") \subseteq DOMAIN row
    BY ColumnsAre
  <2>3. New("services", s, P!Insert(pg, "services", s, row), M!Insert(mem, "services", s, row))
    BY <2>1 DEF P!CreateService, M!CreateService
  <2> HIDE DEF row
  <2> QED
    BY <1>1, <2>2, <2>3
<1> QED
  BY <1>2, <1>3, <1>4, <1>5, <1>6

\* What has no parent that can go, and no index.
LEMMA PlainCreates ==
    ASSUME StoresInv, \/ CreateOrganization \/ AddUsage \/ CreateAuditEvent
    PROVE  Holds
<1>1. ASSUME NEW t \in {"organizations", "usage_records", "audit_events"}, NEW k \in Ids, NEW row,
             \/ New(t, k, P!Insert(pg, t, k, row), M!Insert(mem, t, k, row))
             \/ New(t, k, P!Insert(pg, t, k, row), M!Set(mem, t, k, row))
      PROVE  Holds
  <2>1. t \in Numbered \ {"users"} /\ Columns(t) = {} /\ P!Parents(t, row) = {}
    BY ColumnsAre, NoParents DEF Numbered
  <2>2. ~Clash(pg, t, k, row)
    BY NoClash
  <2> QED
    BY <1>1, <2>1, <2>2, InsertHolds
<1>2. CASE CreateOrganization
  <2>1. PICK o \in Ids : New("organizations", o, P!CreateOrganization(pg, o, 0), M!CreateOrganization(mem, o, 0))
    <3>1. 1 \in Ids
      BY IdsAssumption
    <3> QED
      BY <1>2, <3>1 DEF CreateOrganization
  <2>2. \/ New("organizations", o, P!Insert(pg, "organizations", o, [v |-> 0]),
            M!Insert(mem, "organizations", o, [v |-> 0]))
    BY <2>1 DEF P!CreateOrganization, M!CreateOrganization
  <2> QED
    BY <1>1, <2>2
<1>3. CASE AddUsage
  <2>1. PICK k \in Ids, o \in Known("organizations") :
            New("usage_records", k, P!AddUsage(pg, k, o, k), M!AddUsage(mem, k, o, k))
    BY <1>3 DEF AddUsage
  <2> DEFINE row == [org |-> o, at |-> k]
  <2>2. New("usage_records", k, P!Insert(pg, "usage_records", k, row), M!Set(mem, "usage_records", k, row))
    BY <2>1 DEF P!AddUsage, M!AddUsage
  <2> HIDE DEF row
  <2> QED
    BY <1>1, <2>2
<1>4. CASE CreateAuditEvent
  <2>1. PICK k \in Ids, o \in Known("organizations") \union {Nothing} :
          New("audit_events", k, P!CreateAuditEvent(pg, k, o), M!CreateAuditEvent(mem, k, o))
    BY <1>4 DEF CreateAuditEvent
  <2> DEFINE row == [org |-> o, at |-> k]
  <2>2. New("audit_events", k, P!Insert(pg, "audit_events", k, row), M!Set(mem, "audit_events", k, row))
    BY <2>1 DEF P!CreateAuditEvent, M!CreateAuditEvent
  <2> HIDE DEF row
  <2> QED
    BY <1>1, <2>2
<1> QED
  BY <1>2, <1>3, <1>4

\* A build and a domain of an app that may be gone, a token of a user.
LEMMA ChildCreates ==
    ASSUME StoresInv, \/ CreateBuild \/ CreateDomain \/ CreateRefreshToken
    PROVE  Holds
<1>1. CASE CreateBuild
  <2> DEFINE t == "builds"
  <2>1. PICK b \in Ids, a \in Known("apps") : New(t, b, P!CreateBuild(pg, b, a), M!CreateBuild(mem, b, a))
    BY <1>1 DEF CreateBuild
  <2> DEFINE row == [app |-> a, at |-> b, v |-> 0]
  <2>2. row.app = a /\ Columns(t) \subseteq DOMAIN row
    BY ColumnsAre
  <2>3. New(t, b, P!Insert(pg, t, b, row), M!Insert(mem, t, b, row))
    BY <2>1 DEF P!CreateBuild, M!CreateBuild
  <2> HIDE DEF row
  <2>4. P!Parents(t, row) = {<<"apps", a>>} /\ P!Parents(t, row) \subseteq used
    BY <2>2, OneParent DEF Known
  <2>5. ~Clash(pg, t, b, row) /\ t \in Numbered \ {"users"}
    BY NoClash DEF Numbered
  <2> QED
    BY <2>2, <2>3, <2>4, <2>5, InsertHolds
<1>2. CASE CreateDomain
  <2> DEFINE t == "domains"
  <2>1. PICK d \in Ids, a \in Known("apps"), h \in Hosts :
            New(t, d, P!CreateDomain(pg, d, a, h), M!CreateDomain(mem, d, a, h))
    BY <1>2 DEF CreateDomain
  <2> DEFINE row == [app |-> a, host |-> h, verified |-> FALSE]
  <2>2. row.app = a /\ Columns(t) \subseteq DOMAIN row /\ ~row.verified
    BY ColumnsAre
  <2>3. New(t, d, P!Insert(pg, t, d, row), M!Insert(mem, t, d, row))
    BY <2>1 DEF P!CreateDomain, M!CreateDomain
  <2> HIDE DEF row
  <2>4. P!Parents(t, row) = {<<"apps", a>>} /\ P!Parents(t, row) \subseteq used
    BY <2>2, OneParent DEF Known
  <2>5. ~Clash(pg, t, d, row) /\ t \in Numbered \ {"users"}
    BY <2>2, NoClash DEF Numbered
  <2> QED
    BY <2>2, <2>3, <2>4, <2>5, InsertHolds
<1>3. CASE CreateRefreshToken
  <2> DEFINE t == "refresh_tokens"
  <2>1. PICK k \in Ids, u \in Known("users") :
            New(t, k, P!CreateRefreshToken(pg, k, u), M!CreateRefreshToken(mem, k, u))
    BY <1>3 DEF CreateRefreshToken
  <2> DEFINE row == [user |-> u, revoked |-> FALSE, expired |-> FALSE]
  <2>2. row.user = u /\ Columns(t) \subseteq DOMAIN row
    BY ColumnsAre
  <2>3. New(t, k, P!Insert(pg, t, k, row), M!Insert(mem, t, k, row))
    BY <2>1 DEF P!CreateRefreshToken, M!CreateRefreshToken
  <2> HIDE DEF row
  <2>4. P!Parents(t, row) = {<<"users", u>>} /\ P!Parents(t, row) \subseteq used
    BY <2>2, OneParent DEF Known
  <2>5. ~Clash(pg, t, k, row) /\ t \in Numbered \ {"users"}
    BY NoClash DEF Numbered
  <2> QED
    BY <2>2, <2>3, <2>4, <2>5, InsertHolds
<1> QED
  BY <1>1, <1>2, <1>3

\* Nothing is made, in neither store.
LEMMA NoneMade ==
    ASSUME StoresInv, NEW t, NEW k \in Ids, NEW x, NEW y, x # OK, y # OK,
           x = y \/ (x = Invalid /\ (split \/ Orphans)),
           New(t, k, <<pg, x>>, <<mem, y>>)
    PROVE  Holds
<1>1. /\ pg' = pg /\ mem' = mem /\ UNCHANGED <<split, group>>
      /\ answer' = IF x = y THEN <<>> ELSE <<x, y>>
      /\ used' = used \union {e \in {<<t, k>>} : OK \in {x, y}}
  BY DEF New, Call
<1>2. used' = used
  BY <1>1
<1>3. Answered
  BY <1>1 DEF Answered, StoresInv
<1> QED
  BY <1>1, <1>2, <1>3, Stays DEF Holds

\* A token whose hash there is already is refused by both.
LEMMA HashCreates == ASSUME StoresInv, CreatePasswordResetToken \/ CreateApiToken PROVE Holds
<1>1. ASSUME NEW t \in {"password_reset_tokens", "api_tokens"}, NEW k \in Ids, NEW u \in Known("users"), NEW row,
             row.user = u, row.hash = k, Columns(t) \subseteq DOMAIN row,
             New(t, k, P!Insert(pg, t, k, row),
                 IF Where(mem[t], "hash", k) # Empty THEN <<mem, Conflict>> ELSE M!Insert(mem, t, k, row))
      PROVE  Holds
  <2>1. t \in Numbered \ {"users"} /\ pg[t] = mem[t]
    BY FirmSame DEF Numbered, Firm, Real, TableNames, Loose
  <2>2. P!Parents(t, row) = {<<"users", u>>} /\ P!Parents(t, row) \subseteq used
    BY <1>1, OneParent DEF Known
  <2>3. ~Has(mem, t, k) /\ ~Has(pg, t, k)
    BY <1>1, <2>1 DEF New, Has
  <2>4. Clash(pg, t, k, row) <=> \E j \in DOMAIN mem[t] : mem[t][j].hash = k
    <3>1. \A r : P!Unique(t, r) = {r.hash}
      BY DEF P!Unique
    <3> QED
      BY <1>1, <2>1, <2>3, <3>1 DEF Clash, Has
  <2>5. Where(mem[t], "hash", k) # Empty <=> \E j \in DOMAIN mem[t] : mem[t][j].hash = k
    <3> DEFINE f == Where(mem[t], "hash", k)
    <3>1. DOMAIN f = {j \in DOMAIN mem[t] : mem[t][j].hash = k} /\ f = [j \in DOMAIN f |-> f[j]]
      BY DEF Where, Only
    <3>2. f = Empty <=> DOMAIN f = {}
      <4> HIDE DEF f
      <4> QED
        BY <3>1 DEF Empty
    <3> QED
      BY <3>1, <3>2
  <2>6. CASE Clash(pg, t, k, row)
    <3>1. P!Insert(pg, t, k, row) = <<pg, Conflict>>
      BY <2>3, <2>6, PStatements
    <3>2. New(t, k, <<pg, Conflict>>, <<mem, Conflict>>) /\ Conflict # OK
      BY <1>1, <2>4, <2>5, <2>6, <3>1 DEF Conflict, OK
    <3> QED
      BY <3>2, NoneMade
  <2>7. CASE ~Clash(pg, t, k, row)
    <3>1. New(t, k, P!Insert(pg, t, k, row), M!Insert(mem, t, k, row))
      BY <1>1, <2>4, <2>5, <2>7
    <3> QED
      BY <1>1, <2>1, <2>2, <2>7, <3>1, InsertHolds
  <2> QED
    BY <2>6, <2>7
<1>2. CASE CreatePasswordResetToken
  <2> DEFINE t == "password_reset_tokens"
  <2>1. PICK k \in Ids, u \in Known("users") :
          New(t, k, P!CreatePasswordResetToken(pg, k, u, k), M!CreatePasswordResetToken(mem, k, u, k))
    BY <1>2 DEF CreatePasswordResetToken
  <2> DEFINE row == [user |-> u, hash |-> k, used |-> FALSE]
  <2>2. row.user = u /\ row.hash = k /\ Columns(t) \subseteq DOMAIN row
    BY ColumnsAre
  <2>3. /\ P!CreatePasswordResetToken(pg, k, u, k) = P!Insert(pg, t, k, row)
        /\ M!CreatePasswordResetToken(mem, k, u, k) =
              IF Where(mem[t], "hash", k) # Empty THEN <<mem, Conflict>> ELSE M!Insert(mem, t, k, row)
    BY ReadsAlike DEF P!CreatePasswordResetToken, M!CreatePasswordResetToken, M!Taken, M!Conflict, Conflict
  <2> HIDE DEF row
  <2> QED
    BY <1>1, <2>1, <2>2, <2>3
<1>3. CASE CreateApiToken
  <2> DEFINE t == "api_tokens"
  <2>1. PICK k \in Ids, u \in Known("users") :
            New(t, k, P!CreateApiToken(pg, k, u, k), M!CreateApiToken(mem, k, u, k))
    BY <1>3 DEF CreateApiToken
  <2> DEFINE row == [user |-> u, hash |-> k, at |-> k, v |-> 0]
  <2>2. row.user = u /\ row.hash = k /\ Columns(t) \subseteq DOMAIN row
    BY ColumnsAre
  <2>3. /\ P!CreateApiToken(pg, k, u, k) = P!Insert(pg, t, k, row)
        /\ M!CreateApiToken(mem, k, u, k) =
              IF Where(mem[t], "hash", k) # Empty THEN <<mem, Conflict>> ELSE M!Insert(mem, t, k, row)
    BY ReadsAlike DEF P!CreateApiToken, M!CreateApiToken, M!Taken, M!Conflict, Conflict
  <2> HIDE DEF row
  <2> QED
    BY <1>1, <2>1, <2>2, <2>3
<1> QED
  BY <1>2, <1>3

\* A revision that an app has already is refused by both; one that an app had before it was
\* deleted by the in-memory store, while PostgreSQL misses the app.
LEMMA CreateReleaseHolds == ASSUME StoresInv, CreateRelease PROVE Holds
<1> DEFINE t == "releases"
<1>1. PICK r, rev \in Ids, a \in Known("apps") :
          New(t, r, P!CreateRelease(pg, r, a, rev), M!CreateRelease(mem, r, a, rev))
  BY DEF CreateRelease
<1> DEFINE row == [app |-> a, rev |-> rev, v |-> 0]
           taken == \E j \in DOMAIN mem[t] : mem[t][j].app = a /\ mem[t][j].rev = rev
<1>2. row.app = a /\ row.rev = rev /\ Columns(t) \subseteq DOMAIN row
  BY ColumnsAre
<1>3. /\ P!CreateRelease(pg, r, a, rev) = P!Insert(pg, t, r, row)
      /\ M!CreateRelease(mem, r, a, rev) =
            IF Where(Where(mem[t], "app", a), "rev", rev) # Empty THEN <<mem, Conflict>>
                ELSE M!Insert(mem, t, r, row)
  BY ReadsAlike DEF P!CreateRelease, M!CreateRelease, M!Taken, M!Conflict, Conflict
<1> HIDE DEF row
<1>4. Where(Where(mem[t], "app", a), "rev", rev) # Empty <=> taken
  <2> DEFINE g == Where(mem[t], "app", a)
             f == Where(g, "rev", rev)
  <2>1. DOMAIN g = {j \in DOMAIN mem[t] : mem[t][j].app = a} /\ \A j \in DOMAIN g : g[j] = mem[t][j]
    BY DEF Where, Only
  <2> HIDE DEF g
  <2>2. DOMAIN f = {j \in DOMAIN g : g[j].rev = rev} /\ f = [j \in DOMAIN f |-> f[j]]
    BY DEF Where, Only
  <2>3. f = Empty <=> DOMAIN f = {}
    <3> HIDE DEF f
    <3> QED
      BY <2>2 DEF Empty
  <2>4. DOMAIN f = {j \in DOMAIN mem[t] : mem[t][j].app = a /\ mem[t][j].rev = rev}
    BY <2>1, <2>2
  <2> QED
    BY <2>3, <2>4 DEF g
<1>5. /\ t \in Real /\ t \in Numbered \ {"users"} /\ t \notin Firm /\ ~Exempt(t)
      /\ DOMAIN pg[t] \subseteq DOMAIN mem[t] /\ Alike(t)
  BY DEF StoresInv, Same, Numbered, Real, TableNames, Firm, Loose, Exempt
<1>6. ~Has(mem, t, r) /\ ~Has(pg, t, r)
  BY <1>1, <1>5 DEF New, Has
<1>7. P!Parents(t, row) = {<<"apps", a>>} /\ P!Parents(t, row) \subseteq used
  BY <1>2, OneParent DEF Known
<1>8. Clash(pg, t, r, row) <=> \E j \in DOMAIN pg[t] : pg[t][j].app = a /\ pg[t][j].rev = rev
  <2>1. \A x : P!Unique(t, x) = {<<x.app, x.rev>>}
    BY DEF P!Unique
  <2>2. ASSUME NEW x PROVE P!Unique(t, x) = P!Unique(t, row) <=> x.app = a /\ x.rev = rev
    <3>1. P!Unique(t, x) = {<<x.app, x.rev>>} /\ P!Unique(t, row) = {<<a, rev>>}
      BY <1>2, <2>1
    <3>2. {<<x.app, x.rev>>} = {<<a, rev>>} <=> <<x.app, x.rev>> = <<a, rev>>
      OBVIOUS
    <3> QED
      BY <3>1, <3>2
  <2>3. P!Unique(t, row) # {} /\ DOMAIN pg[t] \ {r} = DOMAIN pg[t]
    BY <1>6, <2>1 DEF Has
  <2> QED
    BY <2>2, <2>3 DEF Clash
<1>9. Clash(pg, t, r, row) => taken
  BY <1>5, <1>8 DEF Alike
<1>10. CASE Clash(pg, t, r, row)
  <2>1. P!Insert(pg, t, r, row) = <<pg, Conflict>>
    BY <1>6, <1>10, PStatements
  <2>2. New(t, r, <<pg, Conflict>>, <<mem, Conflict>>) /\ Conflict # OK
    BY <1>1, <1>3, <1>4, <1>9, <1>10, <2>1 DEF Conflict, OK
  <2> QED
    BY <2>2, NoneMade
<1>11. CASE ~Clash(pg, t, r, row) /\ taken
  <2>1. PICK j \in DOMAIN mem[t] : mem[t][j].app = a /\ mem[t][j].rev = rev
    BY <1>11
  <2>2. j \notin DOMAIN pg[t]
    BY <1>5, <1>8, <1>11, <2>1 DEF Alike
  <2>3. Lost(pg, t, mem[t][j]) /\ (split \/ Orphans)
    BY <1>5, <2>2, Alone
  <2>4. P!Parents(t, mem[t][j]) = {<<"apps", a>>}
    BY <2>1, OneParent
  <2>5. Lost(pg, t, row)
    BY <1>7, <2>3, <2>4 DEF Lost
  <2>6. P!Insert(pg, t, r, row) = <<pg, Invalid>>
    BY <1>6, <1>11, <2>5, PStatements
  <2>7. New(t, r, <<pg, Invalid>>, <<mem, Conflict>>) /\ Conflict # OK /\ Invalid # OK
    BY <1>1, <1>3, <1>4, <1>11, <2>6 DEF Conflict, OK, Invalid
  <2> QED
    BY <2>3, <2>7, NoneMade
<1>12. CASE ~Clash(pg, t, r, row) /\ ~taken
  <2>1. New(t, r, P!Insert(pg, t, r, row), M!Insert(mem, t, r, row))
    BY <1>1, <1>3, <1>4, <1>12
  <2> QED
    BY <1>2, <1>5, <1>7, <1>12, <2>1, InsertHolds
<1> QED
  BY <1>10, <1>11, <1>12

\* A user, whose email the in-memory store looks up in its index.
LEMMA CreateUserHolds == ASSUME StoresInv, CreateUser PROVE Holds
<1> DEFINE t == "users"
           x == "users_by_email"
<1>1. PICK u \in Ids : \E e : New(t, u, P!CreateUser(pg, u, e, 0), M!CreateUser(mem, u, e, 0))
  BY DEF CreateUser
<1>0. PICK e : New(t, u, P!CreateUser(pg, u, e, 0), M!CreateUser(mem, u, e, 0))
  BY <1>1
<1> DEFINE row == [email |-> e, v |-> 0]
           d == Put(mem, t, u, row)
<1>2. row.email = e /\ Columns(t) \subseteq DOMAIN row
  BY ColumnsAre
<1>3. /\ P!CreateUser(pg, u, e, 0) = P!Insert(pg, t, u, row)
      /\ M!CreateUser(mem, u, e, 0) =
            IF Has(mem, x, e) \/ Has(mem, t, u) THEN <<mem, Conflict>> ELSE <<Put(d, x, e, u), OK>>
  BY DEF P!CreateUser, M!CreateUser, M!Conflict, Conflict, M!OK, OK, M!Has, Has, M!Put, Put
<1> HIDE DEF row, d
<1>4. /\ t \in Real /\ t \in TableNames /\ x \in TableNames /\ x # t /\ x \notin Real /\ t \in Numbered
      /\ pg[t] = mem[t]
      /\ t # "project_memberships"
  BY FirmSame DEF Numbered, Firm, Real, TableNames, Loose
<1>5. /\ <<t, u>> \notin used /\ ~Has(mem, t, u) /\ ~Has(pg, t, u)
  BY <1>0, <1>4, Fresh DEF Has
<1>6. Clash(pg, t, u, row) <=> Has(mem, x, e)
  <2>1. \A r : P!Unique(t, r) = {r.email}
    BY DEF P!Unique
  <2>2. Clash(pg, t, u, row) <=> \E j \in DOMAIN mem[t] : mem[t][j].email = e
    BY <1>2, <1>4, <1>5, <2>1 DEF Clash, Has
  <2> QED
    BY <2>2 DEF StoresInv, Leads, EmailIndex, Has
<1>7. P!Parents(t, row) = {} /\ ~Lost(pg, t, row)
  BY NoParents DEF Lost
<1>8. P!Insert(pg, t, u, row) = IF Clash(pg, t, u, row) THEN <<pg, Conflict>> ELSE <<Put(pg, t, u, row), OK>>
  BY <1>5, <1>7, PStatements
<1>9. CASE Clash(pg, t, u, row)
  <2>1. New(t, u, <<pg, Conflict>>, <<mem, Conflict>>) /\ Conflict # OK
    BY <1>0, <1>3, <1>6, <1>8, <1>9 DEF Conflict, OK
  <2> QED
    BY <2>1, NoneMade
<1>10. CASE ~Clash(pg, t, u, row)
  <2>1. New(t, u, <<Put(pg, t, u, row), OK>>, <<Put(d, x, e, u), OK>>)
    BY <1>0, <1>3, <1>5, <1>6, <1>8, <1>10
  <2>2. /\ pg' = Put(pg, t, u, row) /\ mem' = Put(d, x, e, u) /\ answer' = <<>> /\ UNCHANGED <<split, group>>
        /\ used' = used \union {<<t, u>>}
    BY <2>1, <1>5 DEF New, Call
  <2>3. Shaped(mem)
    BY DEF StoresInv
  <2>4. Shaped(d) /\ d[t][u] = row /\ DOMAIN d[t] = DOMAIN mem[t] \union {u}
        /\ (\A s \in TableNames \ {t} : d[s] = mem[s]) /\ \A j \in DOMAIN mem[t] \ {u} : d[t][j] = mem[t][j]
    <3>1. Shaped(d)
      BY <1>2, <1>4, <2>3, PutShaped DEF d
    <3>2. LET dd == Put(mem, t, u, row) IN
          /\ \A s \in TableNames \ {t} : dd[s] = mem[s]
          /\ DOMAIN dd[t] = DOMAIN mem[t] \union {u}
          /\ dd[t][u] = row
          /\ \A j \in DOMAIN mem[t] \ {u} : dd[t][j] = mem[t][j]
      BY <1>4, <2>3, PutIs
    <3> QED
      BY <3>1, <3>2 DEF d
  <2> DEFINE g == Put(d, x, e, u)
  <2>5. /\ g = [s \in DOMAIN g |-> g[s]] /\ DOMAIN g = TableNames
        /\ \A s \in TableNames \ {x} : g[s] = d[s]
        /\ DOMAIN g[x] = DOMAIN d[x] \union {e}
        /\ g[x][e] = u
        /\ \A j \in DOMAIN d[x] \ {e} : g[x][j] = d[x][j]
        /\ Table(g[x])
    BY <1>4, <2>4, PutIs
  <2>6. mem' = g
    BY <2>2
  <2> HIDE DEF g
  <2>7. Written(mem, mem', t, u, row)
    <3>1. \A s \in Real \ {t} : g[s] = mem[s]
      BY <1>4, <2>4, <2>5 DEF Real
    <3>2. g[t] = d[t] /\ Table(d[t])
      BY <1>4, <2>4, <2>5 DEF Shaped
    <3> QED
      BY <2>4, <2>5, <2>6, <3>1, <3>2 DEF Written
  <2>8. Leads'
    <3>1. /\ DOMAIN mem'[t] = DOMAIN mem[t] \union {u} /\ mem'[t][u] = row
          /\ \A j \in DOMAIN mem[t] \ {u} : mem'[t][j] = mem[t][j]
          /\ DOMAIN mem'[x] = DOMAIN mem[x] \union {e} /\ mem'[x][e] = u
          /\ \A j \in DOMAIN mem[x] \ {e} : mem'[x][j] = mem[x][j]
      BY <1>4, <2>4, <2>5, <2>6
    <3>2. e \notin DOMAIN mem[x] /\ u \notin DOMAIN mem[t]
      BY <1>5, <1>6, <1>10 DEF Has
    <3>3. /\ \A j \in DOMAIN mem[t] : mem[t][j].email \in DOMAIN mem[x] /\ mem[x][mem[t][j].email] = j
          /\ \A c \in DOMAIN mem[x] : mem[x][c] \in DOMAIN mem[t] /\ mem[t][mem[x][c]].email = c
      BY DEF StoresInv, Leads, EmailIndex, Has
    <3>4. /\ \A j \in DOMAIN mem'[t] : mem'[t][j].email \in DOMAIN mem'[x] /\ mem'[x][mem'[t][j].email] = j
          /\ \A c \in DOMAIN mem'[x] : mem'[x][c] \in DOMAIN mem'[t] /\ mem'[t][mem'[x][c]].email = c
      BY <1>2, <3>1, <3>2, <3>3
    <3> QED
      BY <3>4 DEF Leads, EmailIndex, Has
  <2>9. used \subseteq used' /\ used' \subseteq used \union {<<t, u>>} /\ used' \subseteq Numbered \X Ids
        /\ <<t, u>> \in used'
    BY <1>4, <2>2 DEF StoresInv, Given
  <2>10. StoresInv' /\ NoReturn
    BY <1>2, <1>4, <1>5, <1>7, <1>10, <2>2, <2>7, <2>8, <2>9, BothHave
  <2> QED
    BY <2>2, <2>10 DEF Holds, Answered
<1> QED
  BY <1>9, <1>10

\* A second membership in an organization is refused by both.
LEMMA AddMembershipHolds == ASSUME StoresInv, AddMembership PROVE Holds
<1> DEFINE t == "memberships"
<1>1. PICK o \in Known("organizations"), u \in DOMAIN pg["users"] :
          Both(P!AddMembership(pg, o, u, 0), M!AddMembership(mem, o, u, 0))
  BY DEF AddMembership
<1> DEFINE row == [org |-> o, user |-> u, v |-> 0]
           k == <<o, u>>
<1>2. row.org = o /\ row.user = u /\ Columns(t) \subseteq DOMAIN row
  BY ColumnsAre
<1>3. Both(P!Insert(pg, t, k, row), M!Insert(mem, t, k, row))
  BY <1>1 DEF P!AddMembership, M!AddMembership
<1> HIDE DEF row, k
<1>4. /\ pg[t] = mem[t] /\ t \in Real \ {"users", "invitations", "project_memberships"} /\ ~Exempt(t)
      /\ t \notin Base
      /\ t \notin Numbered /\ t # "app_env"
  BY FirmSame DEF Firm, Real, TableNames, Loose, Exempt, Base, Numbered
<1>5. /\ P!Parents(t, row) = {<<"organizations", o>>, <<"users", u>>} /\ P!Parents(t, row) \subseteq used
      /\ ~Lost(pg, t, row)
  <2>1. P!Parents(t, row) = {<<"organizations", o>>, <<"users", u>>}
    BY <1>2, TwoParents
  <2>2. <<"organizations", o>> \in used /\ <<"users", u>> \in used
    BY KnownThere DEF Known
  <2>3. Has(pg, "organizations", o) /\ Has(pg, "users", u)
    BY <2>2, KnownThere DEF Has
  <2> QED
    BY <2>1, <2>2, <2>3 DEF Lost
<1>6. ~Clash(pg, t, k, row)
  BY NoClash
<1>7. /\ P!Insert(pg, t, k, row) = IF Has(pg, t, k) THEN <<pg, Conflict>> ELSE <<Put(pg, t, k, row), OK>>
      /\ M!Insert(mem, t, k, row) = IF Has(mem, t, k) THEN <<mem, Conflict>> ELSE <<Put(mem, t, k, row), OK>>
      /\ (Has(pg, t, k) <=> Has(mem, t, k))
  <2>1. P!Insert(pg, t, k, row) = IF Has(pg, t, k) THEN <<pg, Conflict>> ELSE <<Put(pg, t, k, row), OK>>
    BY <1>5, <1>6, PStatements
  <2>2. M!Insert(mem, t, k, row) = IF Has(mem, t, k) THEN <<mem, Conflict>> ELSE <<Put(mem, t, k, row), OK>>
    BY MStatements
  <2>3. Has(pg, t, k) <=> Has(mem, t, k)
    BY <1>4 DEF Has
  <2> QED
    BY <2>1, <2>2, <2>3
<1>8. CASE Has(pg, t, k)
  BY <1>3, <1>7, <1>8, SameCall
<1>9. CASE ~Has(pg, t, k)
  <2>1. /\ pg' = Put(pg, t, k, row) /\ mem' = Put(mem, t, k, row) /\ answer' = <<>>
        /\ UNCHANGED <<used, split, group>>
    BY <1>3, <1>7, <1>9 DEF Both, Call
  <2>2. StoresInv' /\ NoReturn
    BY <1>2, <1>4, <1>5, <1>6, <2>1, Writes
  <2> QED
    BY <2>1, <2>2 DEF Holds, Answered
<1> QED
  BY <1>8, <1>9

\* An upsert is answered alike, unless the parent is gone.
LEMMA UpsertHolds ==
    ASSUME StoresInv, NEW t \in Set1, NEW k, NEW row,
           Columns(t) \subseteq DOMAIN row, P!Parents(t, row) \subseteq used,
           t = "app_env" => row.app = k[1],
           Both(P!Upsert(pg, t, k, row), M!Set(mem, t, k, row))
    PROVE  Holds
<1> DEFINE p == P!Upsert(pg, t, k, row)
           m == M!Set(mem, t, k, row)
<1>1. /\ pg' = p[1] /\ mem' = m[1] /\ UNCHANGED <<used, split, group>>
      /\ answer' = IF p[2] = m[2] THEN <<>> ELSE <<p[2], m[2]>>
  BY DEF Both, Call
<1>2. /\ StoresInv' /\ NoReturn /\ m[2] = OK
      /\ \/ p[2] = OK
         \/ p[2] = Invalid /\ Orphans'
  BY <1>1, Upserts
<1> HIDE DEF p, m
<1>3. Answered
  BY <1>1, <1>2 DEF Answered
<1> QED
  BY <1>2, <1>3 DEF Holds

\* Columns that no reference looks at, in a table of its own.
LEMMA Settings ==
    ASSUME StoresInv,
           \/ SetMeterState \/ UpsertPlan \/ UpsertPricingComponent \/ UpsertServiceTemplate \/ UpdateSettings
    PROVE  Holds
<1>1. ASSUME NEW t \in {"meter_state", "plans", "pricing_components", "service_templates",
          "platform_settings"}, NEW k, NEW v,
             Both(P!Upsert(pg, t, k, [v |-> v]), M!Set(mem, t, k, [v |-> v]))
      PROVE  Holds
  <2> DEFINE row == [v |-> v]
  <2>1. Both(P!Upsert(pg, t, k, row), M!Set(mem, t, k, row))
    BY <1>1
  <2> HIDE DEF row
  <2>2. t \in Set1 /\ t # "app_env" /\ Columns(t) = {} /\ P!Parents(t, row) = {}
    BY ColumnsAre, NoParents DEF Set1
  <2> QED
    BY <2>1, <2>2, UpsertHolds
<1>2. CASE SetMeterState
  <2>1. PICK v \in Values : Both(P!SetMeterState(pg, v), M!SetMeterState(mem, v))
    BY <1>2 DEF SetMeterState
  <2> QED
    BY <1>1, <2>1 DEF P!SetMeterState, M!SetMeterState
<1>3. CASE UpsertPlan
  <2>1. PICK k \in Ids, v \in Values : Both(P!UpsertPlan(pg, k, v), M!UpsertPlan(mem, k, v))
    BY <1>3 DEF UpsertPlan
  <2> QED
    BY <1>1, <2>1 DEF P!UpsertPlan, M!UpsertPlan
<1>4. CASE UpsertPricingComponent
  <2>1. PICK k \in Ids, v \in Values : Both(P!UpsertPricingComponent(pg, k, v), M!UpsertPricingComponent(mem, k, v))
    BY <1>4 DEF UpsertPricingComponent
  <2> QED
    BY <1>1, <2>1 DEF P!UpsertPricingComponent, M!UpsertPricingComponent
<1>5. CASE UpsertServiceTemplate
  <2>1. PICK k \in Ids, v \in Values : Both(P!UpsertServiceTemplate(pg, k, v), M!UpsertServiceTemplate(mem, k, v))
    BY <1>5 DEF UpsertServiceTemplate
  <2> QED
    BY <1>1, <2>1 DEF P!UpsertServiceTemplate, M!UpsertServiceTemplate
<1>6. CASE UpdateSettings
  <2>1. PICK v \in Values : Both(P!UpdateSettings(pg, v), M!UpdateSettings(mem, v))
    BY <1>6 DEF UpdateSettings
  <2> QED
    BY <1>1, <2>1 DEF P!UpdateSettings, M!UpdateSettings
<1> QED
  BY <1>2, <1>3, <1>4, <1>5, <1>6

\* Rows with the key of an organization.
LEMMA OrgSettings ==
    ASSUME StoresInv, UpsertSubscription \/ SetUsageReportState
    PROVE  Holds
<1>1. ASSUME NEW t \in {"subscriptions", "usage_report_state"}, NEW o \in Known("organizations"), NEW row,
          row.org = o,
             Columns(t) \subseteq DOMAIN row, Both(P!Upsert(pg, t, o, row), M!Set(mem, t, o, row))
      PROVE  Holds
  <2>1. t \in Set1 /\ t # "app_env"
    BY DEF Set1
  <2>2. P!Parents(t, row) = {<<"organizations", o>>} /\ P!Parents(t, row) \subseteq used
    BY <1>1, OneParent DEF Known
  <2> QED
    BY <1>1, <2>1, <2>2, UpsertHolds
<1>2. CASE UpsertSubscription
  <2>1. PICK o \in Known("organizations"), s \in Ids \union {Nothing} :
            Both(P!UpsertSubscription(pg, o, s), M!UpsertSubscription(mem, o, s))
    BY <1>2 DEF UpsertSubscription
  <2> DEFINE row == [org |-> o, stripe |-> s]
  <2>2. row.org = o /\ Columns("subscriptions") \subseteq DOMAIN row
    BY ColumnsAre
  <2>3. Both(P!Upsert(pg, "subscriptions", o, row), M!Set(mem, "subscriptions", o, row))
    BY <2>1 DEF P!UpsertSubscription, M!UpsertSubscription
  <2> HIDE DEF row
  <2> QED
    BY <1>1, <2>2, <2>3
<1>3. CASE SetUsageReportState
  <2>1. PICK o \in Known("organizations"), v \in Values :
            Both(P!SetUsageReportState(pg, o, v), M!SetUsageReportState(mem, o, v))
    BY <1>3 DEF SetUsageReportState
  <2> DEFINE row == [org |-> o, v |-> v]
  <2>2. row.org = o /\ Columns("usage_report_state") \subseteq DOMAIN row
    BY ColumnsAre
  <2>3. Both(P!Upsert(pg, "usage_report_state", o, row), M!Set(mem, "usage_report_state", o, row))
    BY <2>1 DEF P!SetUsageReportState, M!SetUsageReportState
  <2> HIDE DEF row
  <2> QED
    BY <1>1, <2>2, <2>3
<1> QED
  BY <1>2, <1>3

\* A variable of an app that may be gone.
LEMMA SetAppEnvHolds == ASSUME StoresInv, SetAppEnv PROVE Holds
<1> DEFINE t == "app_env"
<1>1. PICK a \in Known("apps"), v \in Values : Both(P!SetAppEnv(pg, a, "key", v), M!SetAppEnv(mem, a, "key", v))
  BY DEF SetAppEnv
<1> DEFINE row == [app |-> a, v |-> v]
           k == <<a, "key">>
<1>2. row.app = a /\ k[1] = a /\ Columns(t) \subseteq DOMAIN row
  BY ColumnsAre
<1>3. Both(P!Upsert(pg, t, k, row), M!Set(mem, t, k, row))
  BY <1>1 DEF P!SetAppEnv, M!SetAppEnv
<1> HIDE DEF row, k
<1>4. P!Parents(t, row) = {<<"apps", a>>} /\ P!Parents(t, row) \subseteq used /\ t \in Set1
  BY <1>2, OneParent DEF Known, Set1
<1> QED
  BY <1>2, <1>3, <1>4, UpsertHolds

\* Usage and events: inserted once.
LEMMA AbsentHolds == ASSUME StoresInv, AddUsageIfAbsent \/ MarkEventProcessed PROVE Holds
<1>1. ASSUME NEW t \in {"usage_records", "processed_stripe_events"}, NEW k, NEW row,
             Both(P!InsertIfAbsent(pg, t, k, row), M!InsertIfAbsent(mem, t, k, row))
      PROVE  Holds
  <2> DEFINE p == P!InsertIfAbsent(pg, t, k, row)
             m == M!InsertIfAbsent(mem, t, k, row)
  <2>1. /\ pg' = p[1] /\ mem' = m[1] /\ UNCHANGED <<used, split, group>>
        /\ answer' = IF p[2] = m[2] THEN <<>> ELSE <<p[2], m[2]>>
    BY <1>1 DEF Both, Call
  <2>2. Columns(t) \subseteq DOMAIN row
    BY ColumnsAre
  <2>3. StoresInv' /\ NoReturn /\ p[2] = m[2]
    BY <2>1, <2>2, Absents
  <2> HIDE DEF p, m
  <2> QED
    BY <2>1, <2>3 DEF Holds, Answered
<1>2. CASE AddUsageIfAbsent
  <2>1. PICK o \in Known("organizations") :
            Both(P!AddUsageIfAbsent(pg, 10 + o, o, 1), M!AddUsageIfAbsent(mem, 10 + o, o, 1))
    BY <1>2 DEF AddUsageIfAbsent
  <2> QED
    BY <1>1, <2>1 DEF P!AddUsageIfAbsent, M!AddUsageIfAbsent
<1>3. CASE MarkEventProcessed
  <2>1. PICK e \in Ids : Both(P!MarkEventProcessed(pg, e), M!MarkEventProcessed(mem, e))
    BY <1>3 DEF MarkEventProcessed
  <2> QED
    BY <1>1, <2>1 DEF P!MarkEventProcessed, M!MarkEventProcessed
<1> QED
  BY <1>2, <1>3

\* The verification of a domain, which may lose to another one of the host.
LEMMA UpdateDomainHolds == ASSUME StoresInv, UpdateDomain PROVE Holds
<1>1. PICK d \in Known("domains"), b \in BOOLEAN : Parting(P!UpdateDomain(pg, d, b), M!UpdateDomain(mem, d, b))
  BY DEF UpdateDomain
<1> DEFINE p == P!Update(pg, "domains", d, [verified |-> b])
           m == M!Update(mem, "domains", d, [verified |-> b])
<1>2. /\ pg' = p[1] /\ mem' = m[1] /\ split' = (split \/ p[2] # m[2]) /\ UNCHANGED <<used, group>>
      /\ answer' = IF p[2] = m[2] THEN <<>> ELSE <<p[2], m[2]>>
  BY <1>1 DEF Parting, Call, P!UpdateDomain, M!UpdateDomain
<1>3. StoresInv' /\ NoReturn
  BY <1>2, VerifiesDomain
<1> HIDE DEF p, m
<1>4. Answered
  BY <1>2 DEF Answered
<1> QED
  BY <1>3, <1>4 DEF Holds

\* An acceptance of an invitation.
LEMMA AcceptHolds == ASSUME StoresInv, AcceptInvitation PROVE Holds
<1>1. PICK i \in Known("invitations"), p \in Known("projects"), u \in DOMAIN pg["users"] :
        LET a == P!AddProjectMembership(pg, p, u, 0)
            b == M!AddProjectMembership(mem, p, u, 0)
        IN  Parting(P!WithTx(pg, IF a[2] = OK THEN P!UpdateInvitation(a[1], i, "accepted") ELSE a),
                    M!WithTx(mem, M!UpdateInvitation(b[1], i, "accepted")))
  BY DEF AcceptInvitation
<1>2. StoresInv' /\ NoReturn /\ (split' \/ answer' = <<>>)
  BY <1>1, Accepts
<1> QED
  BY <1>2 DEF Holds, Answered

-----------------------------------------------------------------------------
(* Every step.                                                             *)

\* Every call keeps the invariant, brings no row back and is answered alike.
LEMMA EveryCall == ASSUME StoresInv, Next PROVE Holds
<1>1. CASE \/ CreateOrganization \/ AddUsage \/ CreateAuditEvent
  BY <1>1, PlainCreates
<1>2. CASE \/ CreateProject \/ CreateInvitation \/ CreateApp \/ CreateDatabase \/ CreateService
  BY <1>2, OrgCreates
<1>3. CASE \/ CreateBuild \/ CreateDomain \/ CreateRefreshToken
  BY <1>3, ChildCreates
<1>4. CASE \/ CreatePasswordResetToken \/ CreateApiToken
  BY <1>4, HashCreates
<1>5. CASE \/ CreateUser \/ CreateRelease \/ AddMembership
  BY <1>5, CreateUserHolds, CreateReleaseHolds, AddMembershipHolds
<1>6. CASE \/ UpdateUser \/ UpdateOrg \/ UpdateMembershipRole \/ UpdateApp \/ UpdateBuild \/ UpdateRelease
           \/ UpdateDatabase \/ UpdateService \/ RevokeRefreshToken
  BY <1>6, PlainUpdates
<1>7. CASE \/ RemoveMembership \/ DeleteApp \/ DeleteDomain \/ DeleteDatabase \/ DeleteService
           \/ DeletePlan \/ DeletePricingComponent \/ DeleteServiceTemplate
  BY <1>7, PlainDeletes
<1>8. CASE \/ DeleteProject \/ DeleteApiToken \/ DeleteAppEnv \/ DeleteExpiredRefreshTokens
  BY <1>8, DeleteProjectHolds, DeleteApiTokenHolds, TakeOutHolds
<1>9. CASE \/ RevokeInvitation \/ AcceptInvitation \/ UpdateDomain
  BY <1>9, RevokeInvitationHolds, AcceptHolds, UpdateDomainHolds
<1>10. CASE \/ RevokeRefreshTokenIfActive \/ RevokeAllUserRefreshTokens \/ InvalidateUserPasswordResetTokens
            \/ ConsumePasswordResetToken \/ Expire \/ (group = "api" /\ TouchApiToken)
  BY <1>10, RevokeIfActiveHolds, RevokeAllHolds, ConsumeHolds, ExpireHolds, TouchHolds
<1>11. CASE \/ SetAppEnv \/ UpsertSubscription \/ SetUsageReportState \/ AddUsageIfAbsent \/ MarkEventProcessed
  BY <1>11, SetAppEnvHolds, OrgSettings, AbsentHolds
<1>12. CASE \/ SetMeterState \/ UpsertPlan \/ UpsertPricingComponent \/ UpsertServiceTemplate \/ UpdateSettings
  BY <1>12, Settings
<1> QED
  BY <1>1, <1>2, <1>3, <1>4, <1>5, <1>6, <1>7, <1>8, <1>9, <1>10, <1>11, <1>12 DEF Next

\* The stores as they are seeded.
LEMMA StoresInit == ASSUME Init PROVE StoresInv
<1> DEFINE Seeds == {"plans", "pricing_components", "service_templates", "platform_settings"}
<1>1. /\ pg = Seeded /\ mem = Seeded /\ used = {} /\ split = FALSE /\ group \in Groups
  BY DEF Init
<1>2. /\ Seeded = [t \in DOMAIN Seeded |-> Seeded[t]] /\ DOMAIN Seeded = TableNames
      /\ \A t \in TableNames : Seeded[t] = IF t \in Seeds THEN [k \in {1} |-> [v |-> 0]] ELSE Empty
  BY DEF Seeded
<1>3. DOMAIN Empty = {} /\ Table(Empty) /\ Table([k \in {1} |-> [v |-> 0]])
  <2>1. DOMAIN Empty = {} /\ Empty = [k \in DOMAIN Empty |-> Empty[k]]
    BY DEF Empty
  <2>2. IsFiniteSet({}) /\ IsFiniteSet({1})
    BY FS_EmptySet, FS_Singleton
  <2>3. LET f == [k \in {1} |-> [v |-> 0]] IN DOMAIN f = {1} /\ f = [k \in DOMAIN f |-> f[k]]
    OBVIOUS
  <2> QED
    BY <2>1, <2>2, <2>3 DEF Table
<1>4. \A t \in TableNames : Table(Seeded[t])
  BY <1>2, <1>3
<1>5. \A t \in TableNames \ Seeds : DOMAIN Seeded[t] = {}
  BY <1>2, <1>3
<1>6. \A t \in Seeds : t \in TableNames /\ DOMAIN Seeded[t] = {1} /\ Columns(t) = {}
  BY <1>2, ColumnsAre DEF TableNames
<1>7. Shaped(Seeded)
  <2>1. \A t \in Real : \A k \in DOMAIN Seeded[t] : Columns(t) \subseteq DOMAIN Seeded[t][k]
    BY <1>5, <1>6 DEF Real
  <2> QED
    BY <1>2, <1>4, <2>1 DEF Shaped
<1>8. \A t \in Real : \A k \in DOMAIN Seeded[t] : t \in Seeds
  BY <1>5 DEF Real
<1>9. \A t \in Seeds : \A row : P!Parents(t, row) = {}
  BY NoParents
<1>10. Apart(Seeded) /\ Rooted(Seeded)
  <2>1. ASSUME NEW t \in Seeds, NEW k, NEW row PROVE ~Clash(Seeded, t, k, row)
    BY NoClash
  <2>2. ASSUME NEW t \in Seeds, NEW row PROVE ~Lost(Seeded, t, row)
    BY <1>9 DEF Lost
  <2> HIDE DEF Seeds
  <2> QED
    BY <1>8, <2>1, <2>2 DEF Apart, Rooted
<1>11. Sound(Seeded)
  BY <1>7, <1>10 DEF Sound
<1>12. /\ "users_by_email" \in TableNames \ Seeds /\ "users" \in TableNames \ Seeds
       /\ "invitations" \in TableNames \ Seeds
       /\ "app_env" \in TableNames \ Seeds /\ "project_memberships" \in TableNames \ Seeds
       /\ Listed \subseteq TableNames \ Seeds
  BY DEF TableNames, Listed, Base
<1>13. pg["users_by_email"] = Empty
  BY <1>1, <1>2, <1>12
<1>14. Leads /\ Keyed
  BY <1>1, <1>5, <1>12 DEF Leads, EmailIndex, Keyed
<1>15. Given
  <2>1. \A t \in Real : \A k \in DOMAIN mem[t] : P!Parents(t, mem[t][k]) \subseteq used
    BY <1>1, <1>8, <1>9
  <2>2. \A t \in Listed : DOMAIN mem[t] = {}
    BY <1>1, <1>5, <1>12
  <2> QED
    BY <1>1, <2>1, <2>2 DEF Given
<1>16. Same
  BY <1>1 DEF Same, Alike
<1> QED
  BY <1>1, <1>7, <1>11, <1>13, <1>14, <1>15, <1>16 DEF StoresInv

-----------------------------------------------------------------------------
(* What the stores hold.                                                   *)

\* Until the stores part, the tables of the in-memory store have the rows of PostgreSQL and
\* others that lost their parent.
LEMMA Unsplit ==
    ASSUME StoresInv, ~split
    PROVE  /\ \A t \in Firm : pg[t] = mem[t]
           /\ \A t \in Real : Alike(t) /\ t \in TableNames
<1>1. ASSUME NEW t \in Real PROVE (t \in Firm => pg[t] = mem[t]) /\ (t \notin Firm => Alike(t))
  BY DEF StoresInv, Same, Exempt
<1>2. ASSUME NEW t \in Real, pg[t] = mem[t] PROVE Alike(t)
  BY <1>2 DEF Alike
<1> QED
  BY <1>1, <1>2 DEF Firm, Real

\* The rows whose parents are there.
LEMMA LiveIs ==
    ASSUME NEW db, NEW t \in Real
    PROVE  /\ DOMAIN Live(db)[t] = {k \in DOMAIN db[t] : ~Lost(db, t, db[t][k])}
           /\ Live(db)[t] = [k \in DOMAIN Live(db)[t] |-> Live(db)[t][k]]
           /\ \A k \in DOMAIN Live(db)[t] : Live(db)[t][k] = db[t][k]
<1> DEFINE K == {k \in DOMAIN db[t] : \A p \in P!Parents(t, db[t][k]) : Has(db, p[1], p[2])}
           f == Live(db)[t]
<1>1. f = Only(db[t], K)
  BY DEF Live, Real
<1>2. K = {k \in DOMAIN db[t] : ~Lost(db, t, db[t][k])}
  BY DEF Lost
<1>3. DOMAIN f = DOMAIN db[t] \intersect K /\ f = [k \in DOMAIN f |-> f[k]] /\ \A k \in DOMAIN f : f[k] = db[t][k]
  <2> HIDE DEF K, f
  <2> QED
    BY <1>1 DEF Only
<1> QED
  BY <1>2, <1>3

\* ... for a table whose rows that have a parent are those of PostgreSQL.
LEMMA LiveRows ==
    ASSUME StoresInv, NEW t \in Real, Alike(t)
    PROVE  Live(mem)[t] = pg[t]
<1> DEFINE f == Live(mem)[t]
<1>1. /\ DOMAIN f = {k \in DOMAIN mem[t] : ~Lost(mem, t, mem[t][k])}
      /\ f = [k \in DOMAIN f |-> f[k]] /\ \A k \in DOMAIN f : f[k] = mem[t][k]
  BY LiveIs
<1> HIDE DEF f
<1>2. \A row : Lost(pg, t, row) <=> Lost(mem, t, row)
  BY BaseSame
<1>3. \A k \in DOMAIN pg[t] : k \in DOMAIN mem[t] /\ mem[t][k] = pg[t][k] /\ ~Lost(pg, t, pg[t][k])
  BY DEF Alike, StoresInv, Sound, Rooted
<1>4. \A k \in DOMAIN mem[t] : ~Lost(pg, t, mem[t][k]) => k \in DOMAIN pg[t]
  BY DEF Alike
<1>5. DOMAIN f = DOMAIN pg[t]
  BY <1>1, <1>2, <1>3, <1>4
<1>6. \A k \in DOMAIN f : f[k] = pg[t][k]
  BY <1>1, <1>3, <1>5
<1>7. pg[t] = [k \in DOMAIN pg[t] |-> pg[t][k]]
  BY DEF StoresInv, Sound, Shaped, Table, Real
<1> QED
  BY <1>1, <1>5, <1>6, <1>7 DEF f

\* The invariant says what the stores hold.
LEMMA AgreeRows == ASSUME StoresInv PROVE TypeOK /\ SameRows /\ NoOrphanRow /\ OneOwnerPerHost /\ EmailIndex
<1>1. TypeOK
  BY DEF StoresInv, Sound, Shaped, Keyed, Given, TypeOK, Numbered, TableNames
<1>2. SameRows
  <2> SUFFICES ASSUME ~split, NEW t \in Real PROVE Live(mem)[t] = pg[t]
    BY DEF SameRows, Real
  <2> QED
    BY Unsplit, LiveRows
<1>3. NoOrphanRow
  <2> SUFFICES ASSUME NEW t \in Real PROVE Live(pg)[t] = pg[t]
    BY DEF NoOrphanRow, Real
  <2> DEFINE f == Live(pg)[t]
  <2>1. /\ DOMAIN f = {k \in DOMAIN pg[t] : ~Lost(pg, t, pg[t][k])}
        /\ f = [k \in DOMAIN f |-> f[k]] /\ \A k \in DOMAIN f : f[k] = pg[t][k]
    BY LiveIs
  <2> HIDE DEF f
  <2>2. DOMAIN f = DOMAIN pg[t] /\ pg[t] = [k \in DOMAIN pg[t] |-> pg[t][k]]
    BY <2>1 DEF StoresInv, Sound, Rooted, Shaped, Table, Real
  <2> QED
    BY <2>1, <2>2 DEF f
<1>4. OneOwnerPerHost
  <2> SUFFICES ASSUME NEW d \in DOMAIN pg["domains"], NEW e \in DOMAIN pg["domains"],
                      pg["domains"][d].verified, pg["domains"][e].verified,
                      pg["domains"][d].host = pg["domains"][e].host, d # e
               PROVE  FALSE
    BY DEF OneOwnerPerHost
  <2>1. /\ P!Unique("domains", pg["domains"][d]) = {pg["domains"][d].host}
        /\ P!Unique("domains", pg["domains"][e]) = {pg["domains"][d].host}
    BY DEF P!Unique
  <2>2. Clash(pg, "domains", d, pg["domains"][d])
    BY <2>1 DEF Clash
  <2> QED
    BY <2>2 DEF StoresInv, Sound, Apart, Real, TableNames
<1>5. EmailIndex
  BY DEF StoresInv, Leads
<1> QED
  BY <1>1, <1>2, <1>3, <1>4, <1>5

-----------------------------------------------------------------------------
(* What the queries find.                                                  *)

\* The rows in the order of a list.
LEMMA Counted == ASSUME NEW S PROVE P!Cardinality(S) = Cardinality(S) /\ M!Cardinality(S) = Cardinality(S)
  BY DEF P!Cardinality, M!Cardinality, Cardinality, P!IsFiniteSet, M!IsFiniteSet, IsFiniteSet

\* Both stores order a list alike.
LEMMA DescendingAlike ==
    ASSUME NEW f, NEW col
    PROVE  P!Descending(f, col) = Descending(f, col) /\ M!Descending(f, col) = Descending(f, col)
<1> DEFINE B(k) == {j \in DOMAIN f : f[j][col] > f[k][col] \/ (f[j][col] = f[k][col] /\ j > k)}
           d == [i \in 1..Cardinality(DOMAIN f) |-> CHOOSE k \in DOMAIN f : Cardinality(B(k)) = i - 1]
           p == [i \in 1..P!Cardinality(DOMAIN f) |-> CHOOSE k \in DOMAIN f : P!Cardinality(B(k)) = i - 1]
           m == [i \in 1..M!Cardinality(DOMAIN f) |-> CHOOSE k \in DOMAIN f : M!Cardinality(B(k)) = i - 1]
<1>1. Descending(f, col) = d /\ P!Descending(f, col) = p /\ M!Descending(f, col) = m
  BY DEF Descending, P!Descending, M!Descending
<1> HIDE DEF B
<1>2. ASSUME NEW i
      PROVE  /\ (CHOOSE k \in DOMAIN f : P!Cardinality(B(k)) = i - 1) = (CHOOSE k \in DOMAIN f :
                 Cardinality(B(k)) = i - 1)
             /\ (CHOOSE k \in DOMAIN f : M!Cardinality(B(k)) = i - 1) = (CHOOSE k \in DOMAIN f :
                 Cardinality(B(k)) = i - 1)
  BY Counted
<1>3. p = d /\ m = d
  BY Counted, <1>2
<1> QED
  BY <1>1, <1>3

\* An ordered list has a length.
LEMMA DescendingIs ==
    ASSUME NEW f, NEW col, IsFiniteSet(DOMAIN f)
    PROVE  Len(Descending(f, col)) = Cardinality(DOMAIN f) /\ Len(Descending(f, col)) \in Nat
<1> DEFINE B(k) == {j \in DOMAIN f : f[j][col] > f[k][col] \/ (f[j][col] = f[k][col] /\ j > k)}
           At(i) == CHOOSE k \in DOMAIN f : Cardinality(B(k)) = i - 1
           d == [i \in 1..Cardinality(DOMAIN f) |-> At(i)]
<1>1. Descending(f, col) = d
  BY DEF Descending
<1> HIDE DEF At
<1>2. Cardinality(DOMAIN f) \in Nat
  BY FS_CardinalityType
<1>3. Len(d) = Cardinality(DOMAIN f)
  BY <1>2
<1> HIDE DEF d
<1> QED
  BY <1>1, <1>2, <1>3

\* Both modules read a table alike.
LEMMA QueriesAlike ==
    /\ \A db, t, k : P!Get(db, t, k) = Get(db, t, k) /\ M!Get(db, t, k) = Get(db, t, k)
    /\ \A f, col, x : P!Find(f, col, x) = Find(f, col, x) /\ M!Find(f, col, x) = Find(f, col, x)
    /\ \A f, K : P!Only(f, K) = Only(f, K) /\ M!Only(f, K) = Only(f, K)
    /\ \A f, col, x : P!Where(f, col, x) = Where(f, col, x) /\ M!Where(f, col, x) = Where(f, col, x)
    /\ \A f, col : P!Descending(f, col) = Descending(f, col) /\ M!Descending(f, col) = Descending(f, col)
    /\ \A db, t, k : P!Has(db, t, k) = Has(db, t, k) /\ M!Has(db, t, k) = Has(db, t, k)
    /\ P!Nothing = Nothing /\ M!Nothing = Nothing
<1>1. \A db, t, k : P!Get(db, t, k) = Get(db, t, k) /\ M!Get(db, t, k) = Get(db, t, k)
  BY DEF P!Get, M!Get, Get
<1>2. \A f, col, x : P!Find(f, col, x) = Find(f, col, x) /\ M!Find(f, col, x) = Find(f, col, x)
  BY DEF P!Find, M!Find, Find
<1>3. \A f, K : P!Only(f, K) = Only(f, K) /\ M!Only(f, K) = Only(f, K)
  BY DEF P!Only, M!Only, Only
<1>4. \A db, t, k : P!Has(db, t, k) = Has(db, t, k) /\ M!Has(db, t, k) = Has(db, t, k)
  BY DEF P!Has, M!Has, Has
<1>5. P!Nothing = Nothing /\ M!Nothing = Nothing
  BY DEF P!Nothing, M!Nothing, Nothing
<1> QED
  BY <1>1, <1>2, <1>3, <1>4, <1>5, ReadsAlike, DescendingAlike

\* The pages.
LEMMA PagesAlike ==
    ASSUME NEW s, Len(s) \in Nat, NEW p, p.limit \in Int, p.offset \in Int
    PROVE  /\ P!appendPage(s, p) = M!applyPage(s, p)
           /\ p.limit > 0 => Len(P!appendPage(s, p)) <= p.limit
<1> DEFINE off == IF p.offset > 0 THEN p.offset ELSE 0
           end == IF off + p.limit < Len(s) THEN off + p.limit ELSE Len(s)
<1>1. off \in Nat /\ end \in Int /\ off = IF p.offset < 0 THEN 0 ELSE p.offset
  OBVIOUS
<1>2. P!appendPage(s, p) = IF p.limit <= 0 THEN s ELSE SubSeq(s, off + 1, end)
  BY DEF P!appendPage
<1>3. M!applyPage(s, p) = IF p.limit <= 0 THEN s ELSE IF off >= Len(s) THEN <<>> ELSE SubSeq(s, off + 1, end)
  BY <1>1 DEF M!applyPage
<1>4. p.limit > 0 /\ off >= Len(s) => end = Len(s)
  BY <1>1
<1>5. \A a, b \in Int : b < a => SubSeq(s, a, b) = <<>>
  OBVIOUS
<1>6. \A a, b \in Int : a - 1 <= b => Len(SubSeq(s, a, b)) = b - a + 1
  OBVIOUS
<1>7. p.limit > 0 => end <= off + p.limit
  BY <1>1
<1> HIDE DEF off, end
<1>8. CASE p.limit <= 0
  BY <1>2, <1>3, <1>8
<1>9. CASE p.limit > 0 /\ off >= Len(s)
  <2>1. SubSeq(s, off + 1, end) = <<>>
    BY <1>1, <1>4, <1>5, <1>9
  <2>2. P!appendPage(s, p) = <<>> /\ M!applyPage(s, p) = <<>>
    BY <1>2, <1>3, <1>9, <2>1
  <2>3. Len(<<>>) = 0
    OBVIOUS
  <2> QED
    BY <1>9, <2>2, <2>3
<1>10. CASE p.limit > 0 /\ off < Len(s)
  <2>1. off <= end
    BY <1>10 DEF off, end
  <2>2. Len(SubSeq(s, off + 1, end)) = end - off
    BY <1>1, <1>6, <2>1
  <2> QED
    BY <1>1, <1>2, <1>3, <1>7, <1>10, <2>2
<1> QED
  BY <1>1, <1>8, <1>9, <1>10

\* The rows under an app or a project that is there are the same in both stores.
LEMMA WhereAlike ==
    ASSUME StoresInv, NEW t \in {"builds", "releases", "app_env", "domains"}, Alike(t), NEW a \in DOMAIN pg["apps"]
    PROVE  Where(pg[t], "app", a) = Where(mem[t], "app", a)
<1> DEFINE f == Where(pg[t], "app", a)
           g == Where(mem[t], "app", a)
<1>1. DOMAIN f = {k \in DOMAIN pg[t] : pg[t][k].app = a} /\ f = [k \in DOMAIN f |-> f[k]]
      /\ \A k \in DOMAIN f : f[k] = pg[t][k]
  BY DEF Where, Only
<1>2. DOMAIN g = {k \in DOMAIN mem[t] : mem[t][k].app = a} /\ g = [k \in DOMAIN g |-> g[k]]
      /\ \A k \in DOMAIN g : g[k] = mem[t][k]
  BY DEF Where, Only
<1> HIDE DEF f, g
<1>3. \A k \in DOMAIN g : k \in DOMAIN pg[t]
  <2> SUFFICES ASSUME NEW k \in DOMAIN g PROVE ~Lost(pg, t, mem[t][k])
    BY <1>2 DEF Alike
  <2>1. P!Parents(t, mem[t][k]) = {<<"apps", a>>}
    BY <1>2, OneParent
  <2> QED
    BY <2>1 DEF Lost, Has
<1>4. DOMAIN f = DOMAIN g /\ \A k \in DOMAIN f : f[k] = g[k]
  BY <1>1, <1>2, <1>3 DEF Alike
<1>5. f = g
  BY <1>1, <1>2, <1>4
<1> QED
  BY <1>5 DEF f, g

\* A user is found by email through the index.
LEMMA UserByEmail ==
    ASSUME StoresInv, NEW e
    PROVE  P!GetUserByEmail(pg, e) = M!GetUserByEmail(mem, e)
<1> DEFINE f == mem["users"]
           x == mem["users_by_email"]
<1>1. pg["users"] = f
  BY FirmSame DEF Firm, Real, TableNames, Loose
<1>2. P!GetUserByEmail(pg, e) = Find(f, "email", e)
  BY <1>1, QueriesAlike DEF P!GetUserByEmail
<1>3. M!GetUserByEmail(mem, e) = IF e \in DOMAIN x THEN {<<x[e], f[x[e]]>>} ELSE {}
  BY QueriesAlike DEF M!GetUserByEmail, Has
<1>4. /\ \A u \in DOMAIN f : f[u].email \in DOMAIN x /\ x[f[u].email] = u
      /\ \A c \in DOMAIN x : x[c] \in DOMAIN f /\ f[x[c]].email = c
  BY DEF StoresInv, Leads, EmailIndex, Has
<1> HIDE DEF f, x
<1>5. {u \in DOMAIN f : f[u]["email"] = e} = IF e \in DOMAIN x THEN {x[e]} ELSE {}
  BY <1>4
<1>6. Find(f, "email", e) = IF e \in DOMAIN x THEN {<<x[e], f[x[e]]>>} ELSE {}
  BY <1>5 DEF Find
<1> QED
  BY <1>2, <1>3, <1>6

\* A membership of a project that is there.
LEMMA ProjectMember ==
    ASSUME StoresInv, ~split, NEW p \in DOMAIN pg["projects"], NEW u
    PROVE  P!GetProjectMembership(pg, p, u) = M!GetProjectMembership(mem, p, u)
<1> DEFINE t == "project_memberships"
           k == <<p, u>>
<1>1. Alike(t)
  BY Unsplit DEF Real, TableNames
<1>2. /\ P!GetProjectMembership(pg, p, u) = {pg[t][j] : j \in DOMAIN pg[t] \intersect {k}}
      /\ M!GetProjectMembership(mem, p, u) = {mem[t][j] : j \in DOMAIN mem[t] \intersect {k}}
  BY DEF P!GetProjectMembership, M!GetProjectMembership, P!Get, M!Get
<1>3. ASSUME k \in DOMAIN mem[t] PROVE k \in DOMAIN pg[t]
  <2>1. mem[t][k].project = p /\ mem[t][k].user = u
    BY <1>3 DEF StoresInv, Keyed
  <2>2. P!Parents(t, mem[t][k]) = {<<"projects", p>>, <<"users", u>>}
    BY <2>1, TwoParents
  <2>3. <<"users", u>> \in used
    BY <1>3, <2>2 DEF StoresInv, Given, Real, TableNames
  <2>4. u \in DOMAIN pg["users"]
    BY <2>3, KnownThere
  <2>5. ~Lost(pg, t, mem[t][k])
    BY <2>2, <2>4 DEF Lost, Has
  <2> QED
    BY <1>1, <1>3, <2>5 DEF Alike
<1>4. DOMAIN pg[t] \intersect {k} = DOMAIN mem[t] \intersect {k} /\ (k \in DOMAIN pg[t] => mem[t][k] = pg[t][k])
  BY <1>1, <1>3 DEF Alike
<1> HIDE DEF k
<1> QED
  BY <1>2, <1>4

\* A row that PostgreSQL has is found in both.
LEMMA GetAlike ==
    ASSUME NEW t, Alike(t), NEW k \in DOMAIN pg[t]
    PROVE  P!Get(pg, t, k) = M!Get(mem, t, k)
<1>1. k \in DOMAIN mem[t] /\ mem[t][k] = pg[t][k]
  BY DEF Alike
<1>2. P!Get(pg, t, k) = {pg[t][k]} /\ M!Get(mem, t, k) = {mem[t][k]}
  BY <1>1 DEF P!Get, M!Get
<1> QED
  BY <1>1, <1>2

\* The tables without a parent that can go.
LEMMA FirmTables == {"users", "organizations", "memberships", "projects", "invitations", "apps",
    "databases", "services",
                     "refresh_tokens", "password_reset_tokens", "api_tokens", "subscriptions", "usage_records",
                     "processed_stripe_events", "meter_state", "usage_report_state", "audit_events", "plans",
                     "pricing_components", "service_templates", "platform_settings"} \subseteq Firm
  BY DEF Firm, Real, TableNames, Loose

\* The organizations of a user.
LEMMA OrgsOfUser ==
    ASSUME StoresInv, NEW u
    PROVE  P!ListOrganizationsForUser(pg, u) = M!ListOrganizationsForUser(mem, u)
<1> DEFINE f == mem["memberships"]
           D == DOMAIN Where(f, "user", u)
<1>1. pg["memberships"] = f /\ pg["organizations"] = mem["organizations"]
  BY FirmTables, FirmSame
<1>2. P!ListOrganizationsForUser(pg, u) = {f[m].org : m \in D}
  BY <1>1, QueriesAlike DEF P!ListOrganizationsForUser
<1>3. M!ListOrganizationsForUser(mem, u) = {f[m].org : m \in D} \intersect DOMAIN mem["organizations"]
  BY QueriesAlike DEF M!ListOrganizationsForUser
<1>4. D \subseteq DOMAIN f
  BY DEF Where, Only
<1>5. ASSUME NEW m \in D PROVE f[m].org \in DOMAIN mem["organizations"]
  <2>1. m \in DOMAIN pg["memberships"]
    BY <1>1, <1>4
  <2>2. ~Lost(pg, "memberships", pg["memberships"][m])
    BY <2>1 DEF StoresInv, Sound, Rooted, Real, TableNames
  <2>3. <<"organizations", pg["memberships"][m].org>> \in P!Parents("memberships", pg["memberships"][m])
    BY TwoParents
  <2>4. Has(pg, "organizations", pg["memberships"][m].org)
    BY <2>2, <2>3 DEF Lost
  <2> QED
    BY <1>1, <2>4 DEF Has
<1> HIDE DEF D, f
<1> QED
  BY <1>2, <1>3, <1>5

\* Every read finds the same.
LEMMA ReadsAgree == ASSUME StoresInv PROVE SameReads
<1> SUFFICES ASSUME ~split PROVE SameReads
  BY DEF SameReads
<1>1. \A t \in Firm : pg[t] = mem[t]
  BY Unsplit
<1>2. \A t \in Real : Alike(t)
  BY Unsplit
<1>3. /\ pg["users"] = mem["users"] /\ pg["organizations"] = mem["organizations"]
      /\ pg["memberships"] = mem["memberships"]
      /\ pg["projects"] = mem["projects"] /\ pg["invitations"] = mem["invitations"] /\ pg["apps"] = mem["apps"]
      /\ pg["databases"] = mem["databases"] /\ pg["services"] = mem["services"]
      /\ pg["refresh_tokens"] = mem["refresh_tokens"] /\ pg["password_reset_tokens"] = mem["password_reset_tokens"]
      /\ pg["api_tokens"] = mem["api_tokens"] /\ pg["subscriptions"] = mem["subscriptions"]
      /\ pg["usage_records"] = mem["usage_records"]
      /\ pg["processed_stripe_events"] = mem["processed_stripe_events"]
      /\ pg["meter_state"] = mem["meter_state"] /\ pg["usage_report_state"] = mem["usage_report_state"]
      /\ pg["plans"] = mem["plans"] /\ pg["pricing_components"] = mem["pricing_components"]
      /\ pg["service_templates"] = mem["service_templates"] /\ pg["platform_settings"] = mem["platform_settings"]
  BY <1>1, FirmTables
<1>4. \A t, k : pg[t] = mem[t] => P!Get(pg, t, k) = M!Get(mem, t, k)
  BY DEF P!Get, M!Get
<1>5. /\ \A f, col, x : P!Find(f, col, x) = M!Find(f, col, x)
      /\ \A f, col, x : P!Where(f, col, x) = M!Where(f, col, x)
      /\ \A f, col : P!Descending(f, col) = M!Descending(f, col)
      /\ P!Nothing = M!Nothing
  BY QueriesAlike
<1>6. \A u \in Ids :
        /\ P!GetUserByID(pg, u) = M!GetUserByID(mem, u)
        /\ P!GetUserByEmail(pg, u) = M!GetUserByEmail(mem, u)
        /\ P!ListOrganizationsForUser(pg, u) = M!ListOrganizationsForUser(mem, u)
        /\ P!ListApiTokensByUser(pg, u) = M!ListApiTokensByUser(mem, u)
  <2> TAKE u \in Ids
  <2>1. P!GetUserByID(pg, u) = M!GetUserByID(mem, u)
    BY <1>3, <1>4 DEF P!GetUserByID, M!GetUserByID
  <2>2. P!GetUserByEmail(pg, u) = M!GetUserByEmail(mem, u)
    BY UserByEmail
  <2>3. P!ListOrganizationsForUser(pg, u) = M!ListOrganizationsForUser(mem, u)
    BY OrgsOfUser
  <2>4. P!ListApiTokensByUser(pg, u) = M!ListApiTokensByUser(mem, u)
    BY <1>3, <1>5 DEF P!ListApiTokensByUser, M!ListApiTokensByUser
  <2> QED
    BY <2>1, <2>2, <2>3, <2>4
<1>7. \A o \in Ids :
        /\ P!GetOrganization(pg, o) = M!GetOrganization(mem, o)
        /\ P!ListMemberships(pg, o) = M!ListMemberships(mem, o)
        /\ P!ListProjectsByOrg(pg, o) = M!ListProjectsByOrg(mem, o)
        /\ P!ListInvitationsByOrg(pg, o) = M!ListInvitationsByOrg(mem, o)
        /\ P!ListAppsByOrg(pg, o) = M!ListAppsByOrg(mem, o)
        /\ P!ListDatabasesByOrg(pg, o) = M!ListDatabasesByOrg(mem, o)
        /\ P!ListServicesByOrg(pg, o) = M!ListServicesByOrg(mem, o)
        /\ P!GetSubscription(pg, o) = M!GetSubscription(mem, o)
        /\ P!GetUsageReportState(pg, o) = M!GetUsageReportState(mem, o)
        /\ \A u \in Ids : P!GetMembership(pg, o, u) = M!GetMembership(mem, o, u)
  <2> TAKE o \in Ids
  <2>1. /\ P!GetOrganization(pg, o) = M!GetOrganization(mem, o)
        /\ P!GetSubscription(pg, o) = M!GetSubscription(mem, o)
        /\ P!GetUsageReportState(pg, o) = M!GetUsageReportState(mem, o)
        /\ \A u \in Ids : P!GetMembership(pg, o, u) = M!GetMembership(mem, o, u)
    BY <1>3, <1>4 DEF P!GetOrganization, M!GetOrganization, P!GetSubscription, M!GetSubscription,
       P!GetUsageReportState, M!GetUsageReportState, P!GetMembership, M!GetMembership
  <2>2. /\ P!ListMemberships(pg, o) = M!ListMemberships(mem, o)
        /\ P!ListProjectsByOrg(pg, o) = M!ListProjectsByOrg(mem, o)
        /\ P!ListInvitationsByOrg(pg, o) = M!ListInvitationsByOrg(mem, o)
        /\ P!ListAppsByOrg(pg, o) = M!ListAppsByOrg(mem, o)
        /\ P!ListDatabasesByOrg(pg, o) = M!ListDatabasesByOrg(mem, o)
        /\ P!ListServicesByOrg(pg, o) = M!ListServicesByOrg(mem, o)
    BY <1>3, <1>5 DEF P!ListMemberships, M!ListMemberships, P!ListProjectsByOrg, M!ListProjectsByOrg,
       P!ListInvitationsByOrg, M!ListInvitationsByOrg, P!ListAppsByOrg, M!ListAppsByOrg,
       P!ListDatabasesByOrg, M!ListDatabasesByOrg, P!ListServicesByOrg, M!ListServicesByOrg
  <2> QED
    BY <2>1, <2>2
<1>8. \A k \in Ids :
        /\ P!GetProject(pg, k) = M!GetProject(mem, k)
        /\ P!GetInvitationByToken(pg, k) = M!GetInvitationByToken(mem, k)
        /\ P!GetApp(pg, k) = M!GetApp(mem, k)
        /\ P!GetDatabase(pg, k) = M!GetDatabase(mem, k)
        /\ P!GetService(pg, k) = M!GetService(mem, k)
        /\ P!GetRefreshToken(pg, k) = M!GetRefreshToken(mem, k)
        /\ P!GetPasswordResetTokenByHash(pg, k) = M!GetPasswordResetTokenByHash(mem, k)
        /\ P!GetApiTokenByHash(pg, k) = M!GetApiTokenByHash(mem, k)
        /\ P!EventProcessed(pg, k) = M!EventProcessed(mem, k)
        /\ P!GetPlan(pg, k) = M!GetPlan(mem, k)
        /\ P!GetPricingComponent(pg, k) = M!GetPricingComponent(mem, k)
        /\ P!GetServiceTemplate(pg, k) = M!GetServiceTemplate(mem, k)
  <2> TAKE k \in Ids
  <2>1. /\ P!GetProject(pg, k) = M!GetProject(mem, k)
        /\ P!GetApp(pg, k) = M!GetApp(mem, k)
        /\ P!GetDatabase(pg, k) = M!GetDatabase(mem, k)
        /\ P!GetService(pg, k) = M!GetService(mem, k)
        /\ P!GetRefreshToken(pg, k) = M!GetRefreshToken(mem, k)
        /\ P!GetPlan(pg, k) = M!GetPlan(mem, k)
        /\ P!GetPricingComponent(pg, k) = M!GetPricingComponent(mem, k)
        /\ P!GetServiceTemplate(pg, k) = M!GetServiceTemplate(mem, k)
    BY <1>3, <1>4 DEF P!GetProject, M!GetProject, P!GetApp, M!GetApp, P!GetDatabase, M!GetDatabase,
       P!GetService, M!GetService,
       P!GetRefreshToken, M!GetRefreshToken, P!GetPlan, M!GetPlan, P!GetPricingComponent, M!GetPricingComponent,
       P!GetServiceTemplate, M!GetServiceTemplate
  <2>2. /\ P!GetInvitationByToken(pg, k) = M!GetInvitationByToken(mem, k)
        /\ P!GetPasswordResetTokenByHash(pg, k) = M!GetPasswordResetTokenByHash(mem, k)
        /\ P!GetApiTokenByHash(pg, k) = M!GetApiTokenByHash(mem, k)
    BY <1>3, <1>5 DEF P!GetInvitationByToken, M!GetInvitationByToken, P!GetPasswordResetTokenByHash,
       M!GetPasswordResetTokenByHash,
       P!GetApiTokenByHash, M!GetApiTokenByHash
  <2>3. P!EventProcessed(pg, k) = M!EventProcessed(mem, k)
    BY <1>3 DEF P!EventProcessed, M!EventProcessed, P!Has, M!Has
  <2> QED
    BY <2>1, <2>2, <2>3
<1>9. \A s \in Ids \union {Nothing} :
        /\ P!GetSubscriptionByStripeID(pg, s) = M!GetSubscriptionByStripeID(mem, s)
        /\ P!GetSubscriptionByCustomerID(pg, s) = M!GetSubscriptionByCustomerID(mem, s)
  BY <1>3, <1>5 DEF P!GetSubscriptionByStripeID, M!GetSubscriptionByStripeID,
     P!GetSubscriptionByCustomerID, M!GetSubscriptionByCustomerID
<1>10. \A p \in DOMAIN pg["projects"], u \in Ids :
           P!GetProjectMembership(pg, p, u) = M!GetProjectMembership(mem, p, u)
  BY ProjectMember
<1>11. {"builds", "releases", "domains", "app_env"} \subseteq Real
  BY DEF Real, TableNames
<1>12. /\ \A b \in DOMAIN pg["builds"] : P!GetBuild(pg, b) = M!GetBuild(mem, b)
       /\ \A r \in DOMAIN pg["releases"] : P!GetRelease(pg, r) = M!GetRelease(mem, r)
       /\ \A d \in DOMAIN pg["domains"] : P!GetDomain(pg, d) = M!GetDomain(mem, d)
  BY <1>2, <1>11, GetAlike DEF P!GetBuild, M!GetBuild, P!GetRelease, M!GetRelease, P!GetDomain, M!GetDomain
<1>13. \A a \in DOMAIN pg["apps"] :
        /\ P!GetAppEnv(pg, a) = M!GetAppEnv(mem, a)
        /\ P!ListAppEnv(pg, a) = M!ListAppEnv(mem, a)
        /\ P!ListDomainsByApp(pg, a) = M!ListDomainsByApp(mem, a)
  <2> TAKE a \in DOMAIN pg["apps"]
  <2>1. Where(pg["app_env"], "app", a) = Where(mem["app_env"], "app", a)
        /\ Where(pg["domains"], "app", a) = Where(mem["domains"], "app", a)
    BY <1>2, <1>11, WhereAlike
  <2> QED
    BY <2>1, QueriesAlike DEF P!GetAppEnv, M!GetAppEnv, P!ListAppEnv, M!ListAppEnv, P!ListDomainsByApp,
       M!ListDomainsByApp
<1>14. \A h \in Hosts : ~Orphans => P!GetVerifiedDomainByHost(pg, h) = M!GetVerifiedDomainByHost(mem, h)
  <2> SUFFICES ASSUME NEW h \in Hosts, ~Orphans
          PROVE P!GetVerifiedDomainByHost(pg, h) = M!GetVerifiedDomainByHost(mem, h)
    OBVIOUS
  <2>1. Live(mem)["domains"] = mem["domains"]
    BY <1>11 DEF Orphans, Real
  <2>2. pg["domains"] = mem["domains"]
    BY <1>2, <1>11, <2>1, LiveRows
  <2> QED
    BY <1>5, <2>2 DEF P!GetVerifiedDomainByHost, M!GetVerifiedDomainByHost
<1>15. /\ P!GetMeterState(pg) = M!GetMeterState(mem)
       /\ P!GetSettings(pg) = M!GetSettings(mem)
       /\ P!CountUsers(pg) = M!CountUsers(mem)
       /\ P!ListAllOrgs(pg) = M!ListAllOrgs(mem)
       /\ P!ListAllSubscriptions(pg) = M!ListAllSubscriptions(mem)
       /\ P!SumUsageByMetric(pg) = M!SumUsageByMetric(mem)
       /\ P!ListPlans(pg) = M!ListPlans(mem)
       /\ P!ListPricingComponents(pg) = M!ListPricingComponents(mem)
       /\ P!ListServiceTemplates(pg) = M!ListServiceTemplates(mem)
  BY <1>3, <1>4 DEF P!GetMeterState, M!GetMeterState, P!GetSettings, M!GetSettings, P!CountUsers, M!CountUsers,
     P!ListAllOrgs, M!ListAllOrgs, P!ListAllSubscriptions, M!ListAllSubscriptions, P!SumUsageByMetric,
     M!SumUsageByMetric,
     P!ListPlans, M!ListPlans, P!ListPricingComponents, M!ListPricingComponents, P!ListServiceTemplates,
     M!ListServiceTemplates
<1> QED
  BY <1>6, <1>7, <1>8, <1>9, <1>10, <1>12, <1>13, <1>14, <1>15 DEF SameReads

\* The pages of some rows of a table, in both stores.
LEMMA PagesOf ==
    ASSUME NEW f, IsFiniteSet(DOMAIN f), NEW col, NEW p, p.limit \in Int, p.offset \in Int
    PROVE  /\ P!appendPage(P!Descending(f, col), p) = M!applyPage(M!Descending(f, col), p)
           /\ p.limit > 0 => Len(P!appendPage(P!Descending(f, col), p)) <= p.limit
<1> DEFINE s == Descending(f, col)
<1>1. Len(s) \in Nat
  BY DescendingIs
<1>2. P!Descending(f, col) = s /\ M!Descending(f, col) = s
  BY DescendingAlike
<1> HIDE DEF s
<1>3. /\ P!appendPage(s, p) = M!applyPage(s, p)
      /\ p.limit > 0 => Len(P!appendPage(s, p)) <= p.limit
  BY <1>1, PagesAlike
<1> QED
  BY <1>2, <1>3

\* Some rows of a finite table are finitely many.
LEMMA FewRows ==
    ASSUME NEW f, IsFiniteSet(DOMAIN f)
    PROVE  /\ \A col, x : IsFiniteSet(DOMAIN Where(f, col, x))
           /\ \A K : IsFiniteSet(DOMAIN Only(f, K))
<1>1. \A K : DOMAIN Only(f, K) \subseteq DOMAIN f
  BY DEF Only
<1>2. \A K : IsFiniteSet(DOMAIN Only(f, K))
  BY <1>1, FS_Subset
<1> QED
  BY <1>2 DEF Where

\* Every page is the same, and no longer than its limit.
LEMMA PagesAgree == ASSUME StoresInv PROVE SamePages
<1>1. /\ pg["usage_records"] = mem["usage_records"] /\ pg["audit_events"] = mem["audit_events"]
  BY FirmTables, FirmSame
<1>2. \A t \in {"builds", "releases"} : Alike(t)
  BY DEF StoresInv, Same, Exempt, Firm, Loose, Real, TableNames
<1>3. \A t \in {"builds", "releases", "usage_records", "audit_events"} : IsFiniteSet(DOMAIN pg[t])
  BY DEF StoresInv, Sound, Shaped, Table, TableNames
<1>4. \A t \in {"builds", "releases", "usage_records", "audit_events"} :
        \A col, x : IsFiniteSet(DOMAIN Where(pg[t], col, x))
  BY <1>3, FewRows
<1>5. \A p \in Pages : p.limit \in Int /\ p.offset \in Int
  BY PagesAssumption
<1>6. MaxPageLimit \in Nat /\ DefaultPageLimit \in Int /\ DefaultPageLimit > 0 /\ DefaultPageLimit <= MaxPageLimit
  BY PagesAssumption
<1>7. ASSUME NEW p \in Pages, NEW a \in DOMAIN pg["apps"]
      PROVE  /\ P!ListBuildsByApp(pg, a, p) = M!ListBuildsByApp(mem, a, p)
             /\ P!ListReleasesByApp(pg, a, p) = M!ListReleasesByApp(mem, a, p)
  <2> DEFINE b == Where(pg["builds"], "app", a)
             r == Where(pg["releases"], "app", a)
  <2>1. b = Where(mem["builds"], "app", a) /\ r = Where(mem["releases"], "app", a)
    BY <1>2, WhereAlike
  <2>2. IsFiniteSet(DOMAIN b) /\ IsFiniteSet(DOMAIN r)
    BY <1>4
  <2>3. /\ P!Where(pg["builds"], "app", a) = b /\ M!Where(mem["builds"], "app", a) = b
        /\ P!Where(pg["releases"], "app", a) = r /\ M!Where(mem["releases"], "app", a) = r
    BY <2>1, QueriesAlike
  <2> HIDE DEF b, r
  <2>4. /\ P!appendPage(P!Descending(b, "at"), p) = M!applyPage(M!Descending(b, "at"), p)
        /\ P!appendPage(P!Descending(r, "rev"), p) = M!applyPage(M!Descending(r, "rev"), p)
    BY <1>5, <2>2, PagesOf
  <2> QED
    BY <2>3, <2>4 DEF P!ListBuildsByApp, M!ListBuildsByApp, P!ListReleasesByApp, M!ListReleasesByApp
<1>8. ASSUME NEW p \in Pages, NEW o \in Ids
      PROVE  /\ P!ListUsageByOrg(pg, o, p) = M!ListUsageByOrg(mem, o, p)
             /\ P!ListUsageByOrgSince(pg, o, 2, p) = M!ListUsageByOrgSince(mem, o, 2, p)
  <2> DEFINE f == Where(pg["usage_records"], "org", o)
             g == Only(f, {k \in DOMAIN f : f[k].at >= 2})
  <2>1. P!Where(pg["usage_records"], "org", o) = f /\ M!Where(mem["usage_records"], "org", o) = f
    BY <1>1, QueriesAlike
  <2>2. IsFiniteSet(DOMAIN f)
    BY <1>4
  <2>3. IsFiniteSet(DOMAIN g) /\ P!Only(f, {k \in DOMAIN f : f[k].at >= 2}) = g
        /\ M!Only(f, {k \in DOMAIN f : f[k].at >= 2}) = g
    BY <2>2, FewRows, QueriesAlike
  <2> HIDE DEF f
  <2>4. /\ P!ListUsageByOrg(pg, o, p) = P!appendPage(P!Descending(f, "at"), p)
        /\ M!ListUsageByOrg(mem, o, p) = M!applyPage(M!Descending(f, "at"), p)
    BY <2>1 DEF P!ListUsageByOrg, M!ListUsageByOrg
  <2>5. /\ P!ListUsageByOrgSince(pg, o, 2, p) = P!appendPage(P!Descending(g, "at"), p)
        /\ M!ListUsageByOrgSince(mem, o, 2, p) = M!applyPage(M!Descending(g, "at"), p)
    BY <2>1, <2>3 DEF P!ListUsageByOrgSince, M!ListUsageByOrgSince
  <2> HIDE DEF g
  <2>6. /\ P!appendPage(P!Descending(f, "at"), p) = M!applyPage(M!Descending(f, "at"), p)
        /\ P!appendPage(P!Descending(g, "at"), p) = M!applyPage(M!Descending(g, "at"), p)
    BY <1>5, <2>2, <2>3, PagesOf
  <2> QED
    BY <2>4, <2>5, <2>6
<1>9. ASSUME NEW p \in Pages, NEW o \in Ids
      PROVE  LET s == P!ListAuditEvents(pg, o, p, DefaultPageLimit, MaxPageLimit)
             IN  /\ P!CountAuditEvents(pg, o) = M!CountAuditEvents(mem, o)
                 /\ s = M!ListAuditEvents(mem, o, p, DefaultPageLimit, MaxPageLimit)
                 /\ Len(s) <= MaxPageLimit
  <2> DEFINE f == Where(pg["audit_events"], "org", o)
             limit == IF p.limit <= 0 THEN DefaultPageLimit ELSE IF p.limit > MaxPageLimit
                 THEN MaxPageLimit ELSE p.limit
             q == [p EXCEPT !.limit = limit]
  <2>1. P!Where(pg["audit_events"], "org", o) = f /\ M!Where(mem["audit_events"], "org", o) = f
    BY <1>1, QueriesAlike
  <2>2. IsFiniteSet(DOMAIN f)
    BY <1>4
  <2> HIDE DEF f
  <2>3. /\ P!ListAuditEvents(pg, o, p, DefaultPageLimit, MaxPageLimit) = P!appendPage(P!Descending(f, "at"), q)
        /\ M!ListAuditEvents(mem, o, p, DefaultPageLimit, MaxPageLimit) = M!applyPage(M!Descending(f, "at"), q)
    BY <2>1 DEF P!ListAuditEvents, M!ListAuditEvents
  <2>4. limit \in Int /\ limit > 0 /\ limit <= MaxPageLimit
    BY <1>5, <1>6
  <2> HIDE DEF limit
  <2>5. p \in [limit : Int, offset : Int]
    BY PagesAssumption
  <2>6. q.limit = limit /\ q.offset \in Int
    BY <2>5
  <2> HIDE DEF q
  <2>7. /\ P!appendPage(P!Descending(f, "at"), q) = M!applyPage(M!Descending(f, "at"), q)
        /\ Len(P!appendPage(P!Descending(f, "at"), q)) <= q.limit
    BY <2>2, <2>4, <2>6, PagesOf
  <2>8. P!CountAuditEvents(pg, o) = M!CountAuditEvents(mem, o)
    <3>1. P!Descending(f, "at") = M!Descending(f, "at")
      BY DescendingAlike
    <3> QED
      BY <2>1, <3>1 DEF P!CountAuditEvents, M!CountAuditEvents
  <2>9. Len(P!appendPage(P!Descending(f, "at"), q)) <= MaxPageLimit
    BY <1>6, <2>4, <2>6, <2>7
  <2> QED
    BY <2>3, <2>7, <2>8, <2>9
<1>10. LET s == P!ListAllUsage(pg, MaxPageLimit)
           all == M!ListAllUsage(mem)
       IN  /\ s = SubSeq(Descending(all, "at"), 1, Len(s))
           /\ Len(s) = IF Cardinality(DOMAIN all) < MaxPageLimit THEN Cardinality(DOMAIN all) ELSE MaxPageLimit
  <2> DEFINE d == Descending(pg["usage_records"], "at")
             q == [limit |-> MaxPageLimit, offset |-> 0]
             n == Cardinality(DOMAIN pg["usage_records"])
             m == IF n < MaxPageLimit THEN n ELSE MaxPageLimit
  <2>1. n \in Nat /\ Len(d) = n
    BY <1>3, DescendingIs
  <2>2. P!ListAllUsage(pg, MaxPageLimit) = P!appendPage(d, q) /\ M!ListAllUsage(mem) = pg["usage_records"]
    BY <1>1, DescendingAlike DEF P!ListAllUsage, M!ListAllUsage
  <2> HIDE DEF d, n
  <2>3. P!appendPage(d, q) = IF MaxPageLimit <= 0 THEN d
                             ELSE SubSeq(d, 0 + 1, IF 0 + MaxPageLimit < Len(d) THEN 0 + MaxPageLimit ELSE Len(d))
    BY <1>6 DEF P!appendPage
  <2>4. P!appendPage(d, q) = SubSeq(d, 1, m) /\ m \in Nat
    BY <1>6, <2>1, <2>3
  <2> HIDE DEF m
  <2>5. Len(SubSeq(d, 1, m)) = m
    BY <2>4
  <2> QED
    BY <2>2, <2>4, <2>5 DEF d, n, m
<1> QED
  BY <1>7, <1>8, <1>9, <1>10 DEF SamePages

-----------------------------------------------------------------------------
(* Theorems.                                                               *)

\* The invariant says that the stores agree.
LEMMA Agree == ASSUME StoresInv PROVE StoresAgree
  BY AgreeRows, ReadsAgree, PagesAgree DEF StoresAgree

\* Every step keeps the invariant.
LEMMA StoresStep == ASSUME StoresInv, [Next]_vars PROVE StoresInv'
<1>1. CASE Next
  BY <1>1, EveryCall DEF Holds
<1>2. CASE UNCHANGED vars
  BY <1>2, Stays DEF vars
<1> QED
  BY <1>1, <1>2

\* For any ids, hosts, values, pages and calls, the two stores hold the rows that the
\* schema allows and are related table by table: the same, or the same but for rows whose
\* parent the in-memory store has forgotten to take along (ON DELETE CASCADE).
THEOREM StoresInvariant == Spec => []StoresInv
<1>1. Init => StoresInv
  BY StoresInit
<1>2. StoresInv /\ [Next]_vars => StoresInv'
  BY StoresStep
<1> QED
  BY <1>1, <1>2, PTL DEF Spec

\* Between calls the two stores hold and show the same, and each is consistent in itself:
\* rows, reads, pages, hosts and the index of emails (store.go: one interface, two
\* implementations).
THEOREM StoresAlwaysAgree == Spec => []StoresAgree
<1>1. StoresInv => StoresAgree
  BY Agree
<1> QED
  BY <1>1, StoresInvariant, PTL

\* A call is answered alike by both stores, but for the calls that the property names
\* (store.go: ErrNotFound, ErrConflict).
THEOREM AnswersAreAlike == Spec => SameAnswers
<1>1. StoresInv /\ [Next]_vars =>
        [\/ split' \/ answer' = <<>>
         \/ answer'[1] \in {NotFound, Invalid} /\ (Orphans \/ Orphans')
         \/ answer' = <<OK, NotFound>> /\ group = "api"]_vars
  BY EveryCall DEF Holds, Answered
<1> QED
  BY <1>1, StoresInvariant, PTL DEF Spec, SameAnswers

\* No call brings a deleted row back, in either store, whatever was read before it was
\* deleted (TouchApiToken, UpdateBuild, UpdateDomain).
THEOREM NothingComesBack == Spec => DeletedStaysDeleted
<1>1. StoresInv /\ [Next]_vars =>
        [\A e \in used : /\ ~Has(pg, e[1], e[2]) => ~Has(pg', e[1], e[2])
                         /\ ~Has(mem, e[1], e[2]) => ~Has(mem', e[1], e[2])]_vars
  BY EveryCall DEF Holds, NoReturn
<1> QED
  BY <1>1, StoresInvariant, PTL DEF Spec, DeletedStaysDeleted

=============================================================================
