------------------------------- MODULE Tables -------------------------------
(***************************************************************************)
(* What a store holds (store/store.go): for each table, a function from    *)
(* its keys to its rows.  A row keeps the columns that constraints and     *)
(* queries look at; all its other columns are one value, v.                *)
(*                                                                         *)
(* A call is an operator from the store to a pair: the store afterwards    *)
(* and the answer.  A read is an operator to what it finds, {} standing    *)
(* for ErrNotFound.  Ids are numbers; 0 is an empty reference.             *)
(***************************************************************************)
EXTENDS Integers, Sequences, FiniteSets

Nothing == 0
OK == "nil"
NotFound == "ErrNotFound"
Conflict == "ErrConflict"
Invalid == "ErrInvalid"
Yes == "true"
No == "false"

TableNames ==
    {"users", "users_by_email", "organizations", "memberships", "projects",
     "project_memberships", "invitations", "apps", "builds", "releases", "app_env", "domains",
     "databases", "services", "refresh_tokens", "password_reset_tokens", "api_tokens",
     "subscriptions", "usage_records", "processed_stripe_events", "meter_state",
     "usage_report_state", "audit_events", "plans", "pricing_components",
     "service_templates", "platform_settings"}

\* A table without rows.
Empty == [k \in {} |-> Nothing]

Has(db, t, k) == k \in DOMAIN db[t]

\* The rows of a table with some of the keys, or with this value in the column.
Only(f, keys) == [k \in DOMAIN f \intersect keys |-> f[k]]
Where(f, col, x) == Only(f, {k \in DOMAIN f : f[k][col] = x})

\* The store with a row written, and with rows gone.
Put(db, t, k, row) ==
    [db EXCEPT ![t] = [j \in DOMAIN db[t] \union {k} |-> IF j = k THEN row ELSE db[t][j]]]
Without(db, t, keys) == [db EXCEPT ![t] = Only(db[t], DOMAIN db[t] \ keys)]

\* A row with these columns overwritten.
With(row, cols) == [c \in DOMAIN row |-> IF c \in DOMAIN cols THEN cols[c] ELSE row[c]]

\* Every row that has this value in the column is overwritten.
Rewrite(db, t, col, x, cols) ==
    [db EXCEPT ![t] = [k \in DOMAIN db[t] |-> IF db[t][k][col] = x THEN With(db[t][k], cols)
                                                                    ELSE db[t][k]]]

\* Reads: the row of a key, the key and row with a value, the keys in descending order of a
\* column (ORDER BY col DESC, id DESC): the i-th is the one with i - 1 before it.
Get(db, t, k) == {db[t][j] : j \in DOMAIN db[t] \intersect {k}}
Find(f, col, x) == {<<k, f[k]>> : k \in {k \in DOMAIN f : f[k][col] = x}}
Descending(f, col) ==
    LET Before(k) == {j \in DOMAIN f : f[j][col] > f[k][col] \/ (f[j][col] = f[k][col] /\ j > k)}
    IN  [i \in 1..Cardinality(DOMAIN f) |-> CHOOSE k \in DOMAIN f : Cardinality(Before(k)) = i - 1]

=============================================================================
