----------------------------- MODULE MCWorkloads -----------------------------
(* Two requests on up to two workloads of one name in two namespaces, under a plan of one. *)
EXTENDS Workloads, TLC

CONSTANTS r1, r2, s1, s2, d1, d2

\* Bound: a deploy goes astray while its workload is the only one, and requests cross on one
\* place when none does.
MCNext ==
    /\ Next
    /\ IF astray' # {} THEN Cardinality(Rows') <= 1 /\ Cardinality(astray') = 1
                      ELSE Cardinality(crossed') <= 1

MCSpec == Init /\ [][MCNext]_vars

Symmetry == Permutations({r1, r2}) \union Permutations({s1, s2}) \union Permutations({d1, d2})

=============================================================================
