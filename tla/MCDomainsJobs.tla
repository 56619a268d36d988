---------------------------- MODULE MCDomainsJobs ----------------------------
(* Two organizations claim one host, with two requests at a time; or the Jobs of the cluster: *)
(* backups of two databases, one of each organization, whose names are cut to one, or two     *)
(* builds whose ids are cut to one beside a third.  The three share no state.                *)
EXTENDS CustomDomains, Backups, Builds, TLC

CONSTANTS r1, r2, o1, o2, h1, d1, d2, x, y, z

MCShort == [d \in Dbs |-> "s"]
MCTag == [u \in Builds |-> IF u = z THEN "t2" ELSE "t1"]

MaxJobs == 3       \* bound: Jobs of backups and restores at a time
MaxStrayed == 1    \* bound: databases restored by a name their client was not told

VARIABLE part

MCInit ==
    /\ DomainInit /\ BackupsInit /\ BuildsInit
    /\ part \in {"domains", "backups", "builds"}

MCNext ==
    /\ \/ part = "domains" /\ DomainNext /\ UNCHANGED <<backupVars, buildVars>>
       \/ /\ part = "backups" /\ BackupsNext /\ UNCHANGED <<domainVars, buildVars>>
          /\ Cardinality({j \in JobNames : Exists(j)})' <= MaxJobs
          /\ Cardinality(strayed') <= MaxStrayed
       \/ part = "builds" /\ BuildsNext /\ UNCHANGED <<domainVars, backupVars>>
    /\ UNCHANGED part

MCSpec == MCInit /\ [][MCNext]_<<domainVars, backupVars, buildVars, part>>

Symmetry == Permutations({r1, r2}) \union Permutations({o1, o2}) \union Permutations({d1, d2})

=============================================================================
