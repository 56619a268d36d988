--------------------------- MODULE ReleaseHistory ---------------------------
(***************************************************************************)
(* What the release history of one app promises, whatever the number of    *)
(* deploys and reconcilers that write it concurrently: recording a deploy  *)
(* is one atomic step that appends the next revision as the live one and   *)
(* ends every other revision, and observing a failure ends a revision.     *)
(* Revision r of the app is hist[r].                                       *)
(***************************************************************************)
EXTENDS Naturals, Sequences

VARIABLE hist   \* the status of every recorded revision, oldest first

\* The statuses of a release that is current, and of one that no longer is.
Live == {"active", "deploying"}
Ended == {"superseded", "rolled_back", "failed"}
Status == Live \cup Ended

Init == hist = <<>>

\* A deploy, scale, update or rollback is recorded.  A revision that had
\* already failed may still be relabelled by the deploy that replaces it.
Record ==
    \E h \in [DOMAIN hist -> Ended] :
        /\ \A r \in DOMAIN hist : h[r] = hist[r] \/ hist[r] \in Live \cup {"failed"}
        /\ hist' = Append(h, "active")

\* The reconciler reports that a deploy did not come up.
Fail == \E r \in DOMAIN hist : hist' = [hist EXCEPT ![r] = "failed"]

Next == Record \/ Fail

Spec == Init /\ [][Next]_hist

=============================================================================
