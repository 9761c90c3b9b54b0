------------------------ MODULE CloudApplicationProps ------------------------
(***************************************************************************)
(* What the application protocol guarantees.  The first group holds        *)
(* however the commands interleave and wherever they die, the second group *)
(* when commands run one at a time (they may still die anywhere).          *)
(***************************************************************************)
EXTENDS CloudApplication

Published == {"revision_published", "pointer_updated", "application_updated",
              "audit_completed", "committed"}
Pointed == Published \ {"revision_published"}
Recorded == Pointed \ {"pointer_updated"}

-----------------------------------------------------------------------------
(* Whatever the interleaving *)

\* The pointer names a revision file that exists, and from there every parent
\* exists and is older, down to the bootstrap revision: a rollback always finds
\* the revision it has to restore (load_active_runtime_state, rollback).
RevisionStoreSound ==
    /\ active \in published
    /\ Root \in published
    /\ revs[Root].parent = NoRev
    /\ \A r \in published \ {Root} : revs[r].parent \in published /\ revs[r].parent < r

\* The journal and the revision files agree in both directions: a phase from
\* revision_published on means the file is there, and a file is there only once
\* its graph was validated.  recover() decides from the phase alone whether an
\* application can still be failed.
JournalOrder ==
    \A a \in Apps :
        /\ txn[a].phase \in Published => a \in published
        /\ a \in published => txn[a].phase \in Published \cup {"revision_validated"}

\* A published result belongs to a lease for a task its revision offered, and a
\* lease is completed only when its result is on disk: the two writes of the
\* publication are never seen in the other order (resume).
ResultsAreLeased ==
    /\ \A l \in pubs :
          /\ leases[l].rev \in published
          /\ leases[l].task \in revs[leases[l].rev].ready
    /\ \A l \in LeaseIds : leases[l].state = "completed" => leases[l].done /\ l \in pubs

-----------------------------------------------------------------------------
(* One command at a time, dying anywhere *)

\* The revisions in effect: the active one and its ancestors.
Lineage[r \in Revs] ==
    {r} \cup (IF revs[r].parent = NoRev THEN {} ELSE Lineage[revs[r].parent])
InEffect == Lineage[active] \ {Root}

Chain[r \in Revs] ==
    IF revs[r].parent = NoRev THEN <<r>> ELSE Append(Chain[revs[r].parent], r)

\* What is recorded as applied is in effect, and what is in effect is recorded
\* as applied or as being worked on: no crash or recovery leaves a revision
\* active whose application says it failed, or an applied one that is not in
\* the active plan.
RecordMatchesPlan ==
    /\ \A a \in Apps :
          apps[a].status \in {"applied", "resume_pending", "resuming", "resumed",
                              "resume_failed"} => a \in InEffect
    /\ \A a \in InEffect :
          apps[a].status \in {"applying", "applied", "resume_pending", "resuming", "resumed",
                              "resume_failed", "rolling_back"}

\* The journal never runs ahead of the files: pointer_updated means the pointer
\* was moved (and only a rollback took it back), application_updated means the
\* record names the revision a rollback needs, rolled_back means it is out.
JournalNeverAhead ==
    \A a \in Apps :
        /\ txn[a].phase \in Pointed => a \in InEffect \/ undo[a] # "none"
        /\ txn[a].phase \in Recorded => apps[a].rev # NoRev
        /\ undo[a] = "rolled_back" => a \notin InEffect

\* An application counts as resumed only when each task its revision offered
\* has exactly one published result, under a lease that is completed.
ResumedWorkPublished ==
    \A a \in Apps : apps[a].status = "resumed" =>
        \A t \in revs[a].ready :
            \E l \in pubs :
                /\ leases[l].rev = a /\ leases[l].task = t /\ leases[l].state = "completed"
                /\ \A m \in pubs : leases[m].rev = a /\ leases[m].task = t => m = l

\* apply and rollback implement a stack of revisions, crashes included.
Stack == INSTANCE RevisionStack WITH
    stack <- Chain[active],
    used <- Lineage[active] \cup {a \in Apps : txn[a].phase \in Pointed}
ImplementsRevisionStack == Stack!Spec
=============================================================================
