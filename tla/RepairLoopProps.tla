--------------------------- MODULE RepairLoopProps ---------------------------
(* What the local repair loop promises. *)
EXTENDS RepairLoop

\* TypeOK: every report is absent, torn or what its writer writes (all steps of a run).
TypeOK ==
    /\ target \in Contents \cup {Torn}
    /\ disk \in Disk
    /\ loop \in Loop
    /\ touched \in Nat
    /\ used \in [edits : 0..MaxEdits, crashes : 0..MaxCrashes]

\* The plan and the result on disk are of the same run.
SameRun == disk.plan \notin Absent /\ disk.result \notin Absent /\ disk.plan.run = disk.result.run

\* RepairVerified: a result that says "completed", next to the plan of the same run, means
\* that the target passes every check the plan asked for, whatever earlier and later runs
\* did, failed at or died of, unless the developer has written the target (WriteResult).
RepairVerified ==
    SameRun /\ disk.result.status = "completed" /\ touched < disk.result.run =>
        /\ target \in Contents
        /\ disk.plan.request.python => target \in Clean
        /\ disk.plan.request.tests => target \in Correct

\* EvidenceComplete: a result names only what is there.  All attempts it counts have
\* reports of its run, the report for manual support is its own, and a run that ended
\* without a repair after using up its attempts has one (docs/local_repair_loop.md).
EvidenceComplete ==
    SameRun =>
        /\ \A n \in 1..disk.result.attempts :
              disk.attempts[n] \notin Absent /\ disk.attempts[n].run = disk.result.run
        /\ disk.result.support =>
              disk.support = [run |-> disk.result.run, attempts |-> disk.result.attempts]
        /\ At("idle") /\ disk.plan.request.execute /\ disk.plan.request.budget > 0 =>
              disk.result.support = (disk.result.status # "completed")

\* LoopEnds: every run comes to an end, whatever the model answers (the for loop of
\* run_local_repair_loop).
LoopEnds == loop.at \notin {"idle", "dead"} ~> loop.at \in {"idle", "dead"}
=============================================================================
