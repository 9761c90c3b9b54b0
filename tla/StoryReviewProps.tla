-------------------------- MODULE StoryReviewProps --------------------------
(* What the review of a story promises. *)
EXTENDS StoryReview

\* ReadinessEarned: whatever was committed, edited, re-created, forced or torn on the
\* way, a story is declared ready (finalize_story) only for an execution record that a
\* reviewer decided ready, of a tree without real changes, whose test outputs passed;
\* and, unless a record was taken of a bundle with an empty checksums.yaml, these are
\* outputs of a test run that followed that very snapshot.
ReadinessEarned ==
    \A r \in past.ready :
        /\ r \in past.decided
        /\ Classification(r.of.changes) \in AcceptableCleanliness
        /\ r.tests \in Passing
        /\ ~past.unchecked => [of |-> r.of, tests |-> r.tests] \in past.tested

\* PacketOfReadyRecord: the packet that goes to the cloud reviewer is about a record
\* that was declared ready, although the gate, the final result and the status it reads
\* may be those of another record or HEAD (create_cloud_review_packet).
PacketOfReadyRecord == disk.packet \notin Absent => disk.packet \in past.ready

\* HumanAskedInTime: the owner is asked to decide on the merge, by status.yaml
\* (run_merge_readiness) or by next-step, only after some record was declared ready and a
\* cloud review approved, in whatever order results are recorded and replaced; next-step
\* takes a result of the cloud review that a crash left empty for one that exists.
HumanAskedInTime ==
    /\ disk.status # Torn /\ disk.status.said = "ready_for_human_merge_decision" =>
          past.ready # {} /\ past.approved
    /\ Advice = "human review" => past.ready # {} /\ (past.approved \/ disk.cloud = Torn)

\* NoLegacyReadiness: a story without an execution record never gets past the gate: a
\* decision and a passed gate only exist next to a record, so that the branches of
\* run_pre_merge_quality_gate and finalize_story for stories without one lead nowhere.
NoLegacyReadiness ==
    disk.record = None => disk.decision = None /\ disk.gate # TRUE

\* FinalizedIsPrepared: docs/golden_path.md has cloud-review-prep follow local-finalize.
\* When local-finalize has completed and the developer changed and committed nothing
\* since the bundle, the packet can be made.
FinalizedIsPrepared ==
    /\ job = Idle /\ left["crash"] = Budget["crash"]
    /\ disk.workflow = [phase |-> "local-finalize", status |-> "completed"]
    /\ disk.manifest.head = repo.head /\ repo.edits = {}
    => BundleValid
=============================================================================
