---------------------------- MODULE StoryReview ----------------------------
(***************************************************************************)
(* The review of one story: the review bundle (review_state/service.py),   *)
(* the record of the local execution and the reviewer's decision bound to  *)
(* it (local_execution_recording.py, local_review.py), their validation    *)
(* (local_evidence_validation.py), the quality gate, finalize-story, the   *)
(* cloud review packet and result, the remote dev result, merge-readiness, *)
(* and workflow-run and run-story, which chain these commands.             *)
(*                                                                         *)
(* One developer runs one command at a time, edits and commits meanwhile.  *)
(* A command writes its files one after the other and may die before any   *)
(* of them; a file it was about to write in place is then left empty.      *)
(* A checksum is the value it is taken of.                                 *)
(***************************************************************************)
EXTENDS Naturals, Sequences

CONSTANTS
    None,         \* a file that does not exist
    Torn,         \* a file that was opened for writing and is empty
    Kinds,        \* kinds of changed paths a developer leaves in the tree
    Outputs,      \* outputs of pytest and ruff
    Passing,      \* the outputs that show a passing result
    Executors,    \* the inputs of a record that the caller chooses
    Repository,   \* the container's repository: root commits and remote
    Hosts,        \* host identity files: None, or what the host knows and how stale it is
    Layered,      \* test_plan.yaml uses the schema of the test layers
    CloudDecisions, RemoteStatuses,
    Budget        \* bound: how often each command, an edit, a commit and a crash happens

Absent == {None, Torn}
Verdicts == {"pending", "ready_for_review", "request_changes"}
Commands ==
    {"review-bundle", "record-local-execution", "record-local-review", "test-layers", "quality-gate",
     "finalize-story", "cloud-review-packet", "record-cloud-review", "record-remote-dev",
     "merge-readiness", "local-finalize", "cloud-review-prep", "run-story"}

ASSUME ReviewAssumption ==
    /\ None # Torn /\ TRUE \notin Absent
    /\ Passing \subseteq Outputs /\ Absent \cap (Outputs \cup Executors) = {}
    /\ Kinds \subseteq {"content", "untracked", "added", "deleted", "binary",
                        "line_ending", "bom", "final_newline", "mode"}
    /\ Repository.roots \in BOOLEAN
    /\ \A h \in Hosts \ {None} : h.behind \in Nat
    /\ Layered \in BOOLEAN
    /\ CloudDecisions \subseteq {"APPROVE", "APPROVE_WITH_NOTES", "REQUEST_CHANGES"}
    /\ RemoteStatuses \subseteq {"DEV_VALIDATED", "DEV_VALIDATED_WITH_NOTES", "DEV_FAILED",
                                 "NOT_RUN"}
    /\ Budget \in [Commands \cup {"edit", "commit", "crash"} -> Nat]

VARIABLES
    repo,    \* HEAD, the developer's changes, and what HEAD holds of the story's files
    disk,    \* the files of the story
    job,     \* the command that runs: what is left of it and what it has read
    past,    \* history: what was tested, decided and declared ready
    newer,   \* an input of finalize-story is newer than its result
    left     \* bound: what is left of the budget

vars == <<repo, disk, job, past, newer, left>>

-----------------------------------------------------------------------------
(* The working tree *)

\* The story's files that .gitignore leaves visible: status.yaml, the developer and
\* test reports (one value, "views") and the results of the later gates ...
Visible == {"status", "views", "layers", "cloud", "remote", "merge", "workflow"}
\* ... and those it names, which a manifest lists when they are there.
Hidden == {"record", "decision", "review_report", "gate", "final", "packet"}
Bundle == {"manifest", "evidence", "tests", "checksums", "legacy"}

\* classify_normalization: a text file whose text differs from HEAD is "ambiguous"; one
\* that differs only in line endings, byte order mark or final newline is noise.
Ambiguous == {"content"}
Noise == {"line_ending", "bom", "final_newline"}
\* classify_file_modes
ModeOnly == {"mode"}

\* derive_cleanliness.  The files that the bundle is about to write always count as
\* generated artifacts.
Classification(changes) ==
    IF changes \cap Ambiguous # {} THEN "ambiguous"
    ELSE IF changes \ (Noise \cup ModeOnly) # {} THEN "dirty"
    ELSE IF changes # {} THEN "normalization_noise_only"
    ELSE "clean_with_generated_artifacts"

AcceptableCleanliness == {"normalization_noise_only", "clean_with_generated_artifacts"}

Changes ==
    repo.edits \cup {IF repo.committed[f] = None THEN "untracked" ELSE "content" :
                         f \in {g \in Visible : disk[g] # repo.committed[g]}}
Ignored == {f \in Hidden : disk[f] # None}

\* repository_id_strength: a fingerprint needs the root commits and a remote.
Strength(id) ==
    IF ~id.roots THEN "none" ELSE IF id.remote = None THEN "weak" ELSE "strong"

\* compare_host_and_container_identity, for a host that knew HEAD some commits ago.
Parity(host) ==
    IF host = None THEN "not_checked"
    ELSE IF /\ Strength(host) = "strong" /\ Strength(Repository) = "strong"
            /\ host.roots = Repository.roots /\ host.remote = Repository.remote
            /\ host.behind = 0
    THEN "passed" ELSE "failed"

Snapshot == [head : Nat, changes : SUBSET (Kinds \cup {"untracked", "content"}),
             ignored : SUBSET Hidden, host : {"not_checked", "passed", "failed"}]

-----------------------------------------------------------------------------
(* The files *)

Record == [of : Snapshot, tests : Outputs, by : Executors]
Decision == [record : Record, verdict : Verdicts]
Final == [ready : BOOLEAN, record : Record \cup {None}, verdict : Verdicts \cup {None}]
Phases == {"local-finalize", "cloud-review-prep"}

MergeStatuses == {"READY_FOR_HUMAN_MERGE_DECISION", "READY_WITH_NOTES_FOR_HUMAN_MERGE_DECISION",
                  "REQUEST_CHANGES"}

\* DECISION_OUTCOMES, STATUS_OUTCOMES, STATUS_MAPPING: what each result says in
\* status.yaml.
SaidOf(result) ==
    CASE result \in {"APPROVE", "APPROVE_WITH_NOTES"} -> "cloud_review_approved"
      [] result \in {"DEV_VALIDATED", "DEV_VALIDATED_WITH_NOTES"} -> "remote_dev_validated"
      [] result = "DEV_FAILED" -> "remote_dev_failed"
      [] result = "NOT_RUN" -> "remote_dev_not_run"
      [] result \in MergeStatuses \ {"REQUEST_CHANGES"} -> "ready_for_human_merge_decision"
      [] OTHER -> "request_changes"
ReadyStatuses == {"ready_for_review", "cloud_review_approved", "remote_dev_validated",
                  "ready_for_human_merge_decision"}
Status == [said : ReadyStatuses \cup {"planned", "prepared", "request_changes",
                                      "remote_dev_failed", "remote_dev_not_run"},
           merge : MergeStatuses \cup {None}]

\* status.yaml in the hands of a command: an empty file is an empty mapping.
Saying(said) == [said |-> said, merge |-> IF disk.status = Torn THEN None ELSE disk.status.merge]

Values(file) ==
    CASE file \in {"manifest", "evidence"} -> Snapshot
      [] file \in {"tests", "legacy"} -> Outputs
      [] file = "checksums" -> [manifest : Snapshot, tests : Outputs]
      [] file \in {"record", "views", "packet"} -> Record
      [] file = "decision" -> Decision
      [] file = "review_report" -> {TRUE}
      [] file = "gate" -> BOOLEAN
      [] file = "final" -> Final
      [] file = "layers" -> {"PASSED", "FAILED", "LEGACY_FORMAT"}
      [] file = "cloud" -> CloudDecisions
      [] file = "remote" -> RemoteStatuses
      [] file = "merge" -> MergeStatuses
      [] file = "status" -> Status
      [] file = "workflow" -> [phase : Phases \cup {None}, status : {"completed", "failed", "REQUEST_CHANGES"}]

ASSUME AbsenceAssumption ==
    /\ Absent \cap (Record \cup Status) = {}
    /\ Absent \cap (MergeStatuses \cup {"APPROVE", "APPROVE_WITH_NOTES"}) = {}

-----------------------------------------------------------------------------
(* Steps of a command *)

Write(file, value) == [do |-> "write", file |-> file, value |-> value]

\* merge-readiness and record-remote-dev replace status.yaml in one step.
Replace(file, value) == [do |-> "replace", file |-> file, value |-> value]
Op(do) == [do |-> do, file |-> None, value |-> None]

\* The files of a bundle in the order of their writes; the evidence is a function of
\* the snapshot, the legacy copies come after the checksums.
BundleWrites(shot, output) ==
    <<Write("manifest", shot), Write("evidence", shot), Write("tests", output),
      Write("checksums", [manifest |-> shot, tests |-> output]), Write("legacy", output)>>

Script ==
    [c \in {"review-bundle", "test-layers", "quality-gate", "finalize-story",
            "cloud-review-packet", "report"} |->
        CASE c = "review-bundle" -> <<Op("capture"), Op("test")>>
          [] c = "test-layers" -> <<Op("layers")>>
          [] c = "quality-gate" -> <<Op("gate")>>
          [] c = "finalize-story" -> <<Op("judge")>>
          [] c = "cloud-review-packet" -> <<Op("pack")>>
          [] c = "report" -> <<Op("report")>>]

Idle == [flow |-> None, cmds |-> <<>>, ops |-> <<>>, shot |-> None, evidence |-> None,
         gate |-> FALSE, ok |-> TRUE]

\* A command that is done makes room for the next one of its workflow.
Continue(j) ==
    IF j.ops # <<>> THEN j
    ELSE IF j.cmds = <<>> THEN Idle
    ELSE [j EXCEPT !.ops = Script[Head(j.cmds)], !.cmds = Tail(j.cmds)]

Next1(ops) == Continue([job EXCEPT !.ops = ops \o Tail(@)])
Doing(do) == job.ops # <<>> /\ Head(job.ops).do = do

\* A step of a workflow that fails does not keep the next one from running.
Fail == Continue([job EXCEPT !.ops = <<>>, !.ok = FALSE])

Take(what) == left[what] > 0 /\ left' = [left EXCEPT ![what] = @ - 1]

Start(command, j) ==
    /\ job = Idle
    /\ Take(command)
    /\ job' = Continue(j)
Issue(command, ops) == Start(command, [Idle EXCEPT !.ops = ops])

-----------------------------------------------------------------------------
(* Validation of the bundle, the record and the decision *)

\* verify_checksum_entry for every entry that checksums.yaml has: an empty file has none.
EvidenceIntact ==
    disk.checksums # Torn =>
        /\ disk.checksums.manifest = disk.manifest
        /\ disk.evidence = disk.checksums.manifest
        /\ disk.tests = disk.checksums.tests

\* validate_review_bundle
BundleValid ==
    /\ disk.manifest \notin Absent
    /\ disk.manifest.head = repo.head
    /\ Classification(disk.manifest.changes) # "ambiguous"
    /\ \A f \in {"evidence", "tests", "checksums"} : disk[f] # None
    /\ EvidenceIntact

\* validate_local_evidence, for a record that exists.  Its test outputs are not
\* compared with those of the bundle.
RecordValid == disk.record # Torn /\ BundleValid /\ disk.record.of = disk.manifest

\* Mutant: the decision may be on another record of the same bundle.
DecisionBoundToBundle == disk.decision \notin Absent /\ disk.decision.record.of = disk.manifest

DecisionBound == disk.decision \notin Absent /\ disk.decision.record = disk.record

EvidenceReady == RecordValid /\ DecisionBound /\ disk.decision.verdict = "ready_for_review"

\* run_pre_merge_quality_gate.  Without a record any decision that says ready will do.
LayersPass == disk.layers = "PASSED" \/ (disk.layers = None /\ ~Layered)
GateReady ==
    /\ disk.views # None /\ disk.review_report # None
    /\ disk.legacy \in Passing
    /\ LayersPass
    /\ IF disk.record # None THEN EvidenceReady
       ELSE disk.decision \notin Absent /\ disk.decision.verdict = "ready_for_review"

\* Mutant: the result of finalize-story is only compared, not asked for its verdict.
PacketWithoutFinal ==
    /\ BundleValid
    /\ disk.record # None => EvidenceReady
    /\ Classification(disk.manifest.changes) \in AcceptableCleanliness
    /\ disk.manifest.host = "passed"
    /\ disk.status # Torn /\ disk.status.said \in ReadyStatuses
    /\ disk.gate = TRUE
    /\ disk.final \notin Absent => disk.final.record = disk.record

\* create_cloud_review_packet; the story, the blueprint and what the host adds to the
\* manifest are as they should be.
PacketReady ==
    /\ BundleValid
    /\ disk.record # None => EvidenceReady
    /\ Classification(disk.manifest.changes) \in AcceptableCleanliness
    /\ disk.manifest.host = "passed"
    /\ disk.status # Torn /\ disk.status.said \in ReadyStatuses
    /\ disk.gate = TRUE
    /\ disk.final \notin Absent /\ disk.final.ready
    /\ disk.record # None => /\ disk.final.record = disk.record
                             /\ disk.final.verdict = disk.decision.verdict

-----------------------------------------------------------------------------
(* next-step *)

\* finalize_result_stale: what a write does to the comparison of modification times.
Newer(file) ==
    CASE file \in {"views", "review_report", "layers", "gate"} -> disk.final # None
      [] file = "final" -> FALSE
      [] OTHER -> newer

\* find_bad_result_values
BadResult ==
    \/ disk.status # Torn /\ disk.status.said = "request_changes"
    \/ disk.gate = FALSE
    \/ disk.final \notin Absent /\ (~disk.final.ready \/ disk.final.verdict = "request_changes")
    \/ disk.workflow \notin Absent /\ disk.workflow.status = "REQUEST_CHANGES"
    \/ disk.cloud = "REQUEST_CHANGES" \/ disk.merge = "REQUEST_CHANGES"
    \/ disk.remote \in {"DEV_FAILED", "NOT_RUN"}

\* ready_for_human_review
HumanReview == \/ disk.remote \in {"DEV_VALIDATED", "DEV_VALIDATED_WITH_NOTES"}
               \/ disk.merge \in MergeStatuses \ {"REQUEST_CHANGES"}

\* missing_required_agent_reports
ReportsMissing == disk.views = None \/ disk.review_report = None

\* choose_recommendation, for a story that is prepared and not blocked.
Advice ==
    IF BadResult THEN "fix failed checks"
    ELSE IF ReportsMissing THEN "run agent prompts"
    ELSE IF disk.workflow \notin Absent /\ disk.workflow.status = "failed" THEN "investigate workflow"
    ELSE IF disk.final \in Absent \/ newer THEN "local-finalize"
    ELSE IF disk.packet = None THEN "cloud-review-prep"
    ELSE IF disk.cloud = None THEN "record-cloud-review"
    ELSE IF disk.merge = None THEN "merge-readiness"
    ELSE IF disk.remote = None THEN "remote-dev-packet"
    ELSE IF HumanReview THEN "human review"
    ELSE "review evidence"

-----------------------------------------------------------------------------
(* The developer *)

Init ==
    /\ disk = [f \in Visible \cup Hidden \cup Bundle |->
                 IF f = "status" THEN [said |-> "planned", merge |-> None] ELSE None]
    /\ repo = [head |-> 1, edits |-> {}, committed |-> [f \in Visible |-> disk[f]]]
    /\ job = Idle
    /\ past = [tested |-> {}, decided |-> {}, ready |-> {}, approved |-> FALSE,
               unchecked |-> FALSE]
    /\ newer = FALSE
    /\ left = Budget

Edit(edits) ==
    /\ edits # repo.edits
    /\ Take("edit")
    /\ repo' = [repo EXCEPT !.edits = edits]
    /\ UNCHANGED <<disk, job, past, newer>>

\* A commit of everything that `git add --all` picks up.
Commit ==
    /\ Take("commit")
    /\ repo' = [head |-> repo.head + 1, edits |-> {}, committed |-> [f \in Visible |-> disk[f]]]
    /\ UNCHANGED <<disk, job, past, newer>>

\* The command dies before its next step, or after opening the file to write.
Crash ==
    /\ job # Idle
    /\ Take("crash")
    /\ job' = Idle
    /\ \/ UNCHANGED disk
       \/ Doing("write") /\ disk' = [disk EXCEPT ![Head(job.ops).file] = Torn]
    /\ newer' = IF disk' = disk THEN newer ELSE Newer(Head(job.ops).file)
    /\ UNCHANGED <<repo, past>>

-----------------------------------------------------------------------------
(* Commands *)

ReviewBundle ==
    /\ Issue("review-bundle", Script["review-bundle"])
    /\ UNCHANGED <<repo, disk, past, newer>>

\* test-layers, quality-gate and finalize-story.
RunScript(command) ==
    /\ Issue(command, Script[command])
    /\ UNCHANGED <<repo, disk, past, newer>>

\* _build_evidence_payload; the time of the execution is not part of it.
RecordBy(by) == [of |-> disk.manifest, tests |-> disk.tests, by |-> by]

\* _validate_role_coverage for the developer, whose commits are there, and the tests.
RolesCovered == disk.tests \in Passing

\* The reports of the roles come after the record.
RecordWrites(record) == <<Write("record", record), Write("views", record)>>

\* record_local_execution; a dry run writes nothing.
RecordExecution(by, force) ==
    LET record == RecordBy(by)
    IN  /\ BundleValid
        /\ Classification(disk.manifest.changes) \in AcceptableCleanliness
        /\ RolesCovered
        /\ disk.record \in {None, record} \/ force
        /\ Issue("record-local-execution", RecordWrites(record))
        /\ past' = [past EXCEPT !.unchecked = @ \/ disk.checksums = Torn]
        /\ UNCHANGED <<repo, disk, newer>>

\* _write_local_review_report follows the decision; a dry run leaves out the decision only.
ReviewWrites(decision, dry) ==
    (IF dry THEN <<>> ELSE <<Write("decision", decision)>>) \o <<Write("review_report", TRUE)>>

\* Mutant: the decision needs no record.
RecordReviewOfBundle(verdict, force, dry) ==
    /\ BundleValid
    /\ disk.decision = None \/ force
    /\ Issue("record-local-review", ReviewWrites([record |-> disk.record, verdict |-> verdict], dry))
    /\ UNCHANGED <<repo, disk, past, newer>>

\* record_local_review
RecordReview(verdict, force, dry) ==
    LET decision == [record |-> disk.record, verdict |-> verdict]
    IN  /\ BundleValid
        /\ disk.record \notin Absent /\ disk.record.of = disk.manifest
        /\ disk.decision = None \/ force
        /\ Issue("record-local-review", ReviewWrites(decision, dry))
        /\ past' = IF ~dry /\ verdict = "ready_for_review"
                   THEN [past EXCEPT !.decided = @ \cup {disk.record}] ELSE past
        /\ UNCHANGED <<repo, disk, newer>>

\* record_cloud_review: the result file of the cloud model is taken as it is.
RecordCloudReview(decision) ==
    /\ Issue("record-cloud-review", <<Write("cloud", decision), Write("status", Saying(SaidOf(decision)))>>)
    /\ past' = [past EXCEPT !.approved = @ \/ decision # "REQUEST_CHANGES"]
    /\ UNCHANGED <<repo, disk, newer>>

\* record_remote_dev_validation
RecordRemote(status) ==
    /\ Issue("record-remote-dev", <<Write("remote", status), Replace("status", Saying(SaidOf(status)))>>)
    /\ UNCHANGED <<repo, disk, past, newer>>

\* Mutant: the result of finalize-story is not looked at.
GatesWithoutFinal ==
    /\ disk.gate = TRUE
    /\ disk.layers \in {None, "PASSED"}
    /\ disk.cloud \in {"APPROVE", "APPROVE_WITH_NOTES"}
    /\ disk.remote \in {None, "DEV_VALIDATED", "DEV_VALIDATED_WITH_NOTES"}

\* run_merge_readiness: what the last run of every gate left, of whatever HEAD.
LocalGatesPass ==
    /\ disk.gate = TRUE
    /\ disk.final \notin Absent /\ disk.final.ready
    /\ disk.layers \in {None, "PASSED"}
    /\ disk.cloud \in {"APPROVE", "APPROVE_WITH_NOTES"}
    /\ disk.remote \in {None, "DEV_VALIDATED", "DEV_VALIDATED_WITH_NOTES"}

MergeDecision ==
    IF ~LocalGatesPass THEN "REQUEST_CHANGES"
    ELSE IF disk.remote = "DEV_VALIDATED_WITH_NOTES" \/ disk.cloud = "APPROVE_WITH_NOTES"
    THEN "READY_WITH_NOTES_FOR_HUMAN_MERGE_DECISION"
    ELSE "READY_FOR_HUMAN_MERGE_DECISION"

MergeReadiness ==
    /\ Issue("merge-readiness", <<Write("merge", MergeDecision),
               Replace("status", [said |-> SaidOf(MergeDecision), merge |-> MergeDecision])>>)
    /\ UNCHANGED <<repo, disk, past, newer>>

\* create_cloud_review_packet
CloudReviewPacket(force) ==
    /\ PacketReady
    /\ disk.packet = None \/ force
    /\ Issue("cloud-review-packet", <<Write("packet", disk.record)>>)
    /\ UNCHANGED <<repo, disk, past, newer>>

\* workflow-run --execute
Workflow(phase, commands) ==
    /\ Start(phase, [Idle EXCEPT !.flow = phase, !.cmds = Append(commands, "report")])
    /\ UNCHANGED <<repo, disk, past, newer>>

LocalFinalize == Workflow("local-finalize", <<"test-layers", "finalize-story", "review-bundle">>)

\* validate_cloud_review_prep_readiness comes before the steps.
FinalReady == disk.final \notin Absent /\ disk.final.ready
CloudReviewPrep == FinalReady /\ Workflow("cloud-review-prep", <<"cloud-review-packet">>)
RefuseCloudReviewPrep ==
    /\ ~FinalReady
    /\ Issue("cloud-review-prep",
             <<Write("workflow", [phase |-> "cloud-review-prep", status |-> "REQUEST_CHANGES"])>>)
    /\ UNCHANGED <<repo, disk, past, newer>>

\* prepare_story, its first step: whatever the status says, the story is "prepared" again.
Prepare == <<Write("status", Saying("prepared"))>>

\* run-story --execute, without a runtime that would write the missing reports; an error of
\* finalize-story ends it.
RunStory ==
    /\ Issue("run-story", Prepare \o IF ReportsMissing THEN <<>> ELSE <<Op("judge"), Op("gate")>>)
    /\ UNCHANGED <<repo, disk, past, newer>>

-----------------------------------------------------------------------------
(* Steps of the running command *)

\* One file reaches the disk.
Perform ==
    /\ Doing("write") \/ Doing("replace")
    /\ disk' = [disk EXCEPT ![Head(job.ops).file] = Head(job.ops).value]
    /\ newer' = Newer(Head(job.ops).file)
    /\ job' = Next1(<<>>)
    /\ UNCHANGED <<repo, past, left>>

\* create_review_bundle reads the repository ...
Capture ==
    /\ Doing("capture")
    /\ \E host \in Hosts :
          job' = [Next1(<<>>) EXCEPT !.shot = [head |-> repo.head, changes |-> Changes,
                                               ignored |-> Ignored, host |-> Parity(host)]]
    /\ UNCHANGED <<repo, disk, past, left, newer>>

\* ... and runs pytest and ruff afterwards, on the tree of that moment.
Test ==
    /\ Doing("test")
    /\ \E output \in Outputs :
          /\ past' = [past EXCEPT !.tested = @ \cup {[of |-> job.shot, tests |-> output]}]
          /\ job' = [Next1(BundleWrites(job.shot, output)) EXCEPT !.ok = @ /\ output \in Passing]
    /\ UNCHANGED <<repo, disk, left, newer>>

TestLayers ==
    /\ Doing("layers")
    /\ \E result \in IF Layered THEN {"PASSED", "FAILED"} ELSE {"LEGACY_FORMAT"} :
          job' = [Next1(<<Write("layers", result)>>) EXCEPT !.ok = @ /\ result = "PASSED"]
    /\ UNCHANGED <<repo, disk, past, left, newer>>

\* finalize_story: a record that is there must be valid.  Without one the story is
\* "legacy" and gets a new bundle before and after the gate.
Judge ==
    /\ Doing("judge")
    /\ IF disk.record = None
       THEN job' = [Next1(<<Op("capture"), Op("test")>>
                            \o (IF Layered THEN <<Op("layers")>> ELSE <<>>)
                            \o <<Op("gate"), Op("settle"), Op("capture"), Op("test")>>)
                      EXCEPT !.evidence = [ready |-> TRUE, record |-> None, verdict |-> None]]
       ELSE IF ~RecordValid THEN job' = Fail
       ELSE job' = [Next1(<<Op("gate"), Op("settle")>>) EXCEPT !.evidence =
                      [ready |-> EvidenceReady, record |-> disk.record,
                       verdict |-> IF DecisionBound THEN disk.decision.verdict ELSE "pending"]]
    /\ UNCHANGED <<repo, disk, past, left, newer>>

QualityGate ==
    /\ Doing("gate")
    /\ job' = [Next1(<<Write("gate", GateReady)>>) EXCEPT !.gate = GateReady]
    /\ UNCHANGED <<repo, disk, past, left, newer>>

\* The rest of finalize_story: status.yaml and the result.
Settle ==
    LET ready == job.gate /\ job.evidence.ready
    IN  /\ Doing("settle")
        /\ job' = [Next1(<<Write("status", Saying(IF ready THEN "ready_for_review"
                                                  ELSE "request_changes")),
                           Write("final", [job.evidence EXCEPT !.ready = ready])>>)
                     EXCEPT !.ok = @ /\ ready]
        /\ past' = IF ready THEN [past EXCEPT !.ready = @ \cup {job.evidence.record}] ELSE past
        /\ UNCHANGED <<repo, disk, left, newer>>

Pack ==
    /\ Doing("pack")
    /\ job' = IF PacketReady THEN Next1(<<Write("packet", disk.record)>>) ELSE Fail
    /\ UNCHANGED <<repo, disk, past, left, newer>>

Report ==
    /\ Doing("report")
    /\ job' = Next1(<<Write("workflow",
               [phase |-> job.flow, status |-> IF job.ok THEN "completed" ELSE "failed"])>>)
    /\ UNCHANGED <<repo, disk, past, left, newer>>

-----------------------------------------------------------------------------

Developer ==
    \/ \E edits \in SUBSET Kinds : Edit(edits)
    \/ Commit
    \/ ReviewBundle
    \/ \E command \in {"test-layers", "quality-gate", "finalize-story"} : RunScript(command)
    \/ \E by \in Executors, force \in BOOLEAN : RecordExecution(by, force)
    \/ \E verdict \in Verdicts, force, dry \in BOOLEAN : RecordReview(verdict, force, dry)
    \/ \E decision \in CloudDecisions : RecordCloudReview(decision)
    \/ \E status \in RemoteStatuses : RecordRemote(status)
    \/ MergeReadiness
    \/ \E force \in BOOLEAN : CloudReviewPacket(force)
    \/ LocalFinalize
    \/ CloudReviewPrep
    \/ RefuseCloudReviewPrep
    \/ RunStory

Progress == \/ Perform \/ Capture \/ Test \/ TestLayers \/ Judge
            \/ QualityGate \/ Settle \/ Pack \/ Report

Next == Developer \/ Crash \/ Progress

Spec == Init /\ [][Next]_vars
=============================================================================
