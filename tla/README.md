# A TLA+ model of agentic-dev-system

`agentic_dev` is a command-line program (`src/src/agentic_dev`). It keeps the state
of a development project as files below the project directory. There is no
server, no database and, almost everywhere, no lock: each command is a process
that reads files, decides, and writes files. This directory models the parts of
it in which the *order* of those writes matters.

## 1. Inventory

State is on disk unless stated otherwise. Paths are relative to
`src/src/agentic_dev/`.

| Component | State it keeps | Operations that change it | Modelled by |
|---|---|---|---|
| Cloud queue (`cloud_queue/`) | `requests/<state>/<id>.yaml`, `imports/`, `approvals/`, `exports/` packets, audit log | create, export, import, approve, reject, cancel, fail | `CloudQueue` |
| Cloud application (`cloud_application/`) | application records, plan revisions and the active pointer, the journal, leases, publications, audit log | plan-apply, resume, rollback, recover | `CloudApplication` |
| Cloud batch (`cloud_batch/`) | one record and one plan per batch, lock files, attempts, audit log | create, import, plan-apply, apply, resume, retry, cancel, rollback, recover | `CloudBatch`, all but recover |
| Local execution (`local_execution.py`, `subtask_execution.py`) | `state.yaml` of a story, a report per sub-task, the files of the tasks | local-execute plain, with `--resume`, with `--role`; the run of a cloud revision | `LocalExecution`, all but role mode without sub-tasks |
| Local repair loop (`local_repair_loop.py`) | the target file, plan, attempt, result and support reports | repair-loop | `RepairLoop` |
| Review of a story (`review_state/`, `review_bundle.py`, `local_execution_recording.py`, `local_review.py`, `local_evidence_validation.py`) | the bundle, the execution record, the decision | review-bundle, record-local-execution, record-local-review | `StoryReview` |
| Gates (`quality_gate.py`, `test_layers.py`, `merge_readiness.py`, `cloud_review_packet.py`, `cloud_review_result.py`, `remote_dev_validation.py`, ...) | a result file each, and `status.yaml`, which they share | the gates and the recording of results | `StoryReview`; public readiness, artifact policy and micro readiness are not |
| Workflow and story commands (`finalize_story.py`, `prepare_story.py`, `story_runner.py`, `workflow_run.py`, `next_step.py`, `story_generator.py`, ...) | `status.yaml`, the final result, the workflow result | finalize-story, run-story, workflow-run, generate-stories | `StoryReview`, `WorkQueues` |
| Support queues (`support_queue.py`, `queue_management.py`) | a directory per status, cloud packets, the blueprint | create, answer, close, set status, promote | `WorkQueues` |
| Scans (`improvement_scan.py`, `maintenance_scan.py`, `feature_scan.py`) | queue items, a report | record | `WorkQueues`; their packets and prompts are not |
| Model runtimes, scorecards (`local_model_runtime.py`, `codex_runtime.py`, ...) | drafts and reports, each written once | call a model or a subprocess | not modelled: what a model answers is an input |
| Scaffolding, demos, command line | none of their own | | not modelled: no protocol |

How they interact. The *queue* packs requests, which a person carries to a cloud
model and whose responses are imported and classified; *application*
reads the request and the imported response, builds a new revision of the
runtime plan and makes it active; resume runs *local execution* on the tasks
which that revision offers and publishes their results under leases. *Batch*
drives several requests through both. A story that was executed, or repaired by the
*repair loop*, is then *reviewed*: a bundle of its evidence, a record bound to the
bundle, a decision bound to the record, and the *gates*, each of which reads the files
of those before it and rewrites the same `status.yaml`. *Support tickets* block a
story, *queue items* are promoted to new ones. Everything passes through files: no
component calls back into another.

What is hard here, and correct behaviour:

- **Cloud application.** Applying takes about twenty file writes, rollback eight,
  resume two and three per task. A command may die between any two, and two
  commands may run at once with only compare-then-write on the pointer between
  them. Correct means: the pointer and each parent link name a revision that
  exists; the records, the journal and the pointer agree after every crash and
  recovery; a published result was leased; rollback restores the parent.
- **Cloud queue.** A move is unlink then write. Correct means: one file per
  request; a request follows the life "packaged, sent, answered, decided"; an
  approval and a classification bind the response they were made for; what was sent
  stays in a packet, though an export replaces the packet of its batch id.
- **Cloud batch.** A lock that is tested and then written, and is left behind by a
  crash; apply and resume take none; every command saves the whole record from a
  copy it read earlier. Correct means: what an item depends on is published before
  it; the record claims no more than was published, and forgets at most the item in
  flight; a failure blocks what waits for it and nothing else; a rollback restores.
- **Local execution.** Four kinds of runs share one state file, which each rewrites
  whole from memory, and lists in it repeat what the statuses say. Correct means:
  tasks complete in dependency order, a half-written task never counts, a story is
  complete only when all of it is, and resuming gets there.
- **Repair loop.** The target is overwritten before it is checked, and runs reuse the
  same report files. Correct means: "completed" is about a target that passes, a
  result refers to evidence of its own run, every run ends.
- **Review and gates.** Ten files written by a dozen commands, in any order, between
  commits and edits, each torn by a crash. Correct means: what is declared ready was
  tested, reviewed and clean, *that very thing*; the cloud is shown only that; the owner
  is asked only after that.
- **Queues.** Copy then remove; a promotion is four writes in four places, one of them
  text appended to YAML. Correct means: nothing disappears, a number that can be seen is
  not given twice, a blocked story has a ticket.

`PROJECT.json` lists each of these hazards at the line where it bites.

## 2. Modules

Each component has a module of its state and steps, a `...Props` module of what it
promises, an `MC...` module with the values for TLC, and, where something is proved, a
`...Proofs` module.

| Module | Role |
|---|---|
| `RevisionStack` | abstract: the revisions in effect are a stack; apply pushes a fresh one, rollback pops it |
| `CloudApplication` (`Props`, `MC`, `Proofs`, `SequentialProofs`) | the file protocol of `ApplicationService`; implements `RevisionStack` |
| `RequestLifecycle` | abstract: a request is packaged, sent, answered, decided; or lost before that |
| `CloudQueue` (`Props`, `MC`, `Proofs`) | the file protocol of the queue; implements `RequestLifecycle` |
| `BatchSchedule` | pure: topological order, waves, ready set, spreading of a failure |
| `CloudBatch` (`Props`, `MC`, `Proofs`) | the commands on one batch, over the application service |
| `TaskBoard` | abstract: tasks are done one at a time, in dependency order, and forgotten only as a whole |
| `LocalExecution` (`Props`, `MC`, `Proofs`) | the runs that share a story's state file; implements `TaskBoard` |
| `RepairLoop` (`Props`, `MC`, `Proofs`) | the repair loop, run after run on the same files |
| `StoryReview` (`Props`, `MC`, `Proofs`) | bundle, record, decision, gates and the commands that chain them |
| `WorkQueues` (`Props`, `MC`, `Proofs`) | tickets, queue items, promotion, the blueprint |

### CloudApplication

A variable is a directory of files: `apps`, `txn` and `undo` (the two kinds of
transaction record), `published`/`revs` (revision files, what they hold),
`active` (the pointer), `leases`, `pubs`; `req` is what the queue hands over.
`wk[w]` is the memory of one command process: where it is (`pc`) and what it read.

One action is one file write, or one block of reads, of one process. `pc` follows
the code from top to bottom:

- `plan_apply`/`_apply_plan`: `PlanApply`, `SavePlan`, `ReadyToApply`,
  `OpenTransaction`, `BeginApplying`, `JournalPrepared`, `JournalWritten`,
  `GraphAccepted` or `GraphRejected`, `PublishRevision`, `JournalPublished`,
  `PointerUnchanged` or `PointerMoved`, `SetPointer`, `JournalPointer`, `MarkApplied`,
  `FinalizeRecord`, `JournalUpdated`, `JournalAudited`, `OfferResume`, `Commit`.
- `resume`: `ResumeStart`, `BeginResume`, `CreateLease` per task, `StartExecution` or
  `ResumePointerMoved`, `ExecutionCompletes` or `ExecutionFails`, then per task
  `GatePasses`, `SavePublication`, `CompleteLease`, and `ResumeFinish`; or
  `GateRejects`, `InvalidateLease` per lease, `ResumeFailed`.
- `rollback`: `RollbackStart`, `RollbackReads` or `RollbackRefused`, `OpenUndo`, `BeginRollback`, `StaleLease` per lease,
  `RecheckPointer`, then `RestorePointer`, `JournalUndoDone`, `MarkRolledBack`,
  `RetargetRecord`; or `JournalUndoFailed`, `RollbackFailed`.
- `recover`: `RecoverScan` decides from one reading, `RecoverWrite` once per repair.

`Crash` drops the memory of a command and nothing else. An exception which escapes
a command leaves the files as a crash does, so the fault injection of
`_apply_plan` is `Crash` too. Two details of the code matter and are kept: a
record is written whole from the copy in memory, and `save_transaction_phase`
replaces the details of the journal by those of the phase, by which the plan
checksum is lost (`planSum`).

Abstractions: ids are numbered in the order of creation, application `a` proposes
revision `a`, and revision 0 is the bootstrap plan. A checksum identifies a file
that is never rewritten and is left out, the one in the journal excepted. The new
task graph is reduced to which tasks come out `ready` (any subset) and to whether
the request's source task has been replaced. The runner of local tasks ends in
any of its outcomes. Left out: formatting, previews, plan files (written once, read
back), the write-only audit log, `recovery.yaml` and the resume state file
(written, never read by a decision here), the quarantine report, corrupted files.

### CloudQueue

`files[q][s]` is the file of request `q` in the directory of state `s`: absent, there
without a response, or bound to a response. `imports`, `approvals` and `packets` are
the other directories. `batch` is the batch id of a request, the second it was created in,
so that several may have the same; `packets[b]` is the archive of that id. A response is a
model value standing for the normalised content and both its checksums; the constants `Safe`,
`Escalated` and `Faulty` say what `classify_response` makes of it. `Located` is `locate_request`, which takes
the first file in the order of the directory names (`Order`).

An export is `ExportStart`, `OpenPacket`, which empties the archive that was there,
`WritePacket` or `PacketFails`, then `SendNext` with a move per request, and `SendDone`. An archive
which two commands have written at once holds anything (`by` tells whether a writer was alone).
`Unlink` and `WriteMoved` are the two halves of `move_request`; `WriteMoved` also says
what the command does next. `Located`, `DependenciesResolved` and the guards of
`Approve`, `Decide`, `ImportStart` are what a command checks before its first write;
`SaveResponse` shows that import checks its transition only after that write.
Abstractions: requests are read and moved in the same order, that of their ids (generated ids
are of equal length); every request has a batch id. Left out: context packing and redaction,
archive validation, the audit log, the text of packets, and the copies, the manifest and the
index written beside an archive.

### CloudBatch

`rec`, `plan` and `locks` are the files of one batch; `answered` is what the queue has of
it, and `apps`, `revs`, `active` and `stray` what the application service keeps. `wk[w]` is a
command: its copy of the record (`rec`), what is left of the waves (`waves`), the
revision it expects to be active (`exp`), the item in hand and what that was before the
call (`item`, `was`).

- Under a lock, tested by `Begin` and written by `TakeLock`, gone with `Unlock`: import
  (`ImportMember` per member, then `Reread` and `SaveImported` with the lock already
  gone), plan-apply (`SavePlan`, `SavePlanned`, or `PlanFails`), retry, cancel (`ReadRecord`, then
  `SaveRetried`, `SaveCancelled`), rollback (`UndoItem` per item or `UndoBlocked`, `SaveRolledBack`).
- apply: `StartApply`, `StartWave` or `WaveRefused`, then per item `SkipItem`, `BlockItem`,
  `ItemRefused`, or `ApplyItem` followed by `SaveApplied` and `ReadExpected`, or by
  `SaveFailed`; `NextWave`, `Finish`.
- resume: `StartResume`, `StartGroup` or `GroupStale`, then per item `SkipResume`, `BlockResume`,
  `HaltResume`, or `ResumeItem` followed by `SaveResumed` or `SaveFailed`.

A call of the application service is one step here, with every outcome it has:
success, a refusal before its first write, an exception half-way, and the death of the
process at each point where the revision, the pointer or the leases differ
(`CrashInService`). A revision is named by its item, `ver` counts how often its file was
written, and a pair of both stands for its checksum. A plan's checksum stands for the
items it was built from. `why` is kept only while an item is `validation_partial`, the status
in which `_blocked_item` compares it; `graph` gives dependencies and overlaps of paths. Items
are numbered in the order of their ids, which is the order of bundle members too.

Left out: recover and dry runs (they write no state), the export packet, attempts and
audit log (no decision reads them), what `_validate_batch_item_snapshot` compares (its
failure is one more refusal). Records whose items depend on each other do not come out of
export, which selects only requests with resolved dependencies
(`cloud_batch/export.py:158-171`): they are built as the tests build them, with the library's
`save_batch_record`. Responses reach the queue only through the batch.

### LocalExecution

`state` is `state.yaml` with its statuses *and* the lists kept beside them; `report` and
`files` are what a task leaves in the project; `run` is the command: its plan, its copy of
the state (`mem`), the place in the topological order (`next`). `edition` counts how often
the planner has rewritten the blueprint (`Redecompose`, external).

A command is `LocalExecute`, `Resume`, `RoleExecute` or `ResumeRevision`, then `Load` and
`SaveInitial`, then for each task `SkipTask`, `BlockTask`, `RefuseLarge`, or `ClaimTask` and
`FailTask` or `BeginWrites`, `FinishWrites`, `WriteReport`, `SaveTask`; at the end `Finalize`.
A write may fail with some of a task's files changed (`BeginWrites`), and a crash may leave
the state file empty, which a later command reads as a fresh start. `Passes` is the order of
`topological_subtasks`, `Closure` what `--role` selects, `FromRevision` the state that the
application service builds for a resume.

Left out: role mode for stories without sub-tasks (`run_local_execution` 125-301: its state
file is of roles, which depend on nothing, instead of tasks), prompts, attempt counters, time stamps.

### RepairLoop

`target` is the file under repair, `disk` the reports, `loop` the run (its step in `at`).
`WritePlan`, then per attempt `ModelFails` or `ModelAnswers`, `Apply`, `Check`, `WriteAttempt`
and, after a failure of the model, `WriteProgress`; then `WriteSupport` and `WriteResult`. `Ask`
builds the next prompt from the target as it then is, except after a failure of the model,
when the old one is used again. Reports carry the number of their run, which the code does
not write: the properties are about telling the runs apart where the code relies on it.
An output is its fence, its text and one flaw, which is all that `Validate` looks at.
A target that is not a Python file stands for the non-strict mode. `Checked` names every failure
of ruff `ruff_failure`: the code labels some a contract violation, which has the same
consequences. One run at a time.

### StoryReview

`disk` maps each file to its value: a *snapshot* (HEAD, kinds of changes, ignored files,
host), a record, a decision, ... or `None`, or `Torn`. A checksum is the value it is taken
of, so that "bound to" is equality. `repo` is HEAD, the edits and what HEAD holds of the
tracked story files; `Changes` is what `git status` would show, the story's own files
included. `job` is the running command as what is left of its steps (`ops`); a workflow
has commands left (`cmds`). A step either puts one file on disk (`Perform`) or reads and
decides: `Capture`, `Test`, `TestLayers`, `QualityGate`, `Judge` and `Settle` (the two halves of
finalize-story), `Pack`, `Report`. `Edit`, `Commit` and `Crash` come between any two steps. `past`
records what was tested, decided, ready and approved, for the properties. A command starts
with its guards: `ReviewBundle`, `RunScript`, `RecordExecution`, `RecordReview`,
`RecordCloudReview`, `RecordRemote`, `MergeReadiness`, `CloudReviewPacket`, `LocalFinalize`,
`CloudReviewPrep` or `RefuseCloudReviewPrep`, `RunStory`. `BundleValid`, `RecordValid`, `DecisionBound`,
`EvidenceReady`, `GateReady`, `PacketReady`, `MergeDecision` and `Advice` are the checks of the code in
its own nesting.

Abstractions: one base ref; the planning files and the blueprint are as the packet wants
them; the developer's commits are never empty; roles are developer and test; the
`APPROVE_WITH_NOTES` variants have the status of the plain ones; of `status.yaml` only the
status and the merge decision; execution times are dropped; the manifest's list of ignored
files is the story's hidden files that exist; `generated_artifacts` is never empty, so a
clean tree is "clean with generated artifacts"; the host is current. run-story runs without
an agent runtime, as in the default configuration; it does not choose the story. Left out
of next-step: blocked and unprepared stories.

### WorkQueues

`files[id][folder]` is the file of a ticket or an item; a command is what it still has to
write (`command.at`). A move is `Write`, for tickets `MovePacket` and `DropPacket`, then `Unlink`;
a ticket is `Create` then `Block`; a promotion `Append` (to the blueprint), `CreateFolder`,
`CreateStatus`, then the move. `Located` takes the first folder in the order of the code.
`Appended` is what appending indented text does to a blueprint of each layout: into
the list, into the last list of the last story, or a syntax error. `CreateStories` is
generate-stories, in one step. A story is its number, the item it was promoted from, and
whether the number is `seen`: found in its id, slug, folder name or text by the pattern that
`next_story_number` looks with. That of a promoted story is; that of a planned one, which may
have only a `story_id`, need not be.

Left out: two commands at a time (the code takes no lock; two promotions at once
would take the same number, which needs no model to see), the decision history, the
texts of packets. The folder for escalated tickets is written by no command.

## 3. Runs

| Run | Bounds | Question |
|---|---|---|
| `app_sequential` | 1 process, 1 request, 2 tasks, 3 applications, 3 leases, 1 crash | one command at a time, dying anywhere: do records, journal, pointer and results stay consistent, and do apply and rollback implement a stack? |
| `app_concurrent` | 2 processes, 1 request, 1 task, 2 applications, 1 lease, 1 crash, `RaceAfterCrash` | what survives an arbitrary interleaving? |
| `queue_sequential` | 1 process, 2 requests, 4 responses, 2 batch ids, 1 crash | one command at a time, dying anywhere: does the queue implement the life of a request, and is what was exported still in a packet? |
| `queue_concurrent` | 2 processes, 1 request, 2 responses, 1 batch id, 1 crash | what do races on one request leave intact? |
| `batch_commands` | 3 items, 6 commands of 2 operators, of which 1 overlaps or dies | does the record stay truthful, and do dependencies, failures and rollbacks come out right? |
| `local_execution` | 5 sub-tasks in 2 editions of a blueprint, 2 revisions, 2 roles, 1 failure, 1 crash | does the state file stay truthful, do tasks complete in order, does resuming get all of them done? |
| `repair_loop` | 2 runs, 4 requests with budgets 0 and 2, 4 outputs, 1 edit, 1 crash | is "completed" verified, is the evidence the run's own, does every run end? |
| `story_review` | bundle and record twice, review, finalize and a commit once, 2 crashes, 2 executors | is what is declared ready what was tested and reviewed? |
| `story_gates` | every command and an edit once, in any order | is the cloud shown, and the owner asked about, only what passed? |
| `work_queues` | 1 ticket, 2 items, 2 story numbers, 3 blueprints, 1 crash | is nothing lost, is a number that can be seen given once, does a blocked story have its ticket? |
| `story_local_finalize` | as `story_gates`, no change of the tree | can cloud-review-prep follow local-finalize? (no) |
| `promotion_misfiled` | 1 item, this repository's blueprint, no crash | does a promoted story get into the blueprint? (no) |

Why these bounds are enough for the question. *Application*: three applications give a
stack in which "the parent" and "the bootstrap revision" differ, an application after a
rollback, and a second one after a crashed one; two tasks with three leases give a
resume that publishes one result and fails on the other. One crash is one half-done
command, over which every later command runs. *Queue*: two requests with equal and with
different batch ids let an export replace the packet of another, one that died included.
Two processes suffice for each race: every guard in the code compares what one process
read with what one other wrote; `RaceAfterCrash` keeps `app_concurrent` small by letting two
commands run over what a crash left behind only if one of them is recover. *Batch*: a
dependency and a path overlap between them put an item into an earlier wave than the one
it waits for; six commands are the shortest life with an apply and something after
it that can go wrong. One fault is one overlap *or* one crash. *Local execution*: `big` is too
large and is split by the planner or replaced in a revision; something waits for each of the
others. *Repair loop*: a second run finds the reports of a first one that was longer,
shorter, or died. *Review*: `story_review` needs a second bundle and record for every mix of
old and new evidence, and two crashes to tear two files of it; commands of the later gates are
left to `story_gates`, in which each command occurs once, run-story and the two workflows
being the repetitions of finalize-story, review-bundle and the packet. The theorems of
section 4 are about any number of each, and about crashes in all of them: in `story_gates`
nothing dies, so that what `HumanAskedInTime` says of a torn file is only proved. *Queues*: two
items, or one promoted again after a death, compete for a number: in an empty blueprint, in
one that appending extends and whose story is not seen, and in one that does not list what
is appended and whose story is seen.

Interchangeable model values form symmetry sets, in runs without liveness only. Deadlock
is checked where the system can always go on (application, local execution, work
queues). The others stop when ids, commands or runs are used up.

**Fairness.** `LocalExecution` and `RepairLoop` assume weak fairness of the steps of a running
command (`WF_vars(Progress)`): a command is one thread, a call of the model returns or is ended
by its HTTP timeout (both are steps here), subprocesses likewise, and nothing waits for
another process. That a person starts a command, that a crash or failure
occurs or stops occurring is never assumed; `ResumeCompletes` has "resumed again and
again" as a premise, and failures and crashes are bounded. `LoopEnds`, `ReachesVerdict` and
`ResumeCompletes` rest on it. The other modules assume none: their commands are typed by an
operator, and their properties are safety.

### Findings

1. `FinalizedIsPrepared` (run `story_local_finalize`). `docs/golden_path.md:229-240` has
   cloud-review-prep follow local-finalize. But local-finalize ends with a new review bundle
   (`workflow_run.py:388`), taken of a tree in which its finalize-story step has just rewritten the
   tracked `status.yaml` and reports: the bundle is "ambiguous", and the execution record is bound
   to the old one, so that the packet is refused (`cloud_review_packet.py:78-80`).
2. `PromotedIntoBlueprint` (run `promotion_misfiled`). `append_story_to_blueprint`
   (`queue_management.py:722`) indents what it appends by two. The list in
   `blueprints/blueprint.yaml` is not indented: the promoted story becomes an element of the
   last list of the last story. The tests use an indented list.

Divergences met while modelling that no run is kept for:

- a result is published under a lease that a rollback has made stale between the gate and
  the write (`cloud_application/service.py:664`);
- recover files every interrupted application under "stale" and leaves it `applying`, as the
  plan checksum in the journal is lost at its second save
  (`cloud_application/transactions.py:75`); in the model `PointerPending` and `StatusPending` are
  never true;
- after a failed resume no command can roll the active revision back
  (`cloud_application/service.py:714`);
- "This ZIP archive is the canonical export artifact" (`cloud_queue/export.py:196`), but the archive
  is opened anew under the batch id of its first request (`cloud_queue/export.py:110`): two
  requests created in the same second (`cloud_queue/service.py:89`) and exported one by one, or two
  exports at once, leave an exported request in no packet. `ExportedIsPacked` is about distinct
  batch ids and one command at a time;
- `next_story_number` does not see a number that a story has in `story_id` or in its title only, as
  the last one of this repository (Story 067, `blueprints/blueprint.yaml:9155`): the highest it
  finds there is STORY-066, and the next promotion is STORY-067 again. `PromotionsSound` is
  about numbers that are seen;
- a run by role or of a revision that takes over the state file of a run which died leaves
  the task that run had claimed "running" if it is not in its own plan, and returns
  (`local_execution.py:398`, 1102-1118); `ReachesVerdict` is about the tasks of the plan;
- a resume that ends `resume_failed` is recorded as `resumed` by the batch
  (`cloud_batch/orchestration_runtime.py:275`), and so never looked at again;
- importing a second response for an approved request is refused only after the approved one
  was overwritten (`cloud_queue/importers.py:166`);
- resume of a batch fails every applied item but the last, since each later application has
  moved the pointer on (`cloud_batch/orchestration_runtime.py:258`), and an apply repeated after
  a crash writes over the revision it had published (`cloud_batch/orchestration_runtime.py:393`);
- a resume of a runtime revision ends `blocked` whenever the revision has tasks that it
  declares completed, blocked or superseded, and so becomes resume_failed
  (`cloud_application/resume.py:44-48`, `local_execution.py:1110-1112`);
- once the planner has replaced a blocked sub-task, its old id stays in `blocked` and the
  story never completes on a resume, though `docs/runtime_config.md:168-171` says to resume;
- `blocked_by` is never cleared, so next-step goes on recommending the ticket
  (`next_step.py:176-193`, `docs/golden_path.md:265-270`);
- `docs/local_repair_loop.md:65-68` sends unclear acceptance criteria to manual support, but that
  classification does not keep the loop from running; a budget of zero ends
  "budget_exceeded" without a support report; a last attempt that fails in the model is
  reported as not applied though an earlier one has overwritten the target;
- after two crashes that leave the results of cloud review and merge readiness empty, next-step
  recommends "human review" although no review approved (`HumanAskedInTime` says so);
- an empty `checksums.yaml` checks nothing (`review_state/service.py:1064`): `past.unchecked`
  excludes records taken of such a bundle from one conjunct of `ReadinessEarned`.

## 4. Proofs

TLAPS checks every step of the eight proof modules. Every invariant, action property and
refinement that a run checks is a theorem; what is left to TLC alone is liveness. The theorems
hold for any sets of processes, requests, tasks, responses, contents and outputs, for any graph
of a batch, and for any number of commands, applications, items, edits, commits and crashes.
Assumptions are the named `ASSUME`s of the modules: bounds are numbers, classes of constants are
disjoint, marks like `None` are no values, plans mention their own tasks; no constant is assumed
to behave like the code. In each module `IInv` is inductive, and preservation has one step per
action.

**Whatever runs at once**

- `CloudApplicationProofs`: `TypeCorrect`, `StoreSound`, `JournalOrdered`, `ResultsLeased`. A
  command moves the pointer to a revision it wrote many steps before, or back to a parent it
  knew when it started. `IInv` adds what each command in flight still knows (`WorkerInv`), that a
  published revision has an application record (`CreatedFirst`, which makes the next id fresh)
  and that the journal names no revision that is not there (`JournalBehind`). `OrderInv` adds that
  an application being made has one owner (`Owns`), so that its journal is not taken back
  behind its revision file. `LeasesInv` says what a command knows of leases (`LeaseHeld`); leases
  are never deleted and revisions never rewritten (`Grows`), which is why another command's
  rollback may make a lease stale but not unpublish it.
- `CloudQueueProofs`: `TypeCorrect`, `Bound`. A command writes what it read at its
  start, so `IInv` says that what it is going to write is good (`GoodFile`), in terms that
  no other command can take away again.
- `CloudBatchProofs`: `TypeCorrect`, `DependenciesAlwaysFirst`, `StatusAlwaysTruthful`,
  `ScheduleAlwaysSound`. Every command saves a copy of the record which it read before others
  saved theirs, so `IInv` is about the copies as much as about the file (`ItemsTrue`, `HeldTrue`);
  stale as a copy may be, this stays true, because no command takes a revision file back
  (`RevsGrow`). The schedule is proved of the algorithms: a graph that passes
  `ValidGraph` has an order in which dependencies come first (`OrderSound`), first fit keeps each
  wave in that order and free of overlaps (`WavesSound`), and a failure reaches what depends on it and
  nothing else (`FallsForAReason`, `EverythingFalls`). That the graph was validated is not assumed:
  only `Create` makes a record, and it validates (`Validated`, `PlanOfGraph`).
- `WorkQueuesProofs`: `TypeCorrect`, `NothingDisappears`, `StoriesNumbered`, `BlockedNamesTicket`.
  A command is several writes, and dies between them. `CommandInv` says of each stage what has
  been done: a move has its file in the old folder, in both, in the new one; a promotion has
  chosen a number seen nowhere (`Numbered`), then listed its story, then made its folder.
  `FilesInv` and `StoriesInv` say what is true of an id no file of which was torn and no
  move of which died (`Intact`), and what of the others.
- `StoryReviewProofs`: `Earnt`, `Packed`, `NoLegacy`, `AskedInTime`. A command decides on
  one set of files and writes several others later, with commits, edits and deaths between. `IInv`
  calls a value `Backed` when history justifies it, and demands that of each file *and of each
  write that is still to come* (`SoundSteps`); it says of what finalize-story holds that it was
  judged (`Judged`), that tests follow a capture of the same tree (`Paired`, `Captured`), and that
  nobody who may take a new record also settles. History only grows (`Grown`), so that what
  is backed stays backed; that files are of different ages does not matter for it.

**One command at a time, each dying anywhere**

- `CloudApplicationSequentialProofs`: `RecordsMatch`, `JournalBehindFiles`, `ResumedPublished`, and
  `StackOfRevisions`: the service implements `RevisionStack`. Under `OneAtATime` (two processes
  are the same one). A crash leaves an application half-way, and the next command starts from
  there: `AppInv` lists the half-way states by whether the revision is in effect and by what
  the two journals say, `CommandInv` says which of them the running command is about to leave,
  `ResumptionInv` that a task of a revision has one lease. `RevisionStack` is pushed only by
  `SetPointer` and popped only by `RestorePointer`; every other step, crashes and recovery
  included, is a stutter, for which `Used` counts what the journal says was pointed to.
- `CloudQueueProofs`: `OneFile`, `ApprovalLocked`, `Packed`, and `LifeOfARequest`: the queue implements
  `RequestLifecycle`. `SInv` adds to `IInv` that what the one command read is still so
  (`UpToDate`), and that a request whose file it holds in memory has none on disk. A request between
  unlink and write has the phase it had before; one whose command died there is lost.
  A packet is replaced by the next export under its batch id, so `PInv` adds that every sent
  request is in the packet of a request which is no longer "ready" (`Spent`, `Kept`) and, as batch
  ids are distinct, the only one that could replace it; the first request of a packet is moved
  first, and what the running command still has to move is in that packet (`Keeps`).
- `CloudBatchProofs`: `NothingReopened`, `FailuresSpread`, `NothingPassedOver`,
  `LittleForgotten`, `EverythingUndone`. These need no assumption on the constants: they are
  about behaviours up to the first overlap (`overlaps = 0`). `OneByOne` says of the running
  command what its copy and the record have in common at each label (`Knows`: they agree
  while a lock is held and between the items of an apply; within an item they differ in that
  item, and in a resume in items it has marked pending in memory only), and of an apply
  which part of the waves is behind it and why each item there is settled or excused
  (`Thorough`, `Gone`). `Remembered` counts what a death may lose. For rollback, `Ranked`
  gives every revision a rank above that of its parent unless that was written again since
  (`Older`): a rollback that gets to its end has only gone down, so that the pointer is
  below every item it undid (`Undone`).
- `LocalExecutionProofs`: `TypeCorrect`, `Ledger`, `Evidence`, `Honest`, and `Refinement`:
  `LocalExecution` implements `TaskBoard`. `RunInv` says of the copy in memory what the
  properties say of the file, and how far the file may lag behind it at each step. The order
  in which tasks come does not matter for the refinement: a task is claimed only after
  `Waits` has found everything it waits for completed.
- `RepairLoopProofs`: `TypeCorrect`, `Verified`, `Evidence`. Files of several runs lie side by side,
  so `IInv` orders them (`RunsInOrder`: none is of a later run), says what a run has written of
  its own at each step (`Own`, `Reported`), what it has in hand (`InHand`), and that the
  target is what the last check found (`Found`) unless somebody wrote it.

**Recursion.** The library's induction rules take an operator as a parameter and cannot be used.
Induction is by a least counterexample instead: a set of numbers has a least one (`LeastOne`,
from the well-foundedness of `<`), so that a set with 0 and with the successor of each of its
members has all of them (`UpTo`). That recursive definitions are functions at all is proved the same way:
`IterationDefined` for the loops of `BatchSchedule`, which are functions of the number of turns,
and `DefinedOnRevisions` for `Lineage` and `Chain`, which go from a revision to its parent, an older
one (`WellParented`). What a step does to them then follows from their equations (`LineageKept`).

Only model-checked: liveness (`LoopEnds`, `ReachesVerdict`, `ResumeCompletes`), which
TLAPS cannot do, and what `Passes` and `Closure` of `LocalExecution` compute, on which no theorem
depends. The two runs that expect a violation have nothing to prove.

## 5. Not modelled, and the plan

Not modelled, for good: the model and Codex runtimes, configuration, scorecards, role
contexts, prompt packs, scaffolding, demos, workflow preview, project status and the command
line. They read, format and print, or write a file once that no decision of the
modelled parts depends on. Public readiness, artifact policy and micro readiness
judge texts and sizes; batch recover writes only its own report.

Left of the plan:

1. `CloudPipeline`, queue and application composed: only a decided request is applied, and with
   the response it was decided for. The theorems `ApprovalLocked` and `ResultsLeased` are
   the two halves of it.
2. That `CloudBatch`'s one-step application service is what `CloudApplication` does
   (its outcomes were read off the code, `CloudApplication` looks inside them).
3. run-next-story's choice of a story from blueprint order, dependencies and statuses, over
   `WorkQueues`; role mode of local execution.
