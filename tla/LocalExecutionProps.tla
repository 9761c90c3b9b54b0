------------------------- MODULE LocalExecutionProps -------------------------
(***************************************************************************)
(* What local execution guarantees, whatever mixture of runs, role runs,   *)
(* resumes and revision resumes has shared the state file and wherever one *)
(* of them died.                                                           *)
(***************************************************************************)
EXTENDS LocalExecution

TypeOK ==
    /\ edition \in DOMAIN Blueprints
    /\ state \in State
    /\ files \in [Tasks -> {"none", "torn", "whole"}]
    /\ report \in [Tasks -> TaskStatuses]
    /\ run \in [pc: {"idle", "load", "next", "attempt", "writing", "report", "save"},
               kind: {"none", "run", "resume", "role", "revision"},
               plan: Plan, next: Nat, mem: State, clean: BOOLEAN,
               result: {"none", "refused", "crashed"} \cup StoryStatuses]
    /\ faults \in 0..MaxFaults /\ crashes \in 0..MaxCrashes

-----------------------------------------------------------------------------

\* The lists of the state file never disagree with the statuses in it, though
\* they are kept separately, a run may die between any two saves, and what a
\* revision declares is mixed in: completed is the list of the completed, nothing
\* completed is blocked, and whatever failed or waits for the planner is listed as
\* such until it is completed (complete_subtask, fail_subtask, block_subtask,
\* mark_cloud_redecomposition_required).
ListsAgree(s) ==
    /\ s.completed = {t \in Tasks : s.task[t] = "completed"}
    /\ s.completed \cap s.blocked = {}
    /\ {t \in Tasks : s.task[t] \in {"failed", "blocked", "cloud_redecomposition_required"}}
          \subseteq s.blocked
    /\ s.redecompose = {t \in Tasks : s.task[t] = "cloud_redecomposition_required"}
    /\ s.redecompose \subseteq s.blocked
LedgerConsistent == ListsAgree(state)

\* A task that local execution has recorded as completed has all of its files and
\* its execution.yaml in the project: a half-written task never counts, whether the
\* write failed or the command died (apply_execution_writes, the finally clause).
Evidenced(s) ==
    \A t \in s.proven : s.task[t] = "completed" /\ files[t] = "whole" /\ report[t] = "completed"
CompletedIsEvidenced == Evidenced(state)

\* A story is reported completed only when nothing is blocked in any of the runs
\* that share the file and the tasks of the last plan are completed and proven.
VerdictHonest ==
    At("idle") /\ run.result = "completed" =>
        /\ run.mem.blocked = {} /\ run.mem.redecompose = {}
        /\ InOrder(run.plan.order) \subseteq run.mem.completed \cap run.mem.proven

\* Tasks complete one at a time, each after what it waits for in the plan in
\* force, and completed work is forgotten only by starting over.
Board == INSTANCE TaskBoard
    WITH rules <- run.plan.deps, done <- state.completed,
         Starts <- {FromRevision(r).completed : r \in Revisions}
ImplementsTaskBoard == Board!Spec

\* Resuming again and again gets every task done once failures and crashes have
\* stopped, from whatever state earlier runs have left behind: no status is a dead
\* end, but for a task that is too large, one a revision declared completed without
\* evidence, and a blocked one that has left the blueprint.
FullResume == run.kind = "resume" /\ Finalize
ResumeCompletes ==
    []<><<FullResume>>_vars
        /\ <>[](/\ state.redecompose = {} /\ state.completed = state.proven
               /\ state.blocked \subseteq InOrder(Blueprint.order))
        => []<>(state.status = "completed")

\* A command that was started dies or returns, and when it returns the file holds the verdict
\* it returned and no task of its plan is left running, whatever was running in the state it
\* took over (run_subtask_local_execution, finalize_subtask_story_state).  A task outside its
\* plan may be: one that a run which died had claimed, when a run by role or of a revision
\* takes over the file.
NothingRuns ==
    /\ state.status = run.result /\ run.result # "running"
    /\ \A t \in InOrder(run.plan.order) : state.task[t] # "running"
ReachesVerdict == ~At("idle") ~> At("idle") /\ (run.result # "crashed" => NothingRuns)
=============================================================================
