--------------------------- MODULE LocalExecution ---------------------------
(***************************************************************************)
(* local_execution.py on the sub-tasks of one story: the command           *)
(* local-execute, plain, with --resume or with --role, and the run that    *)
(* the resume of a cloud application starts on a runtime revision.  All of *)
(* them keep their progress in the same reports/local_execution/state.yaml,*)
(* which is written whole, from memory, after every step; a command may    *)
(* die between two steps or while it writes.                               *)
(*                                                                         *)
(* The model's answer, the context and the model assignment of a task are  *)
(* reduced to what they lead to: the files of the task are written, or the *)
(* task fails.  Attempt numbers, time stamps and current_task are left out.*)
(***************************************************************************)
EXTENDS FiniteSets, Naturals, Sequences

CONSTANTS
    Tasks,       \* sub-task ids
    Blueprints,  \* the successive versions of the story's blueprint
    Revisions,   \* runtime revisions a cloud application may resume
    Roles,       \* for each role, the tasks assigned to it
    MaxFaults,   \* bound: failures of a model call, a check or a write
    MaxCrashes   \* bound: commands that die

\* `large` tasks do not fit their context budget; a requirement is the set of
\* tasks that name it.
Plan == [order: Seq(Tasks), deps: [Tasks -> SUBSET Tasks], large: SUBSET Tasks,
         requirements: SUBSET SUBSET Tasks]

TaskStatuses == {"absent", "pending", "ready", "running", "completed", "failed", "blocked",
                 "cloud_redecomposition_required", "superseded"}
StoryStatuses == {"pending", "ready", "running", "completed", "blocked"}

\* What the graph of a revision makes of a task.
RevisionStatuses == {"ready", "completed", "blocked", "superseded"}

InOrder(order) == {order[i] : i \in DOMAIN order}

ASSUME PlansAssumption ==
    /\ Blueprints \in Seq(Plan) \ {<<>>}
    /\ \A k \in DOMAIN Blueprints : \A t \in InOrder(Blueprints[k].order) :
          Blueprints[k].deps[t] \subseteq InOrder(Blueprints[k].order)
    /\ Revisions \subseteq [plan: Plan, status: [Tasks -> RevisionStatuses]]
    /\ Roles \subseteq SUBSET Tasks
    /\ MaxFaults \in Nat /\ MaxCrashes \in Nat

VARIABLES
    edition,  \* which of the blueprints the story has
    state,    \* state.yaml, or NoState
    files,    \* what of a task's files is in the project: none, torn or whole
    report,   \* the status in tasks/<id>/execution.yaml
    run,      \* the command: where it stands and what it holds in memory
    faults, crashes

vars == <<edition, state, files, report, run, faults, crashes>>

-----------------------------------------------------------------------------
(* The state file *)

\* `proven` tasks carry the validation result, outputs and handoff of an
\* execution; a task that a revision declares completed does not.
State == [status: StoryStatuses, task: [Tasks -> TaskStatuses], proven: SUBSET Tasks,
          completed: SUBSET Tasks, blocked: SUBSET Tasks, redecompose: SUBSET Tasks]

NoState ==
    [status |-> "pending", task |-> [t \in Tasks |-> "absent"], proven |-> {},
     completed |-> {}, blocked |-> {}, redecompose |-> {}]

\* initialize_subtask_state: the tasks that are planned appear as pending.
WithTasks(s, chosen) ==
    [s EXCEPT !.task = [t \in Tasks |-> IF s.task[t] = "absent" /\ t \in chosen
                                        THEN "pending" ELSE s.task[t]]]

\* _build_resume_initial_state
FromRevision(r) ==
    LET Having(st) == {t \in InOrder(r.plan.order) : r.status[t] = st}
    IN [status |-> "pending", proven |-> {}, redecompose |-> {},
        task |-> [t \in Tasks |-> IF t \in InOrder(r.plan.order) THEN r.status[t] ELSE "absent"],
        completed |-> Having("completed"), blocked |-> Having("blocked")]

\* Mutant: a task that is completed after a failure stays listed as blocked.
WithCompletedListed(s, t) ==
    [s EXCEPT !.task[t] = "completed", !.proven = @ \cup {t}, !.completed = @ \cup {t},
              !.redecompose = @ \ {t}]

\* complete_subtask
WithCompleted(s, t) ==
    [s EXCEPT !.task[t] = "completed", !.proven = @ \cup {t}, !.completed = @ \cup {t},
              !.blocked = @ \ {t}, !.redecompose = @ \ {t}]

\* Mutant: the story takes the status of its task.
WithBlockedStory(s, t, status) ==
    [s EXCEPT !.status = status, !.task[t] = status, !.blocked = @ \cup {t}]

\* fail_subtask and block_subtask
WithBlocked(s, t, status) ==
    [s EXCEPT !.status = "blocked", !.task[t] = status, !.blocked = @ \cup {t}]

\* mark_cloud_redecomposition_required
WithRedecompose(s, t) ==
    [WithBlocked(s, t, "cloud_redecomposition_required") EXCEPT !.redecompose = @ \cup {t}]

-----------------------------------------------------------------------------
(* Planning *)

\* topological_subtasks on the chosen tasks: pass after pass over the list, each
\* taking the tasks whose dependencies earlier passes have taken.
Passes(plan, chosen) ==
    LET pass[n \in 0..Len(plan.order)] ==
            IF n = 0 THEN <<>>
            ELSE LET earlier == pass[n - 1]
                     Free(t) == /\ t \in chosen \ InOrder(earlier)
                                /\ plan.deps[t] \subseteq InOrder(earlier)
                 IN earlier \o SelectSeq(plan.order, Free)
    IN pass[Len(plan.order)]

\* It raises when a task is left: on a cycle, and on a dependency that is not chosen.
Orderable(plan, chosen) ==
    LET placed == Passes(plan, chosen)
    IN placed \in Seq(chosen) /\ InOrder(placed) = chosen

\* selected_subtasks: the tasks of a role and all that they need.
Closure(chosen, deps) ==
    LET needed[n \in 0..Cardinality(Tasks)] ==
            IF n = 0 THEN chosen ELSE needed[n - 1] \cup UNION {deps[t] : t \in needed[n - 1]}
    IN needed[Cardinality(Tasks)]

Blueprint == Blueprints[edition]

-----------------------------------------------------------------------------
(* The command: loaded, the loop over the tasks, finalised *)

Idle == [pc |-> "idle", kind |-> "none", plan |-> Blueprints[1], next |-> 1,
         mem |-> NoState, clean |-> TRUE, result |-> "none"]

At(pc) == run.pc = pc
Current == run.plan.order[run.next]
Goto(pc, mem) == run' = [run EXCEPT !.pc = pc, !.mem = mem]
NextTask(mem) == run' = [run EXCEPT !.pc = "next", !.mem = mem, !.next = @ + 1]
Save(mem) == state' = mem

\* run_subtask_local_execution up to the loop: the plan is ordered, or refused,
\* and the state is taken from the file, from nothing or from the caller.
Load(kind, plan, chosen, from) ==
    /\ At("idle")
    /\ run' = IF Orderable(plan, chosen)
              THEN [Idle EXCEPT !.pc = "load", !.kind = kind,
                                !.plan = [plan EXCEPT !.order = Passes(plan, chosen)],
                                !.mem = WithTasks(from, chosen)]
              ELSE [Idle EXCEPT !.kind = kind, !.plan = plan, !.result = "refused"]
    /\ UNCHANGED <<edition, state, files, report, faults, crashes>>

LocalExecute == Load("run", Blueprint, InOrder(Blueprint.order), NoState)
Resume == Load("resume", Blueprint, InOrder(Blueprint.order), state)

RoleExecute(role, from) ==
    LET assigned == role \cap InOrder(Blueprint.order)
    IN /\ assigned # {}
       /\ Load("role", Blueprint, InOrder(Blueprint.order) \cap Closure(assigned, Blueprint.deps),
               from)

\* run_runtime_revision_execution, as resume of a cloud application calls it:
\* the ready tasks of the revision, in a state made from its statuses.
ResumeRevision(r) ==
    LET ready == {t \in InOrder(r.plan.order) : r.status[t] = "ready"}
    IN /\ ready # {}
       /\ Load("revision", r.plan, ready, FromRevision(r))

SaveInitial ==
    /\ At("load")
    /\ Save(run.mem)
    /\ Goto("next", run.mem)
    /\ UNCHANGED <<edition, files, report, faults, crashes>>

HasNext == At("next") /\ run.next <= Len(run.plan.order)

\* Mutant: a task that failed is left for good.
SkippedFailed == run.mem.task[Current] \in {"completed", "failed", "cloud_redecomposition_required"}

\* What the loop passes over without a write.  Before its turn a task asks for
\* redecomposition only in a state that is resumed.
Skipped == run.mem.task[Current] \in {"completed", "cloud_redecomposition_required"}

SkipTask ==
    /\ HasNext /\ Skipped
    /\ NextTask(run.mem)
    /\ UNCHANGED <<edition, state, files, report, faults, crashes>>

\* Mutant: only a dependency known to have failed is waited for.
WaitsForFailed == \E d \in run.plan.deps[Current] : run.mem.task[d] \in {"failed", "blocked"}

\* first_blocking_dependency
Waits == \E d \in run.plan.deps[Current] : run.mem.task[d] # "completed"

BlockTask ==
    /\ HasNext /\ ~Skipped /\ Waits
    /\ LET mem == WithBlocked(run.mem, Current, "blocked")
       IN Save(mem) /\ NextTask(mem)
    /\ UNCHANGED <<edition, files, report, faults, crashes>>

ClaimTask ==
    /\ HasNext /\ ~Skipped /\ ~Waits
    /\ LET mem == [run.mem EXCEPT !.status = "running", !.task[Current] = "running"]
       IN Save(mem) /\ Goto("attempt", mem)
    /\ UNCHANGED <<edition, files, report, faults, crashes>>

\* No model, no context, no usable answer, a write that fails: "failed".  A path the task
\* may not write, or a write the system does not permit: "blocked".
FailureStatuses == {"failed", "blocked"}

FailTask ==
    /\ At("attempt") \/ At("writing")
    /\ faults < MaxFaults
    /\ \E status \in FailureStatuses :
          LET mem == WithBlocked(run.mem, Current, status)
          IN Save(mem) /\ run' = [run EXCEPT !.pc = "report", !.mem = mem, !.clean = FALSE]
    /\ faults' = faults + 1
    /\ UNCHANGED <<edition, files, report, crashes>>

\* assemble_subtask_context: the prompt is estimated to exceed the context budget.
TooLarge == Current \in run.plan.large

RefuseLarge ==
    /\ At("attempt") /\ TooLarge
    /\ LET mem == WithRedecompose(run.mem, Current)
       IN Save(mem) /\ Goto("report", mem)
    /\ UNCHANGED <<edition, files, report, faults, crashes>>

\* Mutant: the state names the task completed before its files are written.
BeginWritesSaved ==
    /\ At("attempt") /\ ~TooLarge
    /\ files' = [files EXCEPT ![Current] = "torn"]
    /\ LET mem == WithCompleted(run.mem, Current) IN Save(mem) /\ Goto("writing", mem)
    /\ UNCHANGED <<edition, report, faults, crashes>>

\* apply_execution_writes: every destination is validated, then the files are
\* written one by one.
BeginWrites ==
    /\ At("attempt") /\ ~TooLarge
    /\ files' = [files EXCEPT ![Current] = "torn"]
    /\ Goto("writing", run.mem)
    /\ UNCHANGED <<edition, state, report, faults, crashes>>

FinishWrites ==
    /\ At("writing")
    /\ files' = [files EXCEPT ![Current] = "whole"]
    /\ Goto("report", WithCompleted(run.mem, Current))
    /\ UNCHANGED <<edition, state, report, faults, crashes>>

\* The finally clause: execution.yaml of the task, then the state.
WriteReport ==
    /\ At("report")
    /\ report' = [report EXCEPT ![Current] = run.mem.task[Current]]
    /\ Goto("save", run.mem)
    /\ UNCHANGED <<edition, state, files, faults, crashes>>

SaveTask ==
    /\ At("save")
    /\ Save(run.mem)
    /\ NextTask(run.mem)
    /\ UNCHANGED <<edition, files, report, faults, crashes>>

\* Mutant: what is blocked outside the plan does not count.
VerdictOfPlan(s, plan) ==
    IF InOrder(plan.order) \subseteq s.completed THEN "completed" ELSE "pending"

\* Mutant: while tasks are open the story stays as it is, as in a run by role.
VerdictOpen(s, plan) ==
    IF s.redecompose # {} \/ s.blocked # {} THEN "blocked"
    ELSE IF InOrder(plan.order) \subseteq s.proven THEN "completed" ELSE s.status

\* finalize_subtask_story_state and validate_story_requirements
Verdict(s, plan) ==
    LET planned == InOrder(plan.order)
        open == {t \in planned : s.task[t] # "completed"}
        missing == {q \in plan.requirements : q \cap planned = {}}
    IN IF s.redecompose # {} \/ s.blocked # {} THEN "blocked"
       ELSE IF open = {}
       THEN IF missing = {} /\ planned \subseteq s.proven THEN "completed" ELSE "blocked"
       ELSE IF \E t \in open : \A d \in plan.deps[t] : s.task[d] = "completed" THEN "ready"
       ELSE "pending"

Finalize ==
    /\ At("next") /\ run.next > Len(run.plan.order)
    /\ LET mem == [run.mem EXCEPT !.status = Verdict(run.mem, run.plan)]
       IN /\ Save(mem)
          /\ run' = [run EXCEPT !.pc = "idle", !.mem = mem, !.result = mem.status]
    /\ UNCHANGED <<edition, files, report, faults, crashes>>

-----------------------------------------------------------------------------
(* The environment *)

\* The planner decomposes, in the blueprint, a task the state asks it to.
Redecompose ==
    /\ edition < Len(Blueprints)
    /\ state.redecompose # {}
    /\ edition' = edition + 1
    /\ UNCHANGED <<state, files, report, run, faults, crashes>>

\* The command dies.  The state file is truncated and then written
\* (Path.write_text): dying in between leaves it empty, which reads as no state.
Crash ==
    /\ ~At("idle")
    /\ crashes < MaxCrashes
    /\ crashes' = crashes + 1
    /\ run' = [run EXCEPT !.pc = "idle", !.result = "crashed"]
    /\ state' \in IF At("report") THEN {state} ELSE {state, NoState}
    /\ UNCHANGED <<edition, files, report, faults>>

-----------------------------------------------------------------------------

Init ==
    /\ edition = 1
    /\ state = NoState
    /\ files = [t \in Tasks |-> "none"]
    /\ report = [t \in Tasks |-> "absent"]
    /\ run = Idle
    /\ faults = 0 /\ crashes = 0

Command ==
    \/ LocalExecute \/ Resume
    \/ \E role \in Roles, from \in {NoState, state} : RoleExecute(role, from)
    \/ \E r \in Revisions : ResumeRevision(r)

Progress ==
    \/ SaveInitial \/ SkipTask \/ BlockTask \/ ClaimTask \/ FailTask \/ RefuseLarge
    \/ BeginWrites \/ FinishWrites \/ WriteReport \/ SaveTask \/ Finalize

Next == Command \/ Progress \/ Redecompose \/ Crash

\* A command that runs goes on until it returns, unless it dies: a call of the
\* model has a timeout (local_model_runtime.py) and everything else is local.
Spec == Init /\ [][Next]_vars /\ WF_vars(Progress)
=============================================================================
