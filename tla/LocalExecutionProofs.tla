------------------------ MODULE LocalExecutionProofs ------------------------
(***************************************************************************)
(* The state file of local execution is sound after every step of every    *)
(* command, for any blueprints, roles, revisions, failures and crashes:    *)
(* its lists agree with its statuses, what it calls completed is there,    *)
(* a completed verdict is earned, and tasks complete in dependency order.  *)
(*                                                                         *)
(* None of it is inductive on the file alone, because a command writes     *)
(* what it has in memory.  IInv adds what ties the two at each point of    *)
(* the command: memory equals the file, but for the task just finished.    *)
(***************************************************************************)
EXTENDS LocalExecutionProps, SequenceTheorems, TLAPS

Looping == {"load", "next", "attempt", "writing", "report", "save"}
OnTask == {"attempt", "writing", "report", "save"}

\* What a command may have taken its state from.
Loaded ==
    /\ ListsAgree(run.mem) /\ Evidenced(run.mem)
    /\ run.mem.completed \in {{}, state.completed} \cup {FromRevision(r).completed : r \in Revisions}

\* The current task was claimed, in the file too, and waits for nothing.
Claimed ==
    /\ state.task[Current] = "running"
    /\ run.plan.deps[Current] \subseteq state.completed

\* The current task has just been finished, and the file does not say so yet.
Finished ==
    /\ Claimed
    /\ run.mem = WithCompleted(state, Current)
    /\ files[Current] = "whole"

Refused == run.mem = state /\ state.task[Current] # "completed"

RunInv ==
    /\ At("load") => Loaded
    /\ At("next") => run.mem = state
    /\ At("attempt") \/ At("writing") => run.mem = state /\ Claimed
    /\ At("report") => Finished \/ Refused
    /\ At("save") => \/ Finished /\ report[Current] = "completed"
                     \/ Refused
    /\ run.pc \in OnTask => run.next \in DOMAIN run.plan.order
    /\ run.pc \in Looping => run.next \in Nat \ {0}

IInv ==
    /\ TypeOK
    /\ LedgerConsistent
    /\ CompletedIsEvidenced
    /\ VerdictHonest
    /\ RunInv

-----------------------------------------------------------------------------
(* What the functions of the state file keep *)

LEMMA NoStateSound == NoState \in State /\ ListsAgree(NoState) /\ Evidenced(NoState)
BY DEF NoState, State, StoryStatuses, TaskStatuses, ListsAgree, Evidenced

LEMMA WithTasksSound ==
    ASSUME NEW s \in State, NEW chosen \in SUBSET Tasks, ListsAgree(s), Evidenced(s)
    PROVE  /\ WithTasks(s, chosen) \in State
           /\ ListsAgree(WithTasks(s, chosen)) /\ Evidenced(WithTasks(s, chosen))
           /\ WithTasks(s, chosen).completed = s.completed
<1> DEFINE new == WithTasks(s, chosen)
<1>1. new \in State
  BY DEF WithTasks, State, TaskStatuses
<1>2. /\ new.status = s.status /\ new.proven = s.proven /\ new.completed = s.completed
      /\ new.blocked = s.blocked /\ new.redecompose = s.redecompose
  BY DEF WithTasks, State
<1>3. \A t \in Tasks : new.task[t] = IF s.task[t] = "absent" /\ t \in chosen
                                    THEN "pending" ELSE s.task[t]
  BY DEF WithTasks, State
<1>4. \A t \in Tasks, st \in TaskStatuses \ {"absent", "pending"} :
         new.task[t] = st <=> s.task[t] = st
  BY <1>3 DEF TaskStatuses
<1>5. ListsAgree(new)
  BY <1>2, <1>4 DEF ListsAgree, TaskStatuses
<1>6. Evidenced(new)
  BY <1>2, <1>4 DEF Evidenced, TaskStatuses, State
<1> QED
  BY <1>1, <1>2, <1>5, <1>6

LEMMA FromRevisionSound ==
    ASSUME NEW r \in Revisions
    PROVE  FromRevision(r) \in State /\ ListsAgree(FromRevision(r)) /\ Evidenced(FromRevision(r))
<1> DEFINE new == FromRevision(r)
           planned == InOrder(r.plan.order)
<1>1. r.plan \in Plan /\ r.status \in [Tasks -> RevisionStatuses]
  BY PlansAssumption
<1>2. planned \subseteq Tasks
  BY <1>1, LenProperties DEF Plan, InOrder
<1>3. /\ new.status = "pending" /\ new.proven = {} /\ new.redecompose = {}
      /\ new.task = [t \in Tasks |-> IF t \in planned THEN r.status[t] ELSE "absent"]
      /\ new.completed = {t \in planned : r.status[t] = "completed"}
      /\ new.blocked = {t \in planned : r.status[t] = "blocked"}
  BY DEF FromRevision
<1>4. new \in State
  BY <1>1, <1>2 DEF FromRevision, State, StoryStatuses, RevisionStatuses, TaskStatuses
<1>5. ListsAgree(new)
  BY <1>1, <1>2, <1>3 DEF ListsAgree, RevisionStatuses
<1> QED
  BY <1>3, <1>4, <1>5 DEF Evidenced

LEMMA WithCompletedSound ==
    ASSUME NEW s \in State, NEW t \in Tasks, ListsAgree(s), s.task[t] = "running"
    PROVE  /\ WithCompleted(s, t) \in State
           /\ ListsAgree(WithCompleted(s, t))
           /\ WithCompleted(s, t).completed = s.completed \cup {t}
           /\ WithCompleted(s, t).proven = s.proven \cup {t}
           /\ WithCompleted(s, t).task = [s.task EXCEPT ![t] = "completed"]
           /\ t \notin s.completed
<1> DEFINE new == WithCompleted(s, t)
<1>1. new \in State
  BY DEF WithCompleted, State, TaskStatuses
<1>2. /\ new.task = [s.task EXCEPT ![t] = "completed"] /\ new.proven = s.proven \cup {t}
      /\ new.completed = s.completed \cup {t} /\ new.blocked = s.blocked \ {t}
      /\ new.redecompose = s.redecompose \ {t}
  BY DEF WithCompleted, State
<1>3. s.task \in [Tasks -> TaskStatuses]
  BY DEF State
<1>4. ListsAgree(new)
  BY <1>2, <1>3 DEF ListsAgree
<1>5. t \notin s.completed
  BY DEF ListsAgree
<1> QED
  BY <1>1, <1>2, <1>4, <1>5

LEMMA WithBlockedSound ==
    ASSUME NEW s \in State, NEW t \in Tasks, NEW status \in {"failed", "blocked"},
           ListsAgree(s), Evidenced(s),
           s.task[t] \notin {"completed", "cloud_redecomposition_required"}
    PROVE  /\ WithBlocked(s, t, status) \in State
           /\ ListsAgree(WithBlocked(s, t, status)) /\ Evidenced(WithBlocked(s, t, status))
           /\ WithBlocked(s, t, status).completed = s.completed
           /\ WithBlocked(s, t, status).task = [s.task EXCEPT ![t] = status]
<1> DEFINE new == WithBlocked(s, t, status)
<1>1. new \in State
  BY DEF WithBlocked, State, TaskStatuses, StoryStatuses
<1>2. /\ new.task = [s.task EXCEPT ![t] = status] /\ new.proven = s.proven
      /\ new.completed = s.completed /\ new.blocked = s.blocked \cup {t}
      /\ new.redecompose = s.redecompose
  BY DEF WithBlocked, State
<1>3. s.task \in [Tasks -> TaskStatuses]
  BY DEF State
<1>4. ListsAgree(new)
  BY <1>2, <1>3 DEF ListsAgree
<1>5. Evidenced(new)
  BY <1>2, <1>3 DEF Evidenced, State
<1> QED
  BY <1>1, <1>2, <1>4, <1>5

LEMMA WithRedecomposeSound ==
    ASSUME NEW s \in State, NEW t \in Tasks, ListsAgree(s), Evidenced(s), s.task[t] = "running"
    PROVE  /\ WithRedecompose(s, t) \in State
           /\ ListsAgree(WithRedecompose(s, t)) /\ Evidenced(WithRedecompose(s, t))
           /\ WithRedecompose(s, t).completed = s.completed
           /\ WithRedecompose(s, t).task = [s.task EXCEPT ![t] = "cloud_redecomposition_required"]
<1> DEFINE new == WithRedecompose(s, t)
<1>1. new \in State
  BY DEF WithRedecompose, WithBlocked, State, TaskStatuses, StoryStatuses
<1>2. /\ new.task = [s.task EXCEPT ![t] = "cloud_redecomposition_required"]
      /\ new.proven = s.proven
      /\ new.completed = s.completed /\ new.blocked = s.blocked \cup {t}
      /\ new.redecompose = s.redecompose \cup {t}
  BY DEF WithRedecompose, WithBlocked, State
<1>3. s.task \in [Tasks -> TaskStatuses]
  BY DEF State
<1>4. ListsAgree(new)
  BY <1>2, <1>3 DEF ListsAgree
<1>5. Evidenced(new)
  BY <1>2, <1>3 DEF Evidenced, State
<1> QED
  BY <1>1, <1>2, <1>4, <1>5

-----------------------------------------------------------------------------
(* Starting *)

LEMMA BlueprintSound == ASSUME TypeOK PROVE Blueprint \in Plan /\ InOrder(Blueprint.order) \subseteq Tasks
<1>1. Blueprint \in Plan
  BY PlansAssumption, ElementOfSeq, LenProperties DEF TypeOK, Blueprint
<1> QED
  BY <1>1, LenProperties DEF Plan, InOrder

LEMMA InitSound == Init => IInv
<1> SUFFICES ASSUME Init PROVE IInv
  OBVIOUS
<1>1. 1 \in DOMAIN Blueprints /\ Blueprints[1] \in Plan
  <2>1. Blueprints \in Seq(Plan) /\ Blueprints # <<>>
    BY PlansAssumption
  <2>2. Len(Blueprints) \in Nat \ {0} /\ DOMAIN Blueprints = 1..Len(Blueprints)
    BY <2>1, EmptySeq, LenProperties
  <2>3. 1 \in 1..Len(Blueprints)
    BY <2>2
  <2> QED
    BY <2>1, <2>2, <2>3, ElementOfSeq
<1>2. Idle \in [pc: {"idle"}, kind: {"none"}, plan: Plan, next: Nat, mem: State, clean: BOOLEAN,
                result: {"none"}]
  BY <1>1, NoStateSound DEF Idle
<1>3. TypeOK
  BY <1>1, <1>2, NoStateSound, PlansAssumption DEF Init, TypeOK, TaskStatuses
<1>4. LedgerConsistent /\ CompletedIsEvidenced
  BY NoStateSound DEF Init, LedgerConsistent, CompletedIsEvidenced
<1>5. VerdictHonest /\ RunInv
  BY <1>2 DEF Init, VerdictHonest, RunInv, At, OnTask, Looping
<1> QED
  BY <1>3, <1>4, <1>5 DEF IInv

LEMMA LoadStep ==
    ASSUME IInv, NEW kind \in {"run", "resume", "role", "revision"}, NEW plan \in Plan,
           NEW chosen \in SUBSET Tasks, NEW from \in State, ListsAgree(from), Evidenced(from),
           from.completed \in {{}, state.completed} \cup {FromRevision(r).completed : r \in Revisions},
           Load(kind, plan, chosen, from)
    PROVE  IInv' /\ UNCHANGED state
<1>1. UNCHANGED <<edition, state, files, report, faults, crashes>>
  BY DEF Load
<1>2. LedgerConsistent' /\ CompletedIsEvidenced'
  BY <1>1 DEF IInv, LedgerConsistent, CompletedIsEvidenced, Evidenced
<1>3. CASE Orderable(plan, chosen)
  <2> DEFINE mem == WithTasks(from, chosen)
             ordered == [plan EXCEPT !.order = Passes(plan, chosen)]
  <2>1. run' = [Idle EXCEPT !.pc = "load", !.kind = kind, !.plan = ordered, !.mem = mem]
    BY <1>3 DEF Load
  <2>2. Passes(plan, chosen) \in Seq(Tasks)
    BY <1>3, SeqMonotonic DEF Orderable
  <2>3. ordered \in Plan
    <3> HIDE DEF ordered
    <3>1. \A o \in Seq(Tasks) : [plan EXCEPT !.order = o] \in Plan
      BY DEF Plan
    <3> QED
      BY <2>2, <3>1 DEF ordered
  <2>4. mem \in State /\ ListsAgree(mem) /\ Evidenced(mem) /\ mem.completed = from.completed
    BY WithTasksSound
  <2> HIDE DEF mem, ordered
  <2>5. /\ run' \in [pc: {"load"}, kind: {kind}, plan: Plan, next: {1}, mem: State,
                     clean: BOOLEAN, result: {"none"}]
        /\ run'.mem = mem
    BY <2>1, <2>3, <2>4 DEF Idle
  <2>6. TypeOK'
    BY <1>1, <2>5 DEF IInv, TypeOK
  <2>7. Loaded'
    BY <1>1, <2>4, <2>5 DEF Loaded, Evidenced
  <2>8. VerdictHonest' /\ RunInv'
    BY <2>5, <2>7 DEF VerdictHonest, RunInv, At, OnTask, Looping
  <2> QED
    BY <1>1, <1>2, <2>6, <2>8 DEF IInv
<1>4. CASE ~Orderable(plan, chosen)
  <2>1. run' = [Idle EXCEPT !.kind = kind, !.plan = plan, !.result = "refused"]
    BY <1>4 DEF Load
  <2>2. run' \in [pc: {"idle"}, kind: {kind}, plan: Plan, next: Nat, mem: State,
                  clean: BOOLEAN, result: {"refused"}]
    BY <2>1, NoStateSound DEF Idle
  <2>3. TypeOK'
    BY <1>1, <2>2 DEF IInv, TypeOK
  <2>4. VerdictHonest' /\ RunInv'
    BY <2>2 DEF VerdictHonest, RunInv, At, OnTask, Looping
  <2> QED
    BY <1>1, <1>2, <2>3, <2>4 DEF IInv
<1> QED
  BY <1>3, <1>4

LEMMA CommandStep == IInv /\ Command => IInv' /\ UNCHANGED state
<1> SUFFICES ASSUME IInv, Command PROVE IInv' /\ UNCHANGED state
  OBVIOUS
<1>1. /\ Blueprint \in Plan /\ InOrder(Blueprint.order) \in SUBSET Tasks
      /\ state \in State /\ ListsAgree(state) /\ Evidenced(state)
  BY BlueprintSound DEF IInv, TypeOK, LedgerConsistent, CompletedIsEvidenced
<1>2. NoState \in State /\ ListsAgree(NoState) /\ Evidenced(NoState) /\ NoState.completed = {}
  BY NoStateSound DEF NoState
<1>3. CASE LocalExecute
  BY <1>1, <1>2, <1>3, LoadStep DEF LocalExecute
<1>4. CASE Resume
  BY <1>1, <1>4, LoadStep DEF Resume
<1>5. ASSUME NEW role \in Roles, NEW from \in {NoState, state}, RoleExecute(role, from)
      PROVE  IInv' /\ UNCHANGED state
  <2> DEFINE chosen == InOrder(Blueprint.order)
                         \cap Closure(role \cap InOrder(Blueprint.order), Blueprint.deps)
  <2>1. Load("role", Blueprint, chosen, from)
    BY <1>5 DEF RoleExecute
  <2>2. chosen \in SUBSET Tasks
    BY <1>1
  <2> HIDE DEF chosen
  <2> QED
    BY <1>1, <1>2, <2>1, <2>2, LoadStep
<1>6. ASSUME NEW r \in Revisions, ResumeRevision(r)
      PROVE  IInv' /\ UNCHANGED state
  <2> DEFINE ready == {t \in InOrder(r.plan.order) : r.status[t] = "ready"}
  <2>1. Load("revision", r.plan, ready, FromRevision(r))
    BY <1>6 DEF ResumeRevision
  <2>2. r.plan \in Plan
    BY PlansAssumption
  <2>3. ready \in SUBSET Tasks
    BY <2>2, LenProperties DEF Plan, InOrder
  <2> HIDE DEF ready
  <2> QED
    BY <2>1, <2>2, <2>3, FromRevisionSound, LoadStep
<1> QED
  BY <1>3, <1>4, <1>5, <1>6 DEF Command

-----------------------------------------------------------------------------
(* The loop over the tasks *)

CommandType ==
    [pc: {"idle", "load", "next", "attempt", "writing", "report", "save"},
     kind: {"none", "run", "resume", "role", "revision"},
     plan: Plan, next: Nat, mem: State, clean: BOOLEAN,
     result: {"none", "refused", "crashed"} \cup StoryStatuses]

LEMMA RunTyped == TypeOK => run \in CommandType /\ state \in State
BY DEF TypeOK, CommandType

\* Going on to the next task.
LEMMA Advanced ==
    ASSUME NEW r \in CommandType, NEW mem \in State, r.next \in Nat \ {0},
           NEW s, s = [r EXCEPT !.pc = "next", !.mem = mem, !.next = @ + 1]
    PROVE  /\ s \in CommandType /\ s.next \in Nat \ {0}
           /\ s.pc = "next" /\ s.mem = mem /\ s.plan = r.plan /\ s.result = r.result
           /\ s = [r EXCEPT !.pc = "next", !.mem = mem, !.next = s.next, !.clean = r.clean]
<1> DEFINE n == r.next + 1
<1>1. n \in Nat \ {0}
  OBVIOUS
<1>2. s = [r EXCEPT !.pc = "next", !.mem = mem, !.next = n]
  OBVIOUS
<1> HIDE DEF n
<1>3. s.next = n
  BY <1>2 DEF CommandType
<1> QED
  BY <1>1, <1>2, <1>3 DEF CommandType

LEMMA CurrentTask ==
    ASSUME TypeOK, run.next \in DOMAIN run.plan.order
    PROVE  Current \in Tasks
<1>1. run.plan.order \in Seq(Tasks)
  BY DEF TypeOK, Plan
<1> QED
  BY <1>1, LenProperties, ElementOfSeq DEF Current

\* The task the loop has come to.
LEMMA NextInPlan ==
    ASSUME IInv, HasNext
    PROVE  run.next \in DOMAIN run.plan.order /\ Current \in Tasks /\ run.mem = state
<1>1. run.plan.order \in Seq(Tasks)
  BY DEF IInv, TypeOK, Plan
<1>2. run.next \in 1..Len(run.plan.order)
  BY <1>1, LenProperties DEF IInv, TypeOK, RunInv, HasNext, At, Looping
<1> QED
  BY <1>1, <1>2, LenProperties, CurrentTask DEF IInv, RunInv, HasNext

\* A step that saves what it goes on with, and stays out of the files.
LEMMA SavedStep ==
    ASSUME IInv, NEW mem \in State, ListsAgree(mem), Evidenced(mem),
           NEW pc \in {"next", "attempt", "report"}, NEW n \in Nat \ {0}, NEW clean \in BOOLEAN,
           state' = mem,
           run' = [run EXCEPT !.pc = pc, !.mem = mem, !.next = n, !.clean = clean],
           UNCHANGED <<edition, files, report, crashes>>, faults' \in 0..MaxFaults,
           pc # "next" => n \in DOMAIN run.plan.order,
           pc = "attempt" => /\ mem.task[run.plan.order[n]] = "running"
                             /\ run.plan.deps[run.plan.order[n]] \subseteq mem.completed,
           pc = "report" => mem.task[run.plan.order[n]] # "completed"
    PROVE  IInv'
<1>1. run \in CommandType
  BY RunTyped DEF IInv
<1>2. /\ run' \in CommandType
      /\ run'.pc = pc /\ run'.mem = mem /\ run'.next = n /\ run'.plan = run.plan
  BY <1>1 DEF CommandType
<1>3. TypeOK'
  BY <1>2 DEF IInv, TypeOK, CommandType
<1>4. LedgerConsistent' /\ CompletedIsEvidenced'
  BY DEF LedgerConsistent, CompletedIsEvidenced, Evidenced
<1>5. VerdictHonest'
  BY <1>2 DEF VerdictHonest, At
<1>6. RunInv'
  BY <1>2 DEF RunInv, At, Claimed, Refused, Finished, Current, OnTask, Looping
<1> QED
  BY <1>3, <1>4, <1>5, <1>6 DEF IInv

LEMMA SaveInitialStep ==
    ASSUME IInv, SaveInitial
    PROVE  /\ IInv' /\ UNCHANGED run.plan
           /\ state'.completed \in {{}, state.completed} \cup {FromRevision(r).completed : r \in Revisions}
<1>1. Loaded /\ run \in CommandType /\ run.next \in Nat \ {0}
  BY RunTyped DEF IInv, RunInv, SaveInitial, At, Looping
<1>2. state' = run.mem /\ run' = [run EXCEPT !.pc = "next", !.mem = run.mem]
  BY DEF SaveInitial, Save, Goto
<1>3. LedgerConsistent' /\ CompletedIsEvidenced'
  BY <1>1, <1>2 DEF SaveInitial, LedgerConsistent, CompletedIsEvidenced, Evidenced, Loaded
<1>4. /\ run' \in CommandType
      /\ run'.pc = "next" /\ run'.mem = state' /\ run'.plan = run.plan /\ run'.next = run.next
  BY <1>1, <1>2 DEF CommandType
<1>5. TypeOK'
  BY <1>1, <1>2, <1>4 DEF SaveInitial, IInv, TypeOK, CommandType
<1> QED
  BY <1>1, <1>2, <1>3, <1>4, <1>5
     DEF IInv, Loaded, VerdictHonest, RunInv, At, OnTask, Looping

LEMMA SkipStep ==
    ASSUME IInv, SkipTask
    PROVE  IInv' /\ UNCHANGED <<state, run.plan>>
<1>1. run \in CommandType /\ run.mem = state /\ run.next \in Nat \ {0}
  BY RunTyped, NextInPlan DEF IInv, RunInv, SkipTask, HasNext, At, Looping
<1>2. run' = [run EXCEPT !.pc = "next", !.mem = run.mem, !.next = @ + 1]
  BY DEF SkipTask, NextTask
<1>3. /\ run' \in CommandType
      /\ run'.pc = "next" /\ run'.mem = state /\ run'.plan = run.plan /\ run'.next \in Nat \ {0}
  BY <1>1, <1>2, Advanced DEF CommandType
<1>4. TypeOK' /\ LedgerConsistent' /\ CompletedIsEvidenced'
  BY <1>3 DEF SkipTask, IInv, TypeOK, CommandType, LedgerConsistent, CompletedIsEvidenced, Evidenced
<1> QED
  BY <1>3, <1>4 DEF SkipTask, IInv, VerdictHonest, RunInv, At, OnTask, Looping

LEMMA BlockStep ==
    ASSUME IInv, BlockTask
    PROVE  IInv' /\ UNCHANGED <<state.completed, run.plan>>
<1> DEFINE mem == WithBlocked(run.mem, Current, "blocked")
<1>1. /\ run \in CommandType /\ run.mem = state /\ run.next \in Nat \ {0}
      /\ Current \in Tasks /\ state \in State /\ ListsAgree(state) /\ Evidenced(state)
  BY RunTyped, NextInPlan
     DEF IInv, RunInv, BlockTask, HasNext, At, Looping, LedgerConsistent, CompletedIsEvidenced
<1>2. state.task[Current] \notin {"completed", "cloud_redecomposition_required"}
  BY <1>1 DEF BlockTask, Skipped
<1>3. mem \in State /\ ListsAgree(mem) /\ Evidenced(mem) /\ mem.completed = state.completed
  BY <1>1, <1>2, WithBlockedSound
<1>4. state' = mem /\ run' = [run EXCEPT !.pc = "next", !.mem = mem, !.next = @ + 1]
  BY DEF BlockTask, Save, NextTask
<1> HIDE DEF mem
<1>5. /\ run' = [run EXCEPT !.pc = "next", !.mem = mem, !.next = run'.next, !.clean = run.clean]
      /\ run'.next \in Nat \ {0} /\ run.clean \in BOOLEAN /\ run'.plan = run.plan
  BY <1>1, <1>3, <1>4, Advanced DEF CommandType
<1>6. faults' \in 0..MaxFaults
  BY DEF BlockTask, IInv, TypeOK
<1>7. UNCHANGED <<edition, files, report, crashes>>
  BY DEF BlockTask
<1> DEFINE n == run'.next
           clean == run.clean
<1>8. n \in Nat \ {0} /\ clean \in BOOLEAN /\ "next" \in {"next", "attempt", "report"}
  BY <1>5
<1>9. run' = [run EXCEPT !.pc = "next", !.mem = mem, !.next = n, !.clean = clean]
  BY <1>5
<1> HIDE DEF n, clean
<1>10. IInv'
  BY <1>3, <1>4, <1>6, <1>7, <1>8, <1>9, SavedStep
<1> QED
  BY <1>3, <1>4, <1>5, <1>10

LEMMA ClaimStep ==
    ASSUME IInv, ClaimTask
    PROVE  IInv' /\ UNCHANGED <<state.completed, run.plan>>
<1> DEFINE mem == [run.mem EXCEPT !.status = "running", !.task[Current] = "running"]
<1>1. /\ run \in CommandType /\ run.mem = state /\ run.next \in Nat \ {0}
      /\ run.next \in DOMAIN run.plan.order
      /\ Current \in Tasks /\ state \in State /\ ListsAgree(state) /\ Evidenced(state)
  BY RunTyped, NextInPlan
     DEF IInv, RunInv, ClaimTask, HasNext, At, Looping, LedgerConsistent, CompletedIsEvidenced
<1>2. state.task[Current] \notin {"completed", "cloud_redecomposition_required"}
  BY <1>1 DEF ClaimTask, Skipped
<1>3. run.plan.deps[Current] \subseteq state.completed
  <2>1. run.plan.deps[Current] \subseteq Tasks
    BY <1>1 DEF CommandType, Plan
  <2> QED
    BY <1>1, <2>1 DEF ClaimTask, Waits, ListsAgree
<1>4. /\ mem \in State
      /\ mem.task = [state.task EXCEPT ![Current] = "running"] /\ mem.proven = state.proven
      /\ mem.completed = state.completed /\ mem.blocked = state.blocked
      /\ mem.redecompose = state.redecompose
  BY <1>1 DEF State, StoryStatuses, TaskStatuses
<1>5. ListsAgree(mem) /\ mem.task[Current] = "running"
  BY <1>1, <1>2, <1>4 DEF ListsAgree, State
<1>6. Evidenced(mem)
  BY <1>1, <1>2, <1>4 DEF Evidenced, State
<1>7. state' = mem /\ run' = [run EXCEPT !.pc = "attempt", !.mem = mem]
  BY DEF ClaimTask, Save, Goto
<1> HIDE DEF mem
<1>8. /\ run' = [run EXCEPT !.pc = "attempt", !.mem = mem, !.next = run.next, !.clean = run.clean]
      /\ run.clean \in BOOLEAN /\ run'.plan = run.plan
  BY <1>1, <1>7 DEF CommandType
<1>9. faults' \in 0..MaxFaults
  BY DEF ClaimTask, IInv, TypeOK
<1>10. run.plan.order[run.next] = Current
  BY DEF Current
<1> QED
  BY <1>1, <1>3, <1>4, <1>5, <1>6, <1>7, <1>8, <1>9, <1>10, SavedStep DEF ClaimTask

\* What a command knows while it is on a task.
LEMMA OnTaskFacts ==
    ASSUME IInv, At("attempt") \/ At("writing")
    PROVE  /\ run \in CommandType /\ run.mem = state /\ run.next \in Nat \ {0}
           /\ run.next \in DOMAIN run.plan.order /\ Current \in Tasks
           /\ state \in State /\ ListsAgree(state) /\ Evidenced(state)
           /\ Claimed /\ run.clean \in BOOLEAN
<1>1. run \in CommandType /\ state \in State /\ run.clean \in BOOLEAN
  BY RunTyped DEF IInv, CommandType
<1>2. run.next \in DOMAIN run.plan.order /\ run.next \in Nat \ {0} /\ run.mem = state /\ Claimed
  BY DEF IInv, RunInv, At, OnTask, Looping
<1> QED
  BY <1>1, <1>2, CurrentTask DEF IInv, LedgerConsistent, CompletedIsEvidenced

LEMMA FailStep ==
    ASSUME IInv, FailTask
    PROVE  IInv' /\ UNCHANGED <<state.completed, run.plan>>
<1>1. PICK status \in {"failed", "blocked"} :
         /\ state' = WithBlocked(run.mem, Current, status)
         /\ run' = [run EXCEPT !.pc = "report", !.mem = WithBlocked(run.mem, Current, status),
                               !.clean = FALSE]
  BY DEF FailTask, FailureStatuses, Save
<1> DEFINE mem == WithBlocked(state, Current, status)
<1>2. /\ run \in CommandType /\ run.mem = state /\ run.next \in Nat \ {0}
      /\ run.next \in DOMAIN run.plan.order /\ Current \in Tasks
      /\ state \in State /\ ListsAgree(state) /\ Evidenced(state)
      /\ state.task[Current] \notin {"completed", "cloud_redecomposition_required"}
  BY OnTaskFacts DEF FailTask, Claimed
<1>3. /\ mem \in State /\ ListsAgree(mem) /\ Evidenced(mem) /\ mem.completed = state.completed
      /\ mem.task = [state.task EXCEPT ![Current] = status]
  <2>1. status \in {"failed", "blocked"}
    BY <1>1
  <2>2. CASE status = "failed"
    BY <1>2, <2>2, WithBlockedSound
  <2>3. CASE status = "blocked"
    BY <1>2, <2>3, WithBlockedSound
  <2> QED
    BY <2>1, <2>2, <2>3
<1>4. mem.task[Current] # "completed"
  BY <1>1, <1>2, <1>3 DEF State
<1>5. run' = [run EXCEPT !.pc = "report", !.mem = mem, !.next = run.next, !.clean = FALSE]
  BY <1>1, <1>2 DEF CommandType
<1>6. state' = mem /\ run'.plan = run.plan /\ run.plan.order[run.next] = Current
  BY <1>1, <1>2 DEF CommandType, Current
<1>7. faults' \in 0..MaxFaults
  BY PlansAssumption DEF FailTask, IInv, TypeOK
<1> HIDE DEF mem
<1> QED
  BY <1>2, <1>3, <1>4, <1>5, <1>6, <1>7, SavedStep DEF FailTask

LEMMA RefuseLargeStep ==
    ASSUME IInv, RefuseLarge
    PROVE  IInv' /\ UNCHANGED <<state.completed, run.plan>>
<1> DEFINE mem == WithRedecompose(run.mem, Current)
<1>1. state' = mem /\ run' = [run EXCEPT !.pc = "report", !.mem = mem]
  BY DEF RefuseLarge, Save, Goto
<1>2. /\ run \in CommandType /\ run.mem = state /\ run.next \in Nat \ {0} /\ run.clean \in BOOLEAN
      /\ run.next \in DOMAIN run.plan.order /\ Current \in Tasks
      /\ state \in State /\ ListsAgree(state) /\ Evidenced(state) /\ state.task[Current] = "running"
  BY OnTaskFacts DEF RefuseLarge, Claimed
<1>3. /\ mem \in State /\ ListsAgree(mem) /\ Evidenced(mem) /\ mem.completed = state.completed
      /\ mem.task = [state.task EXCEPT ![Current] = "cloud_redecomposition_required"]
  BY <1>2, WithRedecomposeSound
<1>4. mem.task[Current] # "completed"
  BY <1>2, <1>3 DEF State
<1> HIDE DEF mem
<1>5. /\ run' = [run EXCEPT !.pc = "report", !.mem = mem, !.next = run.next, !.clean = run.clean]
      /\ run'.plan = run.plan /\ run.plan.order[run.next] = Current
  BY <1>1, <1>2 DEF CommandType, Current
<1>6. faults' \in 0..MaxFaults
  BY DEF RefuseLarge, IInv, TypeOK
<1> QED
  BY <1>1, <1>2, <1>3, <1>4, <1>5, <1>6, SavedStep DEF RefuseLarge

\* Writing the files of a task touches no task the file calls proven: the one
\* being written is running.
LEMMA BeginStep ==
    ASSUME IInv, BeginWrites
    PROVE  IInv' /\ UNCHANGED <<state, run.plan>>
<1>1. /\ run \in CommandType /\ run.mem = state /\ run.next \in Nat \ {0}
      /\ run.next \in DOMAIN run.plan.order /\ Current \in Tasks
      /\ ListsAgree(state) /\ Evidenced(state) /\ Claimed
  BY OnTaskFacts DEF BeginWrites
<1>2. /\ run' \in CommandType /\ run'.pc = "writing" /\ run'.mem = state
      /\ run'.plan = run.plan /\ run'.next = run.next
  BY <1>1 DEF BeginWrites, Goto, CommandType
<1>3. TypeOK'
  BY <1>1, <1>2 DEF BeginWrites, IInv, TypeOK, CommandType
<1>4. Evidenced(state)'
  BY <1>1 DEF BeginWrites, Evidenced, Claimed, IInv, TypeOK
<1>5. LedgerConsistent' /\ CompletedIsEvidenced'
  BY <1>1, <1>4 DEF BeginWrites, LedgerConsistent, CompletedIsEvidenced
<1>6. Claimed'
  BY <1>1, <1>2 DEF BeginWrites, Claimed, Current
<1> QED
  BY <1>1, <1>2, <1>3, <1>5, <1>6
     DEF BeginWrites, IInv, VerdictHonest, RunInv, At, OnTask, Looping

LEMMA FinishStep ==
    ASSUME IInv, FinishWrites
    PROVE  IInv' /\ UNCHANGED <<state, run.plan>>
<1> DEFINE mem == WithCompleted(state, Current)
<1>1. /\ run \in CommandType /\ run.mem = state /\ run.next \in Nat \ {0}
      /\ run.next \in DOMAIN run.plan.order /\ Current \in Tasks
      /\ state \in State /\ ListsAgree(state) /\ Evidenced(state) /\ Claimed
  BY OnTaskFacts DEF FinishWrites
<1>2. mem \in State
  BY <1>1, WithCompletedSound DEF Claimed
<1>3. run' = [run EXCEPT !.pc = "report", !.mem = mem] /\ UNCHANGED <<edition, state, report, faults, crashes>>
  BY <1>1 DEF FinishWrites, Goto
<1>4. /\ run' \in CommandType /\ run'.pc = "report" /\ run'.mem = mem
      /\ run'.plan = run.plan /\ run'.next = run.next
  <2> HIDE DEF mem
  <2> QED
    BY <1>1, <1>2, <1>3 DEF CommandType
<1>5. files' \in [Tasks -> {"none", "torn", "whole"}] /\ files'[Current] = "whole"
      /\ \A t \in Tasks : files[t] = "whole" => files'[t] = "whole"
  BY <1>1 DEF FinishWrites, IInv, TypeOK
<1>6. TypeOK'
  BY <1>1, <1>3, <1>4, <1>5 DEF IInv, TypeOK, CommandType
<1>7. LedgerConsistent' /\ CompletedIsEvidenced'
  BY <1>1, <1>3, <1>5 DEF LedgerConsistent, CompletedIsEvidenced, Evidenced, State
<1>8. Current' = Current /\ mem = WithCompleted(state, Current)'
  BY <1>3, <1>4 DEF Current, WithCompleted
<1>9. Finished'
  BY <1>1, <1>3, <1>4, <1>5, <1>8 DEF Finished, Claimed
<1> HIDE DEF mem
<1> QED
  BY <1>1, <1>3, <1>4, <1>6, <1>7, <1>9
     DEF IInv, VerdictHonest, RunInv, At, OnTask, Looping

\* At "report" and "save" the task is finished in memory or given up everywhere.
LEMMA ReportFacts ==
    ASSUME IInv, At("report") \/ At("save")
    PROVE  /\ run \in CommandType /\ run.next \in Nat \ {0}
           /\ run.next \in DOMAIN run.plan.order /\ Current \in Tasks
           /\ state \in State /\ ListsAgree(state) /\ Evidenced(state)
           /\ Finished \/ Refused
           /\ run.mem \in State /\ ListsAgree(run.mem) /\ state.task[Current] # "completed"
<1>1. /\ run \in CommandType /\ state \in State
      /\ run.next \in DOMAIN run.plan.order /\ run.next \in Nat \ {0}
      /\ Finished \/ Refused
  BY RunTyped DEF IInv, RunInv, At, OnTask, Looping
<1>2. Current \in Tasks /\ ListsAgree(state) /\ Evidenced(state)
  BY <1>1, CurrentTask DEF IInv, LedgerConsistent, CompletedIsEvidenced
<1>3. run.mem \in State
  BY <1>1 DEF CommandType
<1>4. CASE Refused
  BY <1>1, <1>2, <1>3, <1>4 DEF Refused
<1>5. CASE Finished
  <2>1. state.task[Current] = "running" /\ run.mem = WithCompleted(state, Current)
    BY <1>5 DEF Finished, Claimed
  <2>2. ListsAgree(WithCompleted(state, Current))
    BY <1>1, <1>2, <2>1, WithCompletedSound
  <2> QED
    BY <1>1, <1>2, <1>3, <2>1, <2>2
<1> QED
  BY <1>1, <1>4, <1>5

LEMMA ReportStep ==
    ASSUME IInv, WriteReport
    PROVE  IInv' /\ UNCHANGED <<state, run.plan>>
<1>1. /\ run \in CommandType /\ run.next \in Nat \ {0}
      /\ run.next \in DOMAIN run.plan.order /\ Current \in Tasks
      /\ state \in State /\ ListsAgree(state) /\ Evidenced(state)
      /\ Finished \/ Refused
      /\ run.mem \in State /\ state.task[Current] # "completed"
  BY ReportFacts DEF WriteReport
<1>2. /\ run' \in CommandType /\ run'.pc = "save" /\ run'.mem = run.mem
      /\ run'.plan = run.plan /\ run'.next = run.next
  BY <1>1 DEF WriteReport, Goto, CommandType
<1>3. report' = [report EXCEPT ![Current] = run.mem.task[Current]]
      /\ UNCHANGED <<edition, state, files, faults, crashes>>
  BY DEF WriteReport
<1>4. report' \in [Tasks -> TaskStatuses] /\ report'[Current] = run.mem.task[Current]
      /\ \A t \in Tasks \ {Current} : report'[t] = report[t]
  BY <1>1, <1>3 DEF IInv, TypeOK, State
<1>5. TypeOK'
  BY <1>2, <1>3, <1>4 DEF IInv, TypeOK, CommandType
<1>6. Evidenced(state)'
  BY <1>1, <1>3, <1>4 DEF Evidenced, State
<1>7. LedgerConsistent' /\ CompletedIsEvidenced'
  BY <1>1, <1>3, <1>6 DEF LedgerConsistent, CompletedIsEvidenced
<1>8. Current' = Current
  BY <1>2 DEF Current
<1>9. CASE Finished
  <2>1. run.mem.task[Current] = "completed"
    <3>1. state.task[Current] = "running" /\ run.mem = WithCompleted(state, Current)
      BY <1>9 DEF Finished, Claimed
    <3>2. run.mem.task = [state.task EXCEPT ![Current] = "completed"]
      BY <1>1, <3>1, WithCompletedSound
    <3> QED
      BY <1>1, <3>2 DEF State
  <2>2. Finished' /\ report'[Current'] = "completed"
    BY <1>2, <1>3, <1>4, <1>8, <1>9, <2>1 DEF Finished, Claimed, WithCompleted
  <2>3. RunInv' /\ VerdictHonest'
    BY <1>1, <1>2, <2>2 DEF VerdictHonest, RunInv, At, OnTask, Looping
  <2> QED
    BY <1>3, <1>5, <1>7, <1>2, <2>3 DEF IInv
<1>10. CASE Refused
  <2>1. Refused'
    BY <1>2, <1>3, <1>8, <1>10 DEF Refused
  <2>2. RunInv' /\ VerdictHonest'
    BY <1>1, <1>2, <2>1 DEF VerdictHonest, RunInv, At, OnTask, Looping
  <2> QED
    BY <1>3, <1>5, <1>7, <1>2, <2>2 DEF IInv
<1> QED
  BY <1>1, <1>9, <1>10

LEMMA SaveTaskStep ==
    ASSUME IInv, SaveTask
    PROVE  /\ IInv' /\ UNCHANGED run.plan
           /\ \/ UNCHANGED state
              \/ /\ Current \in Tasks \ state.completed
                 /\ run.plan.deps[Current] \subseteq state.completed
                 /\ state'.completed = state.completed \cup {Current}
<1>1. /\ run \in CommandType /\ run.next \in Nat \ {0}
      /\ run.next \in DOMAIN run.plan.order /\ Current \in Tasks
      /\ state \in State /\ ListsAgree(state) /\ Evidenced(state)
      /\ run.mem \in State /\ ListsAgree(run.mem)
  BY ReportFacts DEF SaveTask
<1>2. (Finished /\ report[Current] = "completed") \/ Refused
  BY DEF SaveTask, IInv, RunInv
<1>3. state' = run.mem /\ UNCHANGED <<edition, files, report, faults, crashes>>
  BY DEF SaveTask, Save, NextTask
<1>4. /\ run' \in CommandType /\ run'.next \in Nat \ {0}
      /\ run'.pc = "next" /\ run'.mem = run.mem /\ run'.plan = run.plan
  <2>1. run' = [run EXCEPT !.pc = "next", !.mem = run.mem, !.next = @ + 1]
    BY DEF SaveTask, NextTask
  <2> QED
    BY <1>1, <2>1, Advanced DEF CommandType
<1>5. Evidenced(run.mem)
  <2>1. CASE Refused
    BY <1>1, <2>1 DEF Refused
  <2>2. CASE Finished /\ report[Current] = "completed"
    <3>1. /\ run.mem.proven = state.proven \cup {Current}
          /\ run.mem.task = [state.task EXCEPT ![Current] = "completed"]
      BY <1>1, <2>2, WithCompletedSound DEF Finished, Claimed
    <3> QED
      BY <1>1, <2>2, <3>1 DEF Evidenced, Finished, State
  <2> QED
    BY <1>2, <2>1, <2>2
<1>6. Evidenced(state)'
  BY <1>3, <1>5 DEF Evidenced
<1>7. LedgerConsistent' /\ CompletedIsEvidenced'
  BY <1>1, <1>3, <1>6 DEF LedgerConsistent, CompletedIsEvidenced
<1>8. TypeOK'
  BY <1>1, <1>3, <1>4 DEF IInv, TypeOK, CommandType
<1>9. IInv'
  BY <1>3, <1>4, <1>7, <1>8 DEF IInv, VerdictHonest, RunInv, At, OnTask, Looping
<1>10. \/ UNCHANGED state
       \/ /\ Current \in Tasks \ state.completed
          /\ run.plan.deps[Current] \subseteq state.completed
          /\ state'.completed = state.completed \cup {Current}
  BY <1>1, <1>2, <1>3, WithCompletedSound DEF Refused, Finished, Claimed
<1> QED
  BY <1>4, <1>9, <1>10

\* The verdict is "completed" only of a state in which nothing is blocked.
LEMMA VerdictEarned ==
    ASSUME NEW s \in State, NEW plan \in Plan, ListsAgree(s)
    PROVE  /\ Verdict(s, plan) \in StoryStatuses
           /\ Verdict(s, plan) = "completed" =>
                 /\ s.blocked = {} /\ s.redecompose = {}
                 /\ InOrder(plan.order) \subseteq s.completed \cap s.proven
<1> DEFINE planned == InOrder(plan.order)
           open == {t \in planned : s.task[t] # "completed"}
           missing == {q \in plan.requirements : q \cap planned = {}}
<1>1. planned \subseteq Tasks
  BY LenProperties DEF Plan, InOrder
<1>2. open = {} => planned \subseteq s.completed
  BY <1>1 DEF ListsAgree
<1> HIDE DEF planned
<1>3. Verdict(s, plan) =
        IF s.redecompose # {} \/ s.blocked # {} THEN "blocked"
        ELSE IF open = {}
        THEN IF missing = {} /\ planned \subseteq s.proven THEN "completed" ELSE "blocked"
        ELSE IF \E t \in open : \A d \in plan.deps[t] : s.task[d] = "completed" THEN "ready"
        ELSE "pending"
  BY DEF Verdict, planned
<1> HIDE DEF open, missing
<1>4. CASE s.redecompose # {} \/ s.blocked # {}
  BY <1>3, <1>4 DEF StoryStatuses
<1>5. CASE s.redecompose = {} /\ s.blocked = {} /\ open = {}
  BY <1>2, <1>3, <1>5 DEF StoryStatuses, planned
<1>6. CASE s.redecompose = {} /\ s.blocked = {} /\ open # {}
  BY <1>3, <1>6 DEF StoryStatuses
<1> QED
  BY <1>4, <1>5, <1>6

LEMMA FinalizeStep ==
    ASSUME IInv, Finalize
    PROVE  IInv' /\ UNCHANGED <<state.completed, run.plan>>
<1> DEFINE verdict == Verdict(run.mem, run.plan)
           mem == [run.mem EXCEPT !.status = verdict]
<1>1. /\ run \in CommandType /\ run.mem = state /\ run.plan \in Plan
      /\ state \in State /\ ListsAgree(state) /\ Evidenced(state)
  BY RunTyped DEF IInv, RunInv, Finalize, LedgerConsistent, CompletedIsEvidenced, CommandType
<1>2. /\ verdict \in StoryStatuses
      /\ verdict = "completed" =>
            /\ state.blocked = {} /\ state.redecompose = {}
            /\ InOrder(run.plan.order) \subseteq state.completed \cap state.proven
  BY <1>1, VerdictEarned
<1>3. /\ state' = mem
      /\ run' = [run EXCEPT !.pc = "idle", !.mem = mem, !.result = mem.status]
      /\ UNCHANGED <<edition, files, report, faults, crashes>>
  BY DEF Finalize, Save
<1> HIDE DEF verdict
<1>4. /\ mem \in State /\ mem.status = verdict
      /\ mem.task = state.task /\ mem.proven = state.proven /\ mem.completed = state.completed
      /\ mem.blocked = state.blocked /\ mem.redecompose = state.redecompose
  BY <1>1, <1>2 DEF State
<1>5. ListsAgree(mem) /\ Evidenced(mem)
  BY <1>1, <1>4 DEF ListsAgree, Evidenced
<1> HIDE DEF mem
<1>6. /\ run' \in CommandType
      /\ run'.pc = "idle" /\ run'.mem = mem /\ run'.plan = run.plan /\ run'.result = verdict
  BY <1>1, <1>2, <1>3, <1>4 DEF CommandType
<1>7. TypeOK'
  BY <1>3, <1>4, <1>6 DEF IInv, TypeOK, CommandType
<1>8. LedgerConsistent' /\ CompletedIsEvidenced'
  BY <1>3, <1>5 DEF LedgerConsistent, CompletedIsEvidenced, Evidenced
<1>9. VerdictHonest'
  BY <1>2, <1>4, <1>6 DEF VerdictHonest
<1> QED
  BY <1>3, <1>4, <1>6, <1>7, <1>8, <1>9 DEF IInv, RunInv, At, OnTask, Looping

-----------------------------------------------------------------------------
(* The environment, and all steps together *)

LEMMA RedecomposeStep == IInv /\ Redecompose => IInv' /\ UNCHANGED <<state, run.plan>>
<1> SUFFICES ASSUME IInv, Redecompose PROVE IInv' /\ UNCHANGED <<state, run.plan>>
  OBVIOUS
<1>1. edition' \in DOMAIN Blueprints
  <2>1. DOMAIN Blueprints = 1..Len(Blueprints) /\ Len(Blueprints) \in Nat
    BY PlansAssumption, LenProperties
  <2> QED
    BY <2>1 DEF Redecompose, IInv, TypeOK
<1>2. TypeOK'
  BY <1>1 DEF Redecompose, IInv, TypeOK
<1> QED
  BY <1>2 DEF Redecompose, IInv, LedgerConsistent, CompletedIsEvidenced, VerdictHonest, Evidenced,
        RunInv, At, Loaded, Claimed, Finished, Refused, Current

LEMMA CrashStep ==
    IInv /\ Crash => IInv' /\ UNCHANGED run.plan /\ state' \in {state, NoState}
<1> SUFFICES ASSUME IInv, Crash
             PROVE  IInv' /\ UNCHANGED run.plan /\ state' \in {state, NoState}
  OBVIOUS
<1>1. run \in CommandType /\ state' \in {state, NoState}
  BY RunTyped DEF IInv, Crash
<1>2. /\ run' \in CommandType /\ run'.pc = "idle" /\ run'.result = "crashed"
      /\ run'.plan = run.plan
  BY <1>1 DEF Crash, CommandType
<1>3. crashes' \in 0..MaxCrashes
  BY PlansAssumption DEF Crash, IInv, TypeOK
<1>4. TypeOK'
  BY <1>1, <1>2, <1>3, NoStateSound DEF Crash, IInv, TypeOK, CommandType
<1>5. LedgerConsistent' /\ CompletedIsEvidenced'
  BY <1>1, NoStateSound DEF Crash, IInv, LedgerConsistent, CompletedIsEvidenced, Evidenced
<1> QED
  BY <1>1, <1>2, <1>4, <1>5 DEF IInv, VerdictHonest, RunInv, At, OnTask, Looping

LEMMA NextSound == IInv /\ [Next]_vars => IInv'
<1> SUFFICES ASSUME IInv, [Next]_vars PROVE IInv'
  OBVIOUS
<1>1. CASE Command
  BY <1>1, CommandStep
<1>2. CASE Progress
  BY <1>2, SaveInitialStep, SkipStep, BlockStep, ClaimStep, FailStep, RefuseLargeStep, BeginStep,
     FinishStep, ReportStep, SaveTaskStep, FinalizeStep DEF Progress
<1>3. CASE Redecompose \/ Crash
  BY <1>3, RedecomposeStep, CrashStep
<1>4. CASE UNCHANGED vars
  BY <1>4 DEF vars, IInv, TypeOK, LedgerConsistent, CompletedIsEvidenced, VerdictHonest, Evidenced,
        RunInv, At, Loaded, Claimed, Finished, Refused, Current
<1> QED
  BY <1>1, <1>2, <1>3, <1>4 DEF Next

LEMMA Invariance == Spec => []IInv
BY InitSound, NextSound, PTL DEF Spec

\* State file, reports and command keep their types (local_execution.py).
THEOREM TypeCorrect == Spec => []TypeOK
<1>1. IInv => TypeOK
  BY DEF IInv
<1> QED
  BY <1>1, Invariance, PTL

\* The lists of the state file agree with the statuses in it, whatever commands
\* have shared it and wherever they died (complete_subtask, fail_subtask,
\* block_subtask, mark_cloud_redecomposition_required).
THEOREM Ledger == Spec => []LedgerConsistent
<1>1. IInv => LedgerConsistent
  BY DEF IInv
<1> QED
  BY <1>1, Invariance, PTL

\* No half-written task is ever recorded as completed (apply_execution_writes and
\* the finally clause of run_subtask_local_execution).
THEOREM Evidence == Spec => []CompletedIsEvidenced
<1>1. IInv => CompletedIsEvidenced
  BY DEF IInv
<1> QED
  BY <1>1, Invariance, PTL

\* A completed verdict is earned: nothing is blocked and every planned task is
\* proven (finalize_subtask_story_state).
THEOREM Honest == Spec => []VerdictHonest
<1>1. IInv => VerdictHonest
  BY DEF IInv
<1> QED
  BY <1>1, Invariance, PTL

-----------------------------------------------------------------------------
(* Local execution implements the task board *)

Done == state.completed
Rules == run.plan.deps
RevisionStarts == {FromRevision(r).completed : r \in Revisions}

\* A step that keeps the plan leaves the board alone, starts over or completes.
LEMMA ProgressOnBoard ==
    ASSUME IInv, Progress
    PROVE  /\ UNCHANGED run.plan
           /\ \/ UNCHANGED Done
              \/ Done' \in {{}} \cup RevisionStarts
              \/ \E t \in Tasks : /\ t \notin Done /\ Rules[t] \subseteq Done
                                 /\ Done' = Done \cup {t}
<1>1. CASE SaveInitial
  BY <1>1, SaveInitialStep DEF Done, RevisionStarts
<1>2. CASE SaveTask
  BY <1>2, SaveTaskStep DEF Done, Rules
<1>3. CASE SkipTask \/ BeginWrites \/ FinishWrites \/ WriteReport
  BY <1>3, SkipStep, BeginStep, FinishStep, ReportStep DEF Done
<1>4. CASE BlockTask \/ ClaimTask \/ FailTask \/ RefuseLarge \/ Finalize
  BY <1>4, BlockStep, ClaimStep, FailStep, RefuseLargeStep, FinalizeStep DEF Done
<1> QED
  BY <1>1, <1>2, <1>3, <1>4 DEF Progress

LEMMA BoardNext == IInv /\ IInv' /\ [Next]_vars => [Board!Next]_<<run.plan.deps, state.completed>>
<1> SUFFICES ASSUME IInv, IInv', [Next]_vars
             PROVE  [Board!Next]_<<run.plan.deps, state.completed>>
  OBVIOUS
<1>1. CASE Command
  <2>1. UNCHANGED state.completed
    BY <1>1, CommandStep
  <2>2. run.plan.deps' \in [Tasks -> SUBSET Tasks]
    BY DEF IInv, TypeOK, Plan
  <2> QED
    BY <2>1, <2>2 DEF Board!Next, Board!Adopt
<1>2. CASE Progress
  <2>1. UNCHANGED run.plan.deps
    BY <1>2, ProgressOnBoard
  <2>2. CASE UNCHANGED state.completed
    BY <2>1, <2>2
  <2>3. CASE state.completed' \in {{}} \cup RevisionStarts
    BY <2>1, <2>3 DEF Board!Next, Board!StartOver, RevisionStarts
  <2>4. CASE \E t \in Tasks : /\ t \notin Done /\ Rules[t] \subseteq Done
                            /\ Done' = Done \cup {t}
    BY <2>1, <2>4 DEF Board!Next, Board!Complete, Done, Rules
  <2> QED
    BY <1>2, <2>2, <2>3, <2>4, ProgressOnBoard DEF Done
<1>3. CASE Redecompose
  BY <1>3, RedecomposeStep
<1>4. CASE Crash
  <2>1. UNCHANGED run.plan.deps /\ state' \in {state, NoState}
    BY <1>4, CrashStep
  <2>2. NoState.completed = {}
    BY DEF NoState
  <2> QED
    BY <2>1, <2>2 DEF Board!Next, Board!StartOver
<1>5. CASE UNCHANGED vars
  BY <1>5 DEF vars
<1> QED
  BY <1>1, <1>2, <1>3, <1>4, <1>5 DEF Next

LEMMA BoardInit == Init => Board!Init
<1> SUFFICES ASSUME Init PROVE Board!Init
  OBVIOUS
<1>1. IInv
  BY InitSound
<1>2. run.plan.deps \in [Tasks -> SUBSET Tasks]
  BY <1>1 DEF IInv, TypeOK, Plan
<1> QED
  BY <1>2 DEF Init, Board!Init, NoState

\* Tasks complete one at a time and only after what the plan in force makes them
\* wait for, and are forgotten only as a whole (first_blocking_dependency,
\* complete_subtask, load_execution_state, _build_resume_initial_state).
THEOREM Refinement == Spec => ImplementsTaskBoard
<1>1. Spec => Board!Init /\ [][Board!Next]_<<run.plan.deps, state.completed>>
  BY BoardInit, BoardNext, Invariance, PTL DEF Spec
<1> QED
  BY <1>1 DEF ImplementsTaskBoard, Board!Spec
=============================================================================
