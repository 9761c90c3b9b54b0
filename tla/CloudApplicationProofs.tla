----------------------- MODULE CloudApplicationProofs -----------------------
(***************************************************************************)
(* The types, the soundness of the revision store, the order of the        *)
(* journal and the leases of results, for any number of concurrent         *)
(* commands, requests, tasks, applications, leases and crashes.            *)
(*                                                                         *)
(* None of the latter is inductive: a command publishes a revision, moves  *)
(* the pointer or publishes a result from what it read many steps          *)
(* earlier.  IInv adds what the commands in flight still know about the    *)
(* files (WorkerInv), that a published revision belongs to a created       *)
(* application, and that the journal names no revision that is not there.  *)
(* OrderInv adds that one command owns an application while it is made     *)
(* (Owns), so that nobody takes its journal back; LeasesInv what a command *)
(* knows of its leases (LeaseHeld), none of which is ever deleted.         *)
(***************************************************************************)
EXTENDS CloudApplicationProps, TLAPS

\* The labels of plan_apply once the application has its id, and those once
\* its revision file is written.
OnDiskLabels == {"published", "check_pointer", "set_pointer", "pointed", "applied",
                 "finalize", "updated", "audited", "pending", "commit"}
PlannedLabels == {"ready", "open_txn", "applying", "prepared", "written", "validate",
                  "publish"} \cup OnDiskLabels
ResumeLabels == {"begin_resume", "lease", "execute", "gate", "publication", "complete",
                 "invalidate"}
RollbackLabels == {"open_undo", "rolling_back", "stale_leases", "undo_failed",
                   "rollback_failed", "restore", "undo_done", "rolled_back", "retarget"}

\* An application of the plan has a record.
CreatedFirst == \A r \in published \ {Root} : apps[r].status # "none"

\* The first half of JournalOrder.
JournalBehind == \A a \in Apps : txn[a].phase \in Published => a \in published

\* What a command in flight still knows about the files.
WorkerInv(w) ==
    /\ wk[w].pc \notin {"idle", "recover"} => wk[w].rec.status # "none"
    /\ wk[w].pc \in {"save_plan"} \cup PlannedLabels =>
          wk[w].src \in published /\ wk[w].rec.req \in Requests
    /\ wk[w].pc \in PlannedLabels =>
          wk[w].app \in Apps /\ wk[w].src < wk[w].app /\ apps[wk[w].app].status # "none"
    /\ wk[w].pc \in OnDiskLabels => wk[w].app \in published
    /\ wk[w].pc \in ResumeLabels => wk[w].rec.rev # NoRev
    /\ wk[w].pc \in {"publication", "complete"} => wk[w].lease \in LeaseIds
    /\ wk[w].pc \in RollbackLabels => wk[w].rec.rev \in published \ {Root}
    /\ \A f \in wk[w].fix : f.kind = "point" => f.app \in published

IInv ==
    /\ TypeOK
    /\ RevisionStoreSound
    /\ CreatedFirst
    /\ JournalBehind
    /\ \A w \in Workers : WorkerInv(w)

-----------------------------------------------------------------------------
(* The sets the types are built from *)

\* The statuses are the states of state_machine.py.
LEMMA StatusesAre ==
    Statuses = {"application_planned", "application_validation_failed", "ready_to_apply",
                "applying", "applied", "resume_pending", "resuming", "resumed",
                "resume_failed", "rollback_available", "rolling_back", "rolled_back",
                "rollback_failed", "superseded", "cancelled"}
BY DEF Statuses, TransitionMap

\* Application ids are revision ids other than the bootstrap revision's.
LEMMA RevsAndApps ==
    /\ MaxApps \in Nat /\ MaxLeases \in Nat /\ MaxCrashes \in Nat
    /\ Revs = Apps \cup {Root} /\ Root \notin Apps
    /\ NoRev \notin Revs /\ Unbound \notin Revs /\ Revs \subseteq Int /\ 0 \notin LeaseIds
BY BoundsAssumption DEF Revs, Apps, Root, NoRev, Unbound, LeaseIds

-----------------------------------------------------------------------------
(* Steps of a command *)

\* Moving a process to a label changes its label alone.
LEMMA GotoType ==
    ASSUME wk \in [Workers -> Worker], NEW w \in Workers, NEW l \in Labels, Goto(w, l)
    PROVE  /\ wk' \in [Workers -> Worker]
           /\ wk'[w] = [wk[w] EXCEPT !.pc = l]
           /\ \A v \in Workers \ {w} : wk'[v] = wk[v]
<1>1. [wk[w] EXCEPT !.pc = l] \in Worker
  BY DEF Worker
<1>2. wk' = [wk EXCEPT ![w] = [wk[w] EXCEPT !.pc = l]]
  BY DEF Goto
<1> QED
  BY <1>1, <1>2

\* A process that stops is idle.
LEMMA IdleType == IdleWorker \in Worker
BY RevsAndApps DEF IdleWorker, Worker, NoApp, AppRecord, Labels, LeaseStates

LEMMA StopType ==
    ASSUME wk \in [Workers -> Worker], NEW w \in Workers, Stop(w)
    PROVE  /\ wk' \in [Workers -> Worker]
           /\ wk'[w] = IdleWorker
           /\ \A v \in Workers \ {w} : wk'[v] = wk[v]
BY IdleType DEF Stop

\* Saving a status keeps the types and deletes no record.
LEMMA SaveStatusType ==
    ASSUME TypeOK, NEW w \in Workers, NEW st \in Statuses, SaveStatus(w, st)
    PROVE  /\ apps' \in [Apps -> AppRecord]
           /\ \A a \in Apps : apps[a].status # "none" => apps'[a].status # "none"
<1> DEFINE new == [wk[w].rec EXCEPT !.status = st]
<1>1. new \in AppRecord /\ new.status = st
  <2>1. wk[w].rec \in AppRecord
    BY DEF TypeOK, Worker
  <2> QED
    BY <2>1 DEF AppRecord
<1>2. st # "none"
  BY StatusesAre
<1>3. apps' = [apps EXCEPT ![wk[w].app] = new]
  BY DEF SaveStatus
<1> HIDE DEF new
<1> QED
  BY <1>1, <1>2, <1>3 DEF TypeOK

\* The two together, and the other processes are left alone.
LEMMA TransitionType ==
    ASSUME TypeOK, NEW w \in Workers, NEW st \in Statuses, NEW l \in Labels,
           Transition(w, st, l)
    PROVE  /\ apps' \in [Apps -> AppRecord]
           /\ \A a \in Apps : apps[a].status # "none" => apps'[a].status # "none"
           /\ wk' \in [Workers -> Worker]
           /\ wk'[w] = [wk[w] EXCEPT !.pc = l, !.rec = [wk[w].rec EXCEPT !.status = st]]
           /\ \A v \in Workers \ {w} : wk'[v] = wk[v]
<1> DEFINE rec == [wk[w].rec EXCEPT !.status = st]
           new == [wk[w] EXCEPT !.pc = l, !.rec = rec]
<1>1. SaveStatus(w, st)
  BY DEF Transition
<1>2. new \in Worker
  <2>1. wk[w] \in Worker
    BY DEF TypeOK
  <2>2. wk[w].rec \in AppRecord
    BY <2>1 DEF Worker
  <2>3. rec \in AppRecord
    BY <2>2 DEF AppRecord
  <2> HIDE DEF rec
  <2> QED
    BY <2>1, <2>3 DEF Worker
<1>3. wk' = [wk EXCEPT ![w] = new]
  BY DEF Transition
<1> HIDE DEF new
<1>4. wk' \in [Workers -> Worker] /\ wk'[w] = new /\ \A v \in Workers \ {w} : wk'[v] = wk[v]
  BY <1>2, <1>3 DEF TypeOK
<1> QED
  BY <1>1, <1>4, SaveStatusType DEF new

\* What one process knows stays true while the others work: revision files are
\* only added and no application record is deleted.
LEMMA OthersKeep ==
    ASSUME NEW w \in Workers, \A v \in Workers : WorkerInv(v),
           \A v \in Workers \ {w} : wk'[v] = wk[v],
           published \subseteq published',
           \A a \in Apps : apps[a].status # "none" => apps'[a].status # "none",
           WorkerInv(w)'
    PROVE  \A v \in Workers : WorkerInv(v)'
<1> SUFFICES ASSUME NEW v \in Workers, v # w PROVE WorkerInv(v)'
  OBVIOUS
<1> wk'[v] = wk[v] /\ WorkerInv(v)
  OBVIOUS
<1> QED
  BY DEF WorkerInv

\* A step that changes neither the revisions nor the pointer.
LEMMA KeepPlans ==
    ASSUME IInv, NEW w \in Workers, UNCHANGED planVars, TypeOK', JournalBehind',
           \A v \in Workers \ {w} : wk'[v] = wk[v],
           \A a \in Apps : apps[a].status # "none" => apps'[a].status # "none",
           WorkerInv(w)'
    PROVE  IInv'
<1>1. RevisionStoreSound'
  BY DEF IInv, RevisionStoreSound, planVars
<1>2. CreatedFirst'
  BY RevsAndApps DEF IInv, CreatedFirst, planVars, TypeOK
<1>3. \A v \in Workers : WorkerInv(v)'
  BY OthersKeep DEF IInv, planVars
<1> QED
  BY <1>1, <1>2, <1>3 DEF IInv

\* A step that reads files and changes none.
LEMMA ReadStep ==
    ASSUME IInv, NEW w \in Workers,
           UNCHANGED <<req, apps, journalVars, planVars, leaseVars>>,
           crashes' \in 0..MaxCrashes, wk' \in [Workers -> Worker],
           \A v \in Workers \ {w} : wk'[v] = wk[v],
           WorkerInv(w)'
    PROVE  IInv'
<1>1. TypeOK'
  BY DEF IInv, TypeOK, journalVars, planVars, leaseVars
<1>2. JournalBehind'
  BY DEF IInv, JournalBehind, journalVars, planVars
<1> QED
  BY <1>1, <1>2, KeepPlans

\* A step that writes an application record and nothing else.
LEMMA RecordStep ==
    ASSUME IInv, NEW w \in Workers,
           UNCHANGED <<req, crashes, journalVars, planVars, leaseVars>>,
           apps' \in [Apps -> AppRecord], wk' \in [Workers -> Worker],
           \A a \in Apps : apps[a].status # "none" => apps'[a].status # "none",
           \A v \in Workers \ {w} : wk'[v] = wk[v],
           WorkerInv(w)'
    PROVE  IInv'
<1>1. TypeOK'
  BY DEF IInv, TypeOK, journalVars, planVars, leaseVars
<1>2. JournalBehind'
  BY DEF IInv, JournalBehind, journalVars, planVars
<1> QED
  BY <1>1, <1>2, KeepPlans

\* A step that writes a lease or a result and nothing else.
LEMMA LeaseStep ==
    ASSUME IInv, NEW w \in Workers,
           UNCHANGED <<req, crashes, apps, journalVars, planVars>>,
           leases' \in [LeaseIds -> Lease], pubs' \subseteq LeaseIds,
           wk' \in [Workers -> Worker],
           \A v \in Workers \ {w} : wk'[v] = wk[v],
           WorkerInv(w)'
    PROVE  IInv'
<1>1. TypeOK'
  BY DEF IInv, TypeOK, journalVars, planVars
<1>2. JournalBehind'
  BY DEF IInv, JournalBehind, journalVars, planVars
<1> QED
  BY <1>1, <1>2, KeepPlans

\* A process that stops, knows nothing.
LEMMA StopInv ==
    ASSUME wk \in [Workers -> Worker], NEW w \in Workers, Stop(w)
    PROVE  WorkerInv(w)'
BY StopType DEF WorkerInv, IdleWorker, PlannedLabels, OnDiskLabels, ResumeLabels, RollbackLabels

\* What a process at one label knows covers what it must know at the next.
Follows(from, next) ==
    /\ from \in Labels \ {"idle", "recover"}
    /\ next \in Labels \ {"save_plan", "publication", "complete"}
    /\ next \in PlannedLabels => from \in PlannedLabels
    /\ next \in OnDiskLabels => from \in OnDiskLabels
    /\ next \in ResumeLabels => from \in ResumeLabels
    /\ next \in RollbackLabels => from \in RollbackLabels

\* A process that moves on with what it knows, or with another status in memory.
LEMMA FollowsInv ==
    ASSUME IInv, NEW w \in Workers, NEW from, NEW next, Follows(from, next), At(w, from),
           published' = published,
           \A a \in Apps : apps[a].status # "none" => apps'[a].status # "none",
           \/ wk'[w] = [wk[w] EXCEPT !.pc = next]
           \/ \E st \in Statuses :
                wk'[w] = [wk[w] EXCEPT !.pc = next, !.rec = [wk[w].rec EXCEPT !.status = st]]
    PROVE  WorkerInv(w)'
<1> DEFINE Kept ==
      /\ wk'[w].pc = next /\ wk'[w].app = wk[w].app /\ wk'[w].src = wk[w].src
      /\ wk'[w].lease = wk[w].lease /\ wk'[w].fix = wk[w].fix
      /\ wk'[w].rec.rev = wk[w].rec.rev /\ wk'[w].rec.req = wk[w].rec.req
      /\ wk[w].rec.status # "none" => wk'[w].rec.status # "none"
<1>1. wk[w] \in Worker /\ WorkerInv(w) /\ wk[w].pc = from /\ wk[w].rec \in AppRecord
  BY DEF IInv, TypeOK, At, Worker
<1>2. Kept
  <2>1. CASE wk'[w] = [wk[w] EXCEPT !.pc = next]
    BY <1>1, <2>1 DEF Worker
  <2>2. ASSUME NEW st \in Statuses,
               wk'[w] = [wk[w] EXCEPT !.pc = next,
                                      !.rec = [wk[w].rec EXCEPT !.status = st]]
        PROVE  Kept
    BY <1>1, <2>2, StatusesAre DEF Worker, AppRecord
  <2> QED
    BY <2>1, <2>2
<1> QED
  BY <1>1, <1>2 DEF WorkerInv, Follows

\* A status transition that is a step of its own.
LEMMA TransitionInv ==
    ASSUME IInv, NEW w \in Workers, NEW from, NEW st \in Statuses, NEW next,
           Follows(from, next), At(w, from), Transition(w, st, next),
           UNCHANGED <<req, crashes, journalVars, planVars, leaseVars>>
    PROVE  IInv'
<1>1. next \in Labels /\ TypeOK /\ published' = published
  BY DEF Follows, IInv, planVars
<1>2. /\ apps' \in [Apps -> AppRecord]
      /\ \A a \in Apps : apps[a].status # "none" => apps'[a].status # "none"
      /\ wk' \in [Workers -> Worker]
      /\ wk'[w] = [wk[w] EXCEPT !.pc = next, !.rec = [wk[w].rec EXCEPT !.status = st]]
      /\ \A v \in Workers \ {w} : wk'[v] = wk[v]
  BY <1>1, TransitionType
<1>3. WorkerInv(w)'
  BY <1>1, <1>2, FollowsInv
<1> QED
  BY <1>2, <1>3, RecordStep

\* A step that only reads and goes on, or ends the command.
LEMMA GotoInv ==
    ASSUME IInv, NEW w \in Workers, NEW from, NEW next,
           Follows(from, next), At(w, from), Goto(w, next),
           UNCHANGED <<req, crashes, apps, journalVars, planVars, leaseVars>>
    PROVE  IInv'
<1>1. next \in Labels /\ published' = published /\ wk \in [Workers -> Worker]
  BY DEF Follows, planVars, IInv, TypeOK
<1>2. /\ wk' \in [Workers -> Worker] /\ wk'[w] = [wk[w] EXCEPT !.pc = next]
      /\ \A v \in Workers \ {w} : wk'[v] = wk[v]
  BY <1>1, GotoType
<1>3. WorkerInv(w)'
  BY <1>1, <1>2, FollowsInv
<1> QED
  BY <1>2, <1>3, ReadStep DEF IInv, TypeOK

LEMMA StopStepInv ==
    ASSUME IInv, NEW w \in Workers, Stop(w), crashes' \in 0..MaxCrashes,
           UNCHANGED <<req, apps, journalVars, planVars, leaseVars>>
    PROVE  IInv'
<1>1. wk \in [Workers -> Worker]
  BY DEF IInv, TypeOK
<1> QED
  BY <1>1, StopType, StopInv, ReadStep

-----------------------------------------------------------------------------
(* plan_apply and _apply_plan *)

LEMMA ImportResponseInv ==
    ASSUME IInv, NEW w \in Workers, NEW q \in Requests, ImportResponse(w, q)
    PROVE  IInv'
<1>1. req' \in [Requests -> [base: Revs \cup {Unbound}, kind: OpKinds \cup {"none"}]]
  BY DEF ImportResponse, IInv, TypeOK
<1>2. TypeOK'
  BY <1>1 DEF ImportResponse, IInv, TypeOK, journalVars, planVars, leaseVars
<1>3. JournalBehind'
  BY DEF ImportResponse, IInv, JournalBehind, journalVars, planVars
<1>4. WorkerInv(w)'
  BY DEF ImportResponse, IInv, WorkerInv, planVars
<1> QED
  BY <1>2, <1>3, <1>4, KeepPlans DEF ImportResponse

LEMMA PlanApplyInv ==
    ASSUME IInv, NEW w \in Workers, NEW q \in Requests, PlanApply(w, q)
    PROVE  IInv'
<1> DEFINE rec == [NoApp EXCEPT !.status = "application_planned", !.req = q]
           new == [IdleWorker EXCEPT !.pc = "save_plan", !.src = active, !.rec = rec]
<1>1. rec \in AppRecord
  BY StatusesAre DEF NoApp, AppRecord
<1>2. new \in Worker
  BY <1>1, IdleType DEF Worker, IInv, TypeOK, Labels
<1>3. wk' = [wk EXCEPT ![w] = new]
  BY DEF PlanApply
<1>4. /\ new.pc = "save_plan" /\ new.src = active /\ new.fix = {}
      /\ new.rec.status # "none" /\ new.rec.req \in Requests
  BY <1>1 DEF IdleWorker, AppRecord, NoApp
<1> HIDE DEF new
<1>5. wk' \in [Workers -> Worker] /\ wk'[w] = new /\ \A v \in Workers \ {w} : wk'[v] = wk[v]
  BY <1>2, <1>3 DEF IInv, TypeOK
<1>6. active \in published /\ published' = published
  BY DEF PlanApply, planVars, IInv, RevisionStoreSound
<1>7. WorkerInv(w)'
  BY <1>4, <1>5, <1>6 DEF WorkerInv,
     PlannedLabels, OnDiskLabels, ResumeLabels, RollbackLabels
<1> QED
  BY <1>5, <1>7, ReadStep DEF PlanApply, IInv, TypeOK

LEMMA SavePlanInv ==
    ASSUME IInv, NEW w \in Workers, SavePlan(w)
    PROVE  IInv'
<1> PICK a \in Apps :
          /\ \A b \in Apps : (apps[b].status = "none") <=> (b >= a)
          /\ apps' = [apps EXCEPT ![a] = wk[w].rec]
          /\ wk' = [wk EXCEPT ![w].pc = "ready", ![w].app = a]
  BY DEF SavePlan
<1> DEFINE new == [wk[w] EXCEPT !.pc = "ready", !.app = a]
<1>1. wk[w] \in Worker /\ wk[w].pc = "save_plan" /\ WorkerInv(w)
  BY DEF SavePlan, At, IInv, TypeOK
<1>2. new \in Worker
  BY <1>1 DEF Worker, Labels
<1>3. wk' \in [Workers -> Worker] /\ wk'[w] = new /\ \A v \in Workers \ {w} : wk'[v] = wk[v]
  BY <1>2 DEF IInv, TypeOK
<1>4. wk[w].rec \in AppRecord /\ wk[w].rec.status # "none"
  BY <1>1 DEF WorkerInv, Worker
<1>5. /\ apps' \in [Apps -> AppRecord] /\ apps'[a].status # "none"
      /\ \A b \in Apps : apps[b].status # "none" => apps'[b].status # "none"
  BY <1>4 DEF IInv, TypeOK
\* Every application of the plan, the source's included, is older than the new one.
<1>6. wk[w].src \in published /\ wk[w].src < a
  <2>1. wk[w].src \in published /\ published \subseteq Revs
    BY <1>1 DEF WorkerInv, IInv, TypeOK
  <2>2. CASE wk[w].src = Root
    BY <2>1, <2>2 DEF Root, Apps
  <2>3. CASE wk[w].src # Root
    BY <2>1, <2>3, RevsAndApps DEF IInv, CreatedFirst
  <2> QED
    BY <2>2, <2>3
<1>7. WorkerInv(w)'
  BY <1>1, <1>3, <1>5, <1>6 DEF SavePlan, WorkerInv, Worker, planVars,
     PlannedLabels, OnDiskLabels, ResumeLabels, RollbackLabels
<1> QED
  BY <1>3, <1>5, <1>7, RecordStep DEF SavePlan

\* A phase of the journal is saved from one label of plan_apply to another.
LEMMA JournalInv ==
    ASSUME IInv, NEW w \in Workers, NEW from \in PlannedLabels, NEW phase \in Phases,
           NEW next \in PlannedLabels, Journal(w, from, phase, next),
           next \in OnDiskLabels => from \in OnDiskLabels,
           phase \in Published => from \in OnDiskLabels
    PROVE  IInv'
<1>1. wk[w] \in Worker /\ WorkerInv(w) /\ wk[w].pc = from /\ published' = published
  BY DEF IInv, TypeOK, Journal, At, planVars
<1>2. next \in Labels /\ Goto(w, next)
  BY DEF Journal, Labels, PlannedLabels, OnDiskLabels
<1>3. /\ wk' \in [Workers -> Worker] /\ wk'[w] = [wk[w] EXCEPT !.pc = next]
      /\ \A v \in Workers \ {w} : wk'[v] = wk[v]
  BY <1>2, GotoType DEF IInv, TypeOK
<1>4. wk[w].app \in Apps /\ (phase \in Published => wk[w].app \in published)
  BY <1>1 DEF WorkerInv
<1> DEFINE t == [txn[wk[w].app] EXCEPT !.phase = phase, !.planSum = FALSE]
<1>5. t \in Transaction /\ t.phase = phase
  BY <1>4 DEF IInv, TypeOK, Transaction
<1>6. txn' = [txn EXCEPT ![wk[w].app] = t]
  BY <1>4 DEF Journal, SavePhase, IInv, TypeOK
<1> HIDE DEF t
<1>7. TypeOK'
  BY <1>3, <1>4, <1>5, <1>6 DEF IInv, TypeOK, Journal, planVars, leaseVars
<1>8. JournalBehind'
  BY <1>1, <1>4, <1>5, <1>6 DEF IInv, TypeOK, JournalBehind
<1>9. WorkerInv(w)'
  BY <1>1, <1>3 DEF WorkerInv, Worker, Journal,
     PlannedLabels, OnDiskLabels, ResumeLabels, RollbackLabels
<1> QED
  BY <1>3, <1>7, <1>8, <1>9, KeepPlans DEF Journal

LEMMA JournalStepsInv ==
    ASSUME IInv, NEW w \in Workers,
           \/ JournalPrepared(w) \/ JournalWritten(w) \/ GraphAccepted(w)
           \/ JournalPublished(w) \/ JournalPointer(w) \/ JournalUpdated(w) \/ JournalAudited(w)
    PROVE  IInv'
<1> USE DEF PlannedLabels, OnDiskLabels, Phases, Published
<1>1. CASE JournalPrepared(w)
  BY <1>1, JournalInv DEF JournalPrepared
<1>2. CASE JournalWritten(w)
  BY <1>2, JournalInv DEF JournalWritten
<1>3. CASE GraphAccepted(w)
  BY <1>3, JournalInv DEF GraphAccepted
<1>4. CASE JournalPublished(w)
  BY <1>4, JournalInv DEF JournalPublished
<1>5. CASE JournalPointer(w)
  BY <1>5, JournalInv DEF JournalPointer
<1>6. CASE JournalUpdated(w)
  BY <1>6, JournalInv DEF JournalUpdated
<1>7. CASE JournalAudited(w)
  BY <1>7, JournalInv DEF JournalAudited
<1> QED
  BY <1>1, <1>2, <1>3, <1>4, <1>5, <1>6, <1>7

\* The status transitions of plan_apply.
LEMMA ApplyTransitionsInv ==
    ASSUME IInv, NEW w \in Workers,
           ReadyToApply(w) \/ BeginApplying(w) \/ MarkApplied(w) \/ OfferResume(w)
    PROVE  IInv'
<1> USE StatusesAre DEF Follows, Labels, PlannedLabels, OnDiskLabels, ResumeLabels,
        RollbackLabels
<1>1. CASE ReadyToApply(w)
  BY <1>1, TransitionInv DEF ReadyToApply
<1>2. CASE BeginApplying(w)
  BY <1>2, TransitionInv DEF BeginApplying
<1>3. CASE MarkApplied(w)
  BY <1>3, TransitionInv DEF MarkApplied
<1>4. CASE OfferResume(w)
  BY <1>4, TransitionInv DEF OfferResume
<1> QED
  BY <1>1, <1>2, <1>3, <1>4

LEMMA OpenTransactionInv ==
    ASSUME IInv, NEW w \in Workers, OpenTransaction(w)
    PROVE  IInv'
<1>1. wk[w] \in Worker /\ WorkerInv(w) /\ At(w, "open_txn") /\ published' = published
  BY DEF IInv, TypeOK, OpenTransaction, planVars
<1>2. /\ wk' \in [Workers -> Worker] /\ wk'[w] = [wk[w] EXCEPT !.pc = "applying"]
      /\ \A v \in Workers \ {w} : wk'[v] = wk[v]
  BY GotoType DEF OpenTransaction, Labels, IInv, TypeOK
<1> DEFINE t == [phase |-> "prepared", src |-> wk[w].src, planSum |-> TRUE]
<1>3. t \in Transaction /\ t.phase \notin Published
  BY <1>1 DEF Transaction, Worker, Phases, Published
<1>4. txn' = [txn EXCEPT ![wk[w].app] = t]
  BY DEF OpenTransaction
<1> HIDE DEF t
<1>5. TypeOK'
  <2>1. txn' \in [Apps -> Transaction]
    BY <1>3, <1>4 DEF IInv, TypeOK
  <2> QED
    BY <1>2, <2>1 DEF IInv, TypeOK, OpenTransaction, planVars, leaseVars
<1>6. JournalBehind'
  BY <1>1, <1>3, <1>4 DEF IInv, TypeOK, JournalBehind
<1>7. Follows("open_txn", "applying")
  BY DEF Follows, Labels, PlannedLabels, OnDiskLabels, ResumeLabels, RollbackLabels
<1>8. WorkerInv(w)'
  BY <1>1, <1>2, <1>7, FollowsInv DEF OpenTransaction
<1> QED
  BY <1>2, <1>5, <1>6, <1>8, KeepPlans DEF OpenTransaction

LEMMA PublishRevisionInv ==
    ASSUME IInv, NEW w \in Workers, PublishRevision(w)
    PROVE  IInv'
<1> DEFINE a == wk[w].app
           old == revs[wk[w].src].superseded
           done == IF req[wk[w].rec.req].kind = "replace_task_with_subtasks"
                   THEN old \cup {wk[w].rec.req} ELSE old
<1> PICK ready \in SUBSET Tasks :
          revs' = [revs EXCEPT ![a] = [parent |-> wk[w].src, ready |-> ready,
                                       superseded |-> done]]
  BY DEF PublishRevision
<1> DEFINE new == [parent |-> wk[w].src, ready |-> ready, superseded |-> done]
<1>1. wk[w] \in Worker /\ WorkerInv(w) /\ wk[w].pc = "publish"
  BY DEF IInv, TypeOK, PublishRevision, At
<1>2. a \in Apps /\ a \in Revs /\ wk[w].src \in published /\ wk[w].src < a
      /\ apps[a].status # "none" /\ wk[w].rec.req \in Requests
  BY <1>1, RevsAndApps DEF WorkerInv, PlannedLabels, IInv, TypeOK
<1>3. new \in Revision
  <2>1. old \subseteq Requests
    BY <1>1 DEF IInv, TypeOK, Revision, Worker
  <2>2. done \subseteq Requests
    BY <1>2, <2>1
  <2> QED
    BY <1>1, <2>2 DEF Revision, Worker
<1>4. new.parent = wk[w].src /\ revs' = [revs EXCEPT ![a] = new]
  OBVIOUS
<1> HIDE DEF new
<1>5. published' = published \cup {a} /\ active' = active /\ apps' = apps /\ txn' = txn
  BY DEF PublishRevision, journalVars
<1>6. /\ wk' \in [Workers -> Worker] /\ wk'[w] = [wk[w] EXCEPT !.pc = "published"]
      /\ \A v \in Workers \ {w} : wk'[v] = wk[v]
  BY GotoType DEF PublishRevision, Labels, IInv, TypeOK
<1>7. TypeOK'
  BY <1>2, <1>3, <1>4, <1>5, <1>6
     DEF IInv, TypeOK, PublishRevision, journalVars, leaseVars
<1>8. RevisionStoreSound'
  <2>1. a # Root /\ Root \in Revs
    BY <1>2, RevsAndApps
  <2>2. \A r \in Revs : r # a => revs'[r] = revs[r]
    BY <1>4 DEF IInv, TypeOK
  <2>3. revs'[a].parent = wk[w].src
    BY <1>2, <1>4 DEF IInv, TypeOK
  <2> QED
    BY <1>2, <1>5, <2>1, <2>2, <2>3 DEF IInv, TypeOK, RevisionStoreSound
<1>9. CreatedFirst'
  BY <1>2, <1>5 DEF IInv, CreatedFirst
<1>10. JournalBehind'
  BY <1>5 DEF IInv, JournalBehind
<1>11. WorkerInv(w)'
  BY <1>1, <1>2, <1>5, <1>6 DEF WorkerInv, Worker,
     PlannedLabels, OnDiskLabels, ResumeLabels, RollbackLabels
<1>12. \A v \in Workers : WorkerInv(v)'
  BY <1>5, <1>6, <1>11, OthersKeep DEF IInv
<1> QED
  BY <1>7, <1>8, <1>9, <1>10, <1>12 DEF IInv

LEMMA SetPointerInv ==
    ASSUME IInv, NEW w \in Workers, SetPointer(w)
    PROVE  IInv'
<1>1. WorkerInv(w) /\ At(w, "set_pointer") /\ wk[w].app \in published
  BY DEF IInv, SetPointer, At, WorkerInv, OnDiskLabels
<1>2. /\ published' = published /\ revs' = revs /\ active' = wk[w].app /\ apps' = apps
      /\ txn' = txn
  BY DEF SetPointer, journalVars
<1>3. /\ wk' \in [Workers -> Worker] /\ wk'[w] = [wk[w] EXCEPT !.pc = "pointed"]
      /\ \A v \in Workers \ {w} : wk'[v] = wk[v]
  BY GotoType DEF SetPointer, Labels, IInv, TypeOK
<1>4. TypeOK'
  BY <1>1, <1>2, <1>3 DEF IInv, TypeOK, SetPointer, journalVars, leaseVars
<1>5. RevisionStoreSound' /\ CreatedFirst' /\ JournalBehind'
  BY <1>1, <1>2 DEF IInv, RevisionStoreSound, CreatedFirst, JournalBehind
<1>6. Follows("set_pointer", "pointed")
  BY DEF Follows, Labels, PlannedLabels, OnDiskLabels, ResumeLabels, RollbackLabels
<1>7. WorkerInv(w)'
  BY <1>1, <1>2, <1>3, <1>6, FollowsInv
<1>8. \A v \in Workers : WorkerInv(v)'
  BY <1>2, <1>3, <1>7, OthersKeep DEF IInv
<1> QED
  BY <1>4, <1>5, <1>8 DEF IInv

LEMMA FinalizeRecordInv ==
    ASSUME IInv, NEW w \in Workers, FinalizeRecord(w)
    PROVE  IInv'
<1> DEFINE a == wk[w].app
           rec == [wk[w].rec EXCEPT !.rev = a, !.eligible = (revs[a].ready # {})]
           new == [wk[w] EXCEPT !.pc = "updated", !.rec = rec]
<1>1. wk[w] \in Worker /\ WorkerInv(w) /\ wk[w].pc = "finalize" /\ published' = published
  BY DEF IInv, TypeOK, FinalizeRecord, At, planVars
<1>2. a \in Apps /\ a \in Revs /\ wk[w].rec \in AppRecord /\ wk[w].rec.status # "none"
  BY <1>1, RevsAndApps DEF WorkerInv, PlannedLabels, OnDiskLabels, Worker
<1>3. rec \in AppRecord /\ rec.status # "none" /\ rec.req = wk[w].rec.req
  BY <1>2 DEF AppRecord
<1>4. apps' = [apps EXCEPT ![a] = rec] /\ wk' = [wk EXCEPT ![w] = new]
  BY DEF FinalizeRecord
<1> HIDE DEF rec
<1>5. new \in Worker
  BY <1>1, <1>3 DEF Worker, Labels
<1>6. /\ wk' \in [Workers -> Worker] /\ wk'[w] = new
      /\ \A v \in Workers \ {w} : wk'[v] = wk[v]
  BY <1>4, <1>5 DEF IInv, TypeOK
<1>7. /\ apps' \in [Apps -> AppRecord]
      /\ \A b \in Apps : apps[b].status # "none" => apps'[b].status # "none"
  BY <1>3, <1>4 DEF IInv, TypeOK
<1>8. WorkerInv(w)'
  BY <1>1, <1>3, <1>6, <1>7 DEF WorkerInv, Worker,
     PlannedLabels, OnDiskLabels, ResumeLabels, RollbackLabels
<1> QED
  BY <1>6, <1>7, <1>8, RecordStep DEF FinalizeRecord

LEMMA CommitInv ==
    ASSUME IInv, NEW w \in Workers, Commit(w)
    PROVE  IInv'
<1>1. WorkerInv(w) /\ wk[w].pc = "commit" /\ published' = published
  BY DEF IInv, Commit, At, planVars
<1>2. wk[w].app \in Apps /\ wk[w].app \in published
  BY <1>1 DEF WorkerInv, PlannedLabels, OnDiskLabels
<1> DEFINE t == [txn[wk[w].app] EXCEPT !.phase = "committed", !.planSum = FALSE]
<1>3. t \in Transaction
  BY <1>2 DEF IInv, TypeOK, Transaction, Phases
<1>4. txn' = [txn EXCEPT ![wk[w].app] = t]
  BY <1>2 DEF Commit, SavePhase, IInv, TypeOK
<1> HIDE DEF t
<1>5. /\ wk' \in [Workers -> Worker] /\ \A v \in Workers \ {w} : wk'[v] = wk[v]
      /\ WorkerInv(w)'
  BY StopType, StopInv DEF Commit, IInv, TypeOK
<1>6. TypeOK'
  <2>1. txn' \in [Apps -> Transaction]
    BY <1>3, <1>4 DEF IInv, TypeOK
  <2> QED
    BY <1>5, <2>1 DEF IInv, TypeOK, Commit, planVars, leaseVars
<1>7. JournalBehind'
  BY <1>1, <1>2, <1>4 DEF IInv, TypeOK, JournalBehind
<1> QED
  BY <1>5, <1>6, <1>7, KeepPlans DEF Commit

LEMMA ApplyInv ==
    ASSUME IInv, NEW w \in Workers, Apply(w)
    PROVE  IInv'
<1>1. ASSUME NEW q \in Requests, PlanApply(w, q) PROVE IInv'
  BY <1>1, PlanApplyInv
<1>2. CASE GraphRejected(w) \/ PointerMoved(w)
  BY <1>2, StopStepInv DEF GraphRejected, PointerMoved, IInv, TypeOK
<1>3. CASE PointerUnchanged(w)
  <2>1. Follows("check_pointer", "set_pointer")
    BY DEF Follows, Labels, PlannedLabels, OnDiskLabels, ResumeLabels, RollbackLabels
  <2> QED
    BY <1>3, <2>1, GotoInv DEF PointerUnchanged
<1> QED
  BY <1>1, <1>2, <1>3, SavePlanInv, ApplyTransitionsInv, OpenTransactionInv, JournalStepsInv,
     PublishRevisionInv, SetPointerInv, FinalizeRecordInv, CommitInv DEF Apply

-----------------------------------------------------------------------------
(* resume *)

LEMMA ResumeStartInv ==
    ASSUME IInv, NEW w \in Workers, NEW q \in Requests, ResumeStart(w, q)
    PROVE  IInv'
<1> PICK a \in Apps :
          /\ apps[a].status # "none" /\ HasRevision(a)
          /\ wk' = [wk EXCEPT ![w] = [IdleWorker EXCEPT !.pc = "begin_resume", !.app = a,
                       !.rec = apps[a], !.todo = revs[apps[a].rev].ready]]
  BY DEF ResumeStart, Preferred
<1> DEFINE new == [IdleWorker EXCEPT !.pc = "begin_resume", !.app = a,
                      !.rec = apps[a], !.todo = revs[apps[a].rev].ready]
<1>1. apps[a] \in AppRecord /\ apps[a].rev \in Revs /\ apps[a].rev # NoRev
  BY DEF IInv, TypeOK, HasRevision, AppRecord
<1>2. revs[apps[a].rev].ready \subseteq Tasks
  BY <1>1 DEF IInv, TypeOK, Revision
<1>3. new \in Worker
  BY <1>1, <1>2, IdleType DEF Worker, Labels
<1>4. /\ new.pc = "begin_resume" /\ new.fix = {} /\ new.rec.status # "none"
      /\ new.rec.rev # NoRev
  BY <1>1 DEF IdleWorker
<1>5. wk' = [wk EXCEPT ![w] = new]
  OBVIOUS
<1> HIDE DEF new
<1>6. wk' \in [Workers -> Worker] /\ wk'[w] = new /\ \A v \in Workers \ {w} : wk'[v] = wk[v]
  BY <1>3, <1>5 DEF IInv, TypeOK
<1>7. WorkerInv(w)'
  BY <1>4, <1>6 DEF WorkerInv, PlannedLabels, OnDiskLabels, ResumeLabels, RollbackLabels
<1> QED
  BY <1>6, <1>7, ReadStep DEF ResumeStart, IInv, TypeOK

LEMMA CreateLeaseInv ==
    ASSUME IInv, NEW w \in Workers, CreateLease(w)
    PROVE  IInv'
<1> PICK t \in wk[w].todo, l \in LeaseIds :
          /\ leases' = [leases EXCEPT ![l] =
                [state |-> "active", rev |-> wk[w].rec.rev, task |-> t, done |-> FALSE]]
          /\ wk' = [wk EXCEPT ![w].todo = @ \ {t}, ![w].mine = @ \cup {l}]
  BY DEF CreateLease
<1> DEFINE lease == [state |-> "active", rev |-> wk[w].rec.rev, task |-> t, done |-> FALSE]
           new == [wk[w] EXCEPT !.todo = @ \ {t}, !.mine = @ \cup {l}]
<1>1. wk[w] \in Worker /\ WorkerInv(w) /\ wk[w].pc = "lease"
  BY DEF IInv, TypeOK, CreateLease, At
<1>2. wk[w].rec.rev \in Revs
  BY <1>1 DEF WorkerInv, ResumeLabels, Worker, AppRecord
<1>3. lease \in Lease
  BY <1>1, <1>2 DEF Lease, Worker, LeaseStates
<1>4. new \in Worker
  BY <1>1 DEF Worker
<1>5. leases' \in [LeaseIds -> Lease] /\ pubs' \subseteq LeaseIds
  BY <1>3 DEF CreateLease, IInv, TypeOK
<1>6. wk' \in [Workers -> Worker] /\ wk'[w] = new /\ \A v \in Workers \ {w} : wk'[v] = wk[v]
  BY <1>4 DEF IInv, TypeOK
<1>7. WorkerInv(w)'
  BY <1>1, <1>6 DEF CreateLease, WorkerInv, Worker, planVars,
     PlannedLabels, OnDiskLabels, ResumeLabels, RollbackLabels
<1> QED
  BY <1>5, <1>6, <1>7, LeaseStep DEF CreateLease

LEMMA StartExecutionInv ==
    ASSUME IInv, NEW w \in Workers, StartExecution(w)
    PROVE  IInv'
<1> DEFINE new == [wk[w] EXCEPT !.pc = "execute", !.todo = revs[wk[w].rec.rev].ready]
<1>1. wk[w] \in Worker /\ WorkerInv(w) /\ wk[w].pc = "lease" /\ published' = published
  BY DEF IInv, TypeOK, StartExecution, At, planVars
<1>2. wk[w].rec.rev \in Revs
  BY <1>1 DEF WorkerInv, ResumeLabels, Worker, AppRecord
<1>3. new \in Worker
  BY <1>1, <1>2 DEF Worker, Labels, IInv, TypeOK, Revision
<1>4. wk' \in [Workers -> Worker] /\ wk'[w] = new /\ \A v \in Workers \ {w} : wk'[v] = wk[v]
  BY <1>3 DEF StartExecution, IInv, TypeOK
<1>5. WorkerInv(w)'
  BY <1>1, <1>4 DEF WorkerInv, Worker,
     PlannedLabels, OnDiskLabels, ResumeLabels, RollbackLabels
<1> QED
  BY <1>4, <1>5, ReadStep DEF StartExecution, IInv, TypeOK

\* The steps of resume that only read, between labels of resume.
LEMMA ResumeReadInv ==
    ASSUME IInv, NEW w \in Workers, NEW new \in Worker,
           UNCHANGED <<req, crashes, apps, journalVars, planVars, leaseVars>>,
           wk' = [wk EXCEPT ![w] = new], wk[w].pc \in ResumeLabels, new.pc \in ResumeLabels,
           new.rec = wk[w].rec, new.fix = wk[w].fix,
           new.pc \in {"publication", "complete"} => new.lease \in LeaseIds
    PROVE  IInv'
<1>1. wk[w] \in Worker /\ WorkerInv(w) /\ published' = published
  BY DEF IInv, TypeOK, planVars
<1>2. wk' \in [Workers -> Worker] /\ wk'[w] = new /\ \A v \in Workers \ {w} : wk'[v] = wk[v]
  BY DEF IInv, TypeOK
<1>3. WorkerInv(w)'
  BY <1>1, <1>2 DEF WorkerInv, PlannedLabels, OnDiskLabels, ResumeLabels, RollbackLabels
<1> QED
  BY <1>2, <1>3, ReadStep DEF IInv, TypeOK

LEMMA ResultStepsInv ==
    ASSUME IInv, NEW w \in Workers,
           ExecutionFails(w) \/ GateRejects(w) \/ GatePasses(w)
    PROVE  IInv'
<1>1. wk[w] \in Worker
  BY DEF IInv, TypeOK
<1>2. ASSUME NEW bad \in LeaseStates, wk[w].pc \in {"execute", "gate"},
             wk' = [wk EXCEPT ![w].pc = "invalidate", ![w].bad = bad],
             UNCHANGED <<req, crashes, apps, journalVars, planVars, leaseVars>>
      PROVE  IInv'
  <2> DEFINE new == [wk[w] EXCEPT !.pc = "invalidate", !.bad = bad]
  <2>1. new \in Worker /\ new.pc = "invalidate" /\ new.rec = wk[w].rec /\ new.fix = wk[w].fix
    BY <1>1 DEF Worker, Labels
  <2>2. wk' = [wk EXCEPT ![w] = new]
    BY <1>2
  <2> HIDE DEF new
  <2> QED
    BY <1>2, <2>1, <2>2, ResumeReadInv DEF ResumeLabels
<1>3. CASE ExecutionFails(w) \/ GateRejects(w)
  BY <1>2, <1>3 DEF ExecutionFails, GateRejects, At, LeaseStates
<1>4. CASE GatePasses(w)
  <2> PICK t \in wk[w].todo, l \in LeaseIds :
          wk' = [wk EXCEPT ![w].pc = "publication", ![w].todo = @ \ {t}, ![w].lease = l]
    BY <1>4 DEF GatePasses
  <2> DEFINE new == [wk[w] EXCEPT !.pc = "publication", !.todo = @ \ {t}, !.lease = l]
  <2>1. /\ new \in Worker /\ new.pc = "publication" /\ new.rec = wk[w].rec
        /\ new.fix = wk[w].fix /\ new.lease = l
    BY <1>1 DEF Worker, Labels
  <2>2. wk' = [wk EXCEPT ![w] = new]
    OBVIOUS
  <2> HIDE DEF new
  <2> QED
    BY <1>4, <2>1, <2>2, ResumeReadInv DEF GatePasses, At, ResumeLabels
<1> QED
  BY <1>3, <1>4

LEMMA SavePublicationInv ==
    ASSUME IInv, NEW w \in Workers, SavePublication(w)
    PROVE  IInv'
<1>1. wk[w] \in Worker /\ WorkerInv(w) /\ wk[w].pc = "publication" /\ published' = published
  BY DEF IInv, TypeOK, SavePublication, At, planVars
<1>2. /\ wk' \in [Workers -> Worker] /\ wk'[w] = [wk[w] EXCEPT !.pc = "complete"]
      /\ \A v \in Workers \ {w} : wk'[v] = wk[v]
  BY GotoType DEF SavePublication, Labels, IInv, TypeOK
<1>3. wk[w].lease \in LeaseIds
  BY <1>1 DEF WorkerInv
<1>4. leases' \in [LeaseIds -> Lease] /\ pubs' \subseteq LeaseIds
  BY <1>3 DEF SavePublication, IInv, TypeOK
<1>5. WorkerInv(w)'
  BY <1>1, <1>2, <1>3 DEF WorkerInv, Worker,
     PlannedLabels, OnDiskLabels, ResumeLabels, RollbackLabels
<1> QED
  BY <1>2, <1>4, <1>5, LeaseStep DEF SavePublication

LEMMA CompleteLeaseInv ==
    ASSUME IInv, NEW w \in Workers, CompleteLease(w)
    PROVE  IInv'
<1> DEFINE new == [wk[w] EXCEPT !.pc = "gate", !.lease = 0]
           lease == [leases[wk[w].lease] EXCEPT !.state = "completed", !.done = TRUE]
<1>1. wk[w] \in Worker /\ WorkerInv(w) /\ wk[w].pc = "complete" /\ published' = published
  BY DEF IInv, TypeOK, CompleteLease, At, planVars
<1>2. new \in Worker
  BY <1>1 DEF Worker, Labels
<1>3. wk' \in [Workers -> Worker] /\ wk'[w] = new /\ \A v \in Workers \ {w} : wk'[v] = wk[v]
  BY <1>2 DEF CompleteLease, IInv, TypeOK
<1>4. lease \in Lease /\ wk[w].lease \in LeaseIds
  <2>1. wk[w].lease \in LeaseIds
    BY <1>1 DEF WorkerInv
  <2>2. leases[wk[w].lease] \in Lease
    BY <2>1 DEF IInv, TypeOK
  <2> QED
    BY <2>1, <2>2 DEF Lease, LeaseStates
<1>5. leases' = [leases EXCEPT ![wk[w].lease] = lease]
  BY <1>4 DEF CompleteLease, IInv, TypeOK
<1> HIDE DEF lease
<1>6. leases' \in [LeaseIds -> Lease] /\ pubs' \subseteq LeaseIds
  BY <1>4, <1>5 DEF CompleteLease, IInv, TypeOK
<1>7. WorkerInv(w)'
  BY <1>1, <1>3 DEF WorkerInv, Worker,
     PlannedLabels, OnDiskLabels, ResumeLabels, RollbackLabels
<1> QED
  BY <1>3, <1>6, <1>7, LeaseStep DEF CompleteLease

\* A lease file that is written back with another state; both the end of a
\* failed resume and the start of a rollback do so, for each lease they hold.
LEMMA WriteBackLease ==
    ASSUME IInv, NEW w \in Workers, NEW l \in LeaseIds, NEW lease \in Lease,
           wk[w].pc \in {"invalidate", "stale_leases"},
           leases' = [leases EXCEPT ![l] = lease],
           wk' = [wk EXCEPT ![w].mine = @ \ {l}],
           UNCHANGED <<req, crashes, apps, journalVars, planVars, pubs>>
    PROVE  IInv'
<1> DEFINE new == [wk[w] EXCEPT !.mine = @ \ {l}]
<1>1. wk[w] \in Worker /\ WorkerInv(w) /\ published' = published
  BY DEF IInv, TypeOK, planVars
<1>2. new \in Worker
  BY <1>1 DEF Worker
<1>3. wk' \in [Workers -> Worker] /\ wk'[w] = new /\ \A v \in Workers \ {w} : wk'[v] = wk[v]
  BY <1>2 DEF IInv, TypeOK
<1>4. leases' \in [LeaseIds -> Lease] /\ pubs' \subseteq LeaseIds
  BY DEF IInv, TypeOK
<1>5. WorkerInv(w)'
  BY <1>1, <1>3 DEF WorkerInv, Worker,
     PlannedLabels, OnDiskLabels, ResumeLabels, RollbackLabels
<1> QED
  BY <1>3, <1>4, <1>5, LeaseStep

LEMMA InvalidateLeaseInv ==
    ASSUME IInv, NEW w \in Workers, InvalidateLease(w)
    PROVE  IInv'
<1> PICK l \in wk[w].mine :
          /\ leases' = [leases EXCEPT ![l].state = wk[w].bad]
          /\ wk' = [wk EXCEPT ![w].mine = @ \ {l}]
  BY DEF InvalidateLease
<1> DEFINE lease == [leases[l] EXCEPT !.state = wk[w].bad]
<1>1. l \in LeaseIds /\ wk[w].bad \in LeaseStates
  BY DEF IInv, TypeOK, Worker
<1>2. lease \in Lease /\ leases' = [leases EXCEPT ![l] = lease]
  BY <1>1 DEF IInv, TypeOK, Lease
<1> HIDE DEF lease
<1> QED
  BY <1>1, <1>2, WriteBackLease DEF InvalidateLease, At

\* A command whose last write is the status of its application.
LEMMA LastStatusInv ==
    ASSUME IInv, NEW w \in Workers, NEW st \in Statuses, SaveStatus(w, st), Stop(w),
           UNCHANGED <<req, crashes, journalVars, planVars, leaseVars>>
    PROVE  IInv'
<1>1. TypeOK /\ wk \in [Workers -> Worker]
  BY DEF IInv, TypeOK
<1> QED
  BY <1>1, SaveStatusType, StopType, StopInv, RecordStep

LEMMA ResumeInv ==
    ASSUME IInv, NEW w \in Workers, Resume(w)
    PROVE  IInv'
<1>1. ASSUME NEW q \in Requests, ResumeStart(w, q) PROVE IInv'
  BY <1>1, ResumeStartInv
<1>2. CASE BeginResume(w)
  <2>1. Follows("begin_resume", "lease") /\ "resuming" \in Statuses
    BY StatusesAre DEF Follows, Labels, PlannedLabels, OnDiskLabels, ResumeLabels,
       RollbackLabels
  <2> QED
    BY <1>2, <2>1, TransitionInv DEF BeginResume
<1>3. CASE ResumePointerMoved(w)
  BY <1>3, StopStepInv DEF ResumePointerMoved, IInv, TypeOK
<1>4. CASE ExecutionCompletes(w)
  <2>1. Follows("execute", "gate")
    BY DEF Follows, Labels, PlannedLabels, OnDiskLabels, ResumeLabels, RollbackLabels
  <2> QED
    BY <1>4, <2>1, GotoInv DEF ExecutionCompletes
<1>5. CASE ResumeFinish(w)
  BY <1>5, StatusesAre, LastStatusInv DEF ResumeFinish
<1>6. CASE ResumeFailed(w)
  BY <1>6, StatusesAre, LastStatusInv DEF ResumeFailed
<1> QED
  BY <1>1, <1>2, <1>3, <1>4, <1>5, <1>6, CreateLeaseInv, StartExecutionInv, ResultStepsInv,
     SavePublicationInv, CompleteLeaseInv, InvalidateLeaseInv DEF Resume

-----------------------------------------------------------------------------
(* rollback *)

LEMMA RollbackStartInv ==
    ASSUME IInv, NEW w \in Workers, NEW a \in Apps, RollbackStart(w, a)
    PROVE  IInv'
<1> DEFINE new == [IdleWorker EXCEPT !.pc = "rollback", !.app = a, !.rec = apps[a]]
<1>1. apps[a] \in AppRecord /\ apps[a].status # "none"
  BY DEF RollbackStart, RollbackFrom, IInv, TypeOK
<1>2. new \in Worker
  BY <1>1, IdleType DEF Worker, Labels
<1>3. wk' = [wk EXCEPT ![w] = new]
  BY DEF RollbackStart
<1>4. new.pc = "rollback" /\ new.fix = {} /\ new.rec = apps[a]
  BY DEF IdleWorker
<1> HIDE DEF new
<1>5. wk' \in [Workers -> Worker] /\ wk'[w] = new /\ \A v \in Workers \ {w} : wk'[v] = wk[v]
  BY <1>2, <1>3 DEF IInv, TypeOK
<1>6. WorkerInv(w)'
  BY <1>1, <1>4, <1>5 DEF WorkerInv,
     PlannedLabels, OnDiskLabels, ResumeLabels, RollbackLabels
<1> QED
  BY <1>5, <1>6, ReadStep DEF RollbackStart, IInv, TypeOK

\* The revision to roll back is the active one, and not the bootstrap revision.
LEMMA RollbackReadsInv ==
    ASSUME IInv, NEW w \in Workers, RollbackReads(w)
    PROVE  IInv'
<1> DEFINE mine == {l \in LeaseIds : leases[l].rev = active /\ leases[l].state = "active"}
           new == [wk[w] EXCEPT !.pc = "open_undo", !.mine = mine]
<1>1. /\ wk[w] \in Worker /\ WorkerInv(w) /\ wk[w].pc = "rollback"
      /\ wk[w].rec.rev \in published \ {Root}
  BY DEF RollbackReads, Undoable, At, IInv, TypeOK, RevisionStoreSound
<1>2. new \in Worker
  <2>1. mine \subseteq LeaseIds
    OBVIOUS
  <2> HIDE DEF mine
  <2> QED
    BY <1>1, <2>1 DEF Worker, Labels
<1>3. wk' = [wk EXCEPT ![w] = new]
  BY DEF RollbackReads
<1>4. /\ new.pc = "open_undo" /\ new.fix = wk[w].fix /\ new.rec = wk[w].rec
  BY <1>1 DEF Worker
<1> HIDE DEF new
<1>5. wk' \in [Workers -> Worker] /\ wk'[w] = new /\ \A v \in Workers \ {w} : wk'[v] = wk[v]
  BY <1>2, <1>3 DEF IInv, TypeOK
<1>6. published' = published
  BY DEF RollbackReads, planVars
<1>7. WorkerInv(w)'
  BY <1>1, <1>4, <1>5, <1>6 DEF WorkerInv,
     PlannedLabels, OnDiskLabels, ResumeLabels, RollbackLabels
<1> QED
  BY <1>5, <1>7, ReadStep DEF RollbackReads, IInv, TypeOK

\* The rollback transaction is saved, and the command goes on or ends.
LEMMA UndoStep ==
    ASSUME IInv, NEW w \in Workers,
           NEW phase \in {"prepared", "rolled_back", "rollback_failed"},
           undo' = [undo EXCEPT ![wk[w].app] = phase],
           UNCHANGED <<req, crashes, apps, txn, planVars, leaseVars>>,
           \/ Stop(w)
           \/ \E from, next \in Labels :
                 Follows(from, next) /\ At(w, from) /\ Goto(w, next)
    PROVE  IInv'
<1>1. wk \in [Workers -> Worker] /\ published' = published
  BY DEF IInv, TypeOK, planVars
<1>2. /\ wk' \in [Workers -> Worker]
      /\ \A v \in Workers \ {w} : wk'[v] = wk[v]
      /\ WorkerInv(w)'
  <2>1. CASE Stop(w)
    BY <1>1, <2>1, StopType, StopInv
  <2>2. CASE \E from, next \in Labels :
                 Follows(from, next) /\ At(w, from) /\ Goto(w, next)
    <3> PICK from \in Labels, next \in Labels :
                 Follows(from, next) /\ At(w, from) /\ Goto(w, next)
      BY <2>2
    <3>1. /\ wk' \in [Workers -> Worker] /\ wk'[w] = [wk[w] EXCEPT !.pc = next]
          /\ \A v \in Workers \ {w} : wk'[v] = wk[v]
      BY <1>1, GotoType
    <3> QED
      BY <1>1, <3>1, FollowsInv
  <2> QED
    BY <2>1, <2>2
<1>3. TypeOK'
  BY <1>2 DEF IInv, TypeOK, planVars, leaseVars
<1>4. JournalBehind'
  BY DEF IInv, JournalBehind, planVars
<1> QED
  BY <1>2, <1>3, <1>4, KeepPlans

LEMMA UndoStepsInv ==
    ASSUME IInv, NEW w \in Workers,
           OpenUndo(w) \/ JournalUndoFailed(w) \/ JournalUndoDone(w)
    PROVE  IInv'
<1> USE DEF Labels, Follows, PlannedLabels, OnDiskLabels, ResumeLabels, RollbackLabels
<1>1. CASE OpenUndo(w)
  <2>1. Stop(w) \/ Goto(w, "rolling_back")
    BY <1>1 DEF OpenUndo
  <2>2. Follows("open_undo", "rolling_back") /\ At(w, "open_undo")
    BY <1>1 DEF OpenUndo
  <2>3. /\ undo' = [undo EXCEPT ![wk[w].app] = "prepared"]
        /\ UNCHANGED <<req, crashes, apps, txn, planVars, leaseVars>>
    BY <1>1 DEF OpenUndo
  <2> QED
    BY <2>1, <2>2, <2>3, UndoStep
<1>2. CASE JournalUndoFailed(w)
  <2>1. Follows("undo_failed", "rollback_failed") /\ At(w, "undo_failed")
    BY <1>2 DEF JournalUndoFailed
  <2> QED
    BY <1>2, <2>1, UndoStep DEF JournalUndoFailed
<1>3. CASE JournalUndoDone(w)
  <2>1. Follows("undo_done", "rolled_back") /\ At(w, "undo_done")
    BY <1>3 DEF JournalUndoDone
  <2> QED
    BY <1>3, <2>1, UndoStep DEF JournalUndoDone
<1> QED
  BY <1>1, <1>2, <1>3

LEMMA StaleLeaseInv ==
    ASSUME IInv, NEW w \in Workers, StaleLease(w)
    PROVE  IInv'
<1> PICK l \in wk[w].mine :
          /\ leases' = [leases EXCEPT ![l].state = "stale", ![l].done = FALSE]
          /\ wk' = [wk EXCEPT ![w].mine = @ \ {l}]
  BY DEF StaleLease
<1> DEFINE lease == [leases[l] EXCEPT !.state = "stale", !.done = FALSE]
<1>1. l \in LeaseIds
  BY DEF IInv, TypeOK, Worker
<1>2. lease \in Lease /\ leases' = [leases EXCEPT ![l] = lease]
  BY <1>1 DEF IInv, TypeOK, Lease, LeaseStates
<1> HIDE DEF lease
<1> QED
  BY <1>1, <1>2, WriteBackLease DEF StaleLease, At

LEMMA RestorePointerInv ==
    ASSUME IInv, NEW w \in Workers, RestorePointer(w)
    PROVE  IInv'
<1>1. WorkerInv(w) /\ At(w, "restore") /\ wk[w].rec.rev \in published \ {Root}
  BY DEF IInv, RestorePointer, At, WorkerInv, RollbackLabels
<1>2. /\ published' = published /\ revs' = revs /\ apps' = apps /\ txn' = txn
      /\ active' = revs[wk[w].rec.rev].parent
  BY DEF RestorePointer, journalVars
<1>3. active' \in published
  BY <1>1, <1>2 DEF IInv, RevisionStoreSound
<1>4. /\ wk' \in [Workers -> Worker] /\ wk'[w] = [wk[w] EXCEPT !.pc = "undo_done"]
      /\ \A v \in Workers \ {w} : wk'[v] = wk[v]
  BY GotoType DEF RestorePointer, Labels, IInv, TypeOK
<1>5. TypeOK'
  BY <1>2, <1>3, <1>4 DEF IInv, TypeOK, RestorePointer, journalVars, leaseVars
<1>6. RevisionStoreSound' /\ CreatedFirst' /\ JournalBehind'
  BY <1>2, <1>3 DEF IInv, RevisionStoreSound, CreatedFirst, JournalBehind
<1>7. Follows("restore", "undo_done")
  BY DEF Follows, Labels, PlannedLabels, OnDiskLabels, ResumeLabels, RollbackLabels
<1>8. WorkerInv(w)'
  BY <1>1, <1>2, <1>4, <1>7, FollowsInv
<1>9. \A v \in Workers : WorkerInv(v)'
  BY <1>2, <1>4, <1>8, OthersKeep DEF IInv
<1> QED
  BY <1>5, <1>6, <1>9 DEF IInv

LEMMA RetargetRecordInv ==
    ASSUME IInv, NEW w \in Workers, RetargetRecord(w)
    PROVE  IInv'
<1> DEFINE rec == [wk[w].rec EXCEPT !.rev = revs[wk[w].rec.rev].parent]
<1>1. wk[w] \in Worker /\ wk[w].rec.status # "none" /\ wk[w].rec.rev \in Revs
  BY DEF IInv, TypeOK, RetargetRecord, At, WorkerInv, RollbackLabels
<1>2. revs[wk[w].rec.rev].parent \in Revs \cup {NoRev}
  BY <1>1 DEF IInv, TypeOK, Revision
<1>3. rec \in AppRecord /\ rec.status # "none"
  BY <1>1, <1>2 DEF Worker, AppRecord
<1>4. apps' = [apps EXCEPT ![wk[w].app] = rec]
  BY DEF RetargetRecord
<1> HIDE DEF rec
<1>5. /\ apps' \in [Apps -> AppRecord]
      /\ \A a \in Apps : apps[a].status # "none" => apps'[a].status # "none"
  BY <1>3, <1>4 DEF IInv, TypeOK
<1> QED
  BY <1>5, StopType, StopInv, RecordStep DEF RetargetRecord, IInv, TypeOK

LEMMA RollbackInv ==
    ASSUME IInv, NEW w \in Workers, Rollback(w)
    PROVE  IInv'
<1> USE DEF Labels, Follows, PlannedLabels, OnDiskLabels, ResumeLabels, RollbackLabels
<1>1. ASSUME NEW a \in Apps, RollbackStart(w, a) PROVE IInv'
  BY <1>1, RollbackStartInv
<1>2. CASE BeginRollback(w)
  <2>1. Follows("rolling_back", "stale_leases") /\ "rolling_back" \in Statuses
    BY StatusesAre
  <2> QED
    BY <1>2, <2>1, TransitionInv DEF BeginRollback
<1>3. CASE RecheckPointer(w)
  <2>1. Follows("stale_leases", "restore") /\ Follows("stale_leases", "undo_failed")
    OBVIOUS
  <2>2. \E next \in {"restore", "undo_failed"} : Goto(w, next)
    BY <1>3 DEF RecheckPointer
  <2> QED
    BY <1>3, <2>1, <2>2, GotoInv DEF RecheckPointer
<1>4. CASE RollbackFailed(w)
  BY <1>4, StatusesAre, LastStatusInv DEF RollbackFailed
<1>5. CASE MarkRolledBack(w)
  <2>1. Follows("rolled_back", "retarget") /\ "rolled_back" \in Statuses
    BY StatusesAre
  <2> QED
    BY <1>5, <2>1, TransitionInv DEF MarkRolledBack
<1>6. CASE RollbackRefused(w)
  BY <1>6, StopStepInv DEF RollbackRefused, IInv, TypeOK
<1> QED
  BY <1>1, <1>2, <1>3, <1>4, <1>5, <1>6, RollbackReadsInv, UndoStepsInv, StaleLeaseInv,
     RestorePointerInv, RetargetRecordInv DEF Rollback

-----------------------------------------------------------------------------
(* recover *)

\* What recover plans to move forward is published, the journal says so.
LEMMA RecoverScanInv ==
    ASSUME IInv, NEW w \in Workers, RecoverScan(w)
    PROVE  IInv'
<1> DEFINE fixes == [kind: {"fail"}, app: {a \in Apps : Interrupted(a)}]
                    \cup [kind: {"point"}, app: {a \in Apps : PointerPending(a)}]
                    \cup [kind: {"finish"}, app: {a \in Apps : StatusPending(a)}]
           new == [IdleWorker EXCEPT !.pc = "recover", !.fix = fixes]
<1>1. fixes \subseteq Fixes
  BY DEF Fixes
<1>2. \A f \in fixes : f.kind = "point" => f.app \in published
  BY DEF PointerPending, IInv, JournalBehind, Published
<1>3. wk' = [wk EXCEPT ![w] = new]
  BY DEF RecoverScan
<1> HIDE DEF fixes
<1>4. new \in Worker
  BY <1>1, IdleType DEF Worker, Labels
<1>5. new.pc = "recover" /\ new.fix = fixes
  BY DEF IdleWorker
<1> HIDE DEF new
<1>6. wk' \in [Workers -> Worker] /\ wk'[w] = new /\ \A v \in Workers \ {w} : wk'[v] = wk[v]
  BY <1>3, <1>4 DEF IInv, TypeOK
<1>7. published' = published
  BY DEF RecoverScan, planVars
<1>8. WorkerInv(w)'
  BY <1>2, <1>5, <1>6, <1>7 DEF WorkerInv,
     PlannedLabels, OnDiskLabels, ResumeLabels, RollbackLabels
<1> QED
  BY <1>6, <1>8, ReadStep DEF RecoverScan, IInv, TypeOK

LEMMA RecoverWriteInv ==
    ASSUME IInv, NEW w \in Workers, RecoverWrite(w)
    PROVE  IInv'
<1> PICK f \in wk[w].fix :
          /\ active' = IF f.kind = "point" THEN f.app ELSE active
          /\ apps' = IF f.kind = "point" THEN apps ELSE [apps EXCEPT ![f.app] = Repaired(f)]
          /\ wk' = [wk EXCEPT ![w].fix = @ \ {f}]
  BY DEF RecoverWrite
<1> DEFINE new == [wk[w] EXCEPT !.fix = @ \ {f}]
<1>1. /\ wk[w] \in Worker /\ WorkerInv(w) /\ wk[w].pc = "recover" /\ txn' = txn
      /\ published' = published /\ revs' = revs
  BY DEF IInv, TypeOK, RecoverWrite, At, journalVars
<1>2. f \in Fixes /\ f.app \in Apps
  BY <1>1 DEF Worker, Fixes
<1>3. active' \in published
  BY <1>1 DEF WorkerInv, IInv, RevisionStoreSound
<1>4. Repaired(f) \in AppRecord /\ Repaired(f).status # "none"
  <2>1. apps[f.app] \in AppRecord /\ f.app \in Revs
    BY <1>2, RevsAndApps DEF IInv, TypeOK
  <2>2. {"application_validation_failed", "applied"} \subseteq Statuses \ {"none"}
    BY StatusesAre
  <2>3. \A st \in Statuses \ {"none"}, r \in Revs \cup {NoRev} :
           /\ [apps[f.app] EXCEPT !.status = st, !.rev = r, !.eligible = FALSE] \in AppRecord
           /\ [apps[f.app] EXCEPT !.status = st, !.rev = r, !.eligible = FALSE].status # "none"
    BY <2>1 DEF AppRecord
  <2>4. CASE f.kind = "fail"
    BY <2>1, <2>2, <2>3, <2>4 DEF Repaired
  <2>5. CASE f.kind # "fail"
    BY <2>1, <2>2, <2>3, <2>5 DEF Repaired
  <2> QED
    BY <2>4, <2>5
<1>5. /\ apps' \in [Apps -> AppRecord]
      /\ \A a \in Apps : apps[a].status # "none" => apps'[a].status # "none"
  BY <1>4 DEF IInv, TypeOK
<1>6. new \in Worker
  BY <1>1 DEF Worker
<1>7. wk' \in [Workers -> Worker] /\ wk'[w] = new /\ \A v \in Workers \ {w} : wk'[v] = wk[v]
  BY <1>6 DEF IInv, TypeOK
<1>8. WorkerInv(w)'
  BY <1>1, <1>7 DEF WorkerInv, Worker,
     PlannedLabels, OnDiskLabels, ResumeLabels, RollbackLabels
<1>9. TypeOK'
  BY <1>1, <1>3, <1>5, <1>7 DEF IInv, TypeOK, RecoverWrite, journalVars, leaseVars
<1>10. RevisionStoreSound' /\ CreatedFirst' /\ JournalBehind'
  BY <1>1, <1>3, <1>5, RevsAndApps
     DEF IInv, TypeOK, RevisionStoreSound, CreatedFirst, JournalBehind
<1>11. \A v \in Workers : WorkerInv(v)'
  BY <1>1, <1>5, <1>7, <1>8, OthersKeep DEF IInv
<1> QED
  BY <1>9, <1>10, <1>11 DEF IInv

-----------------------------------------------------------------------------
(* The theorems *)

LEMMA InitInv == Init => IInv
<1> SUFFICES ASSUME Init PROVE IInv
  OBVIOUS
<1>1. TypeOK
  BY RevsAndApps, IdleType DEF Init, TypeOK, NoApp, AppRecord, NoTxn, Transaction, Phases,
     NoRevision, Revision, NoLease, Lease, LeaseStates
<1>2. RevisionStoreSound /\ CreatedFirst
  BY RevsAndApps DEF Init, RevisionStoreSound, CreatedFirst, NoRevision
<1>3. JournalBehind
  BY DEF Init, JournalBehind, NoTxn, Published
<1>4. \A w \in Workers : WorkerInv(w)
  BY DEF Init, WorkerInv, IdleWorker, PlannedLabels, OnDiskLabels, ResumeLabels, RollbackLabels
<1> QED
  BY <1>1, <1>2, <1>3, <1>4 DEF IInv

LEMMA NextInv == IInv /\ [Next]_vars => IInv'
<1> SUFFICES ASSUME IInv, [Next]_vars PROVE IInv'
  OBVIOUS
<1>1. ASSUME NEW w \in Workers, NEW q \in Requests, ImportResponse(w, q) PROVE IInv'
  BY <1>1, ImportResponseInv
<1>2. ASSUME NEW w \in Workers, Recover(w) PROVE IInv'
  <2>1. CASE RecoverDone(w)
    BY <2>1, StopStepInv DEF RecoverDone, IInv, TypeOK
  <2> QED
    BY <1>2, <2>1, RecoverScanInv, RecoverWriteInv DEF Recover
<1>3. ASSUME NEW w \in Workers, Crash(w) \/ OutOfIds(w) PROVE IInv'
  <2>1. crashes' \in 0..MaxCrashes
    BY <1>3, RevsAndApps DEF Crash, OutOfIds, IInv, TypeOK
  <2> QED
    BY <1>3, <2>1, StopStepInv DEF Crash, OutOfIds
<1>4. CASE UNCHANGED vars
  BY <1>4 DEF vars, IInv, TypeOK, RevisionStoreSound, CreatedFirst, JournalBehind, WorkerInv
<1> QED
  BY <1>1, <1>2, <1>3, <1>4, ApplyInv, ResumeInv, RollbackInv DEF Next

LEMMA Invariance == Spec => []IInv
BY InitInv, NextInv, PTL DEF Spec

\* The files and the processes keep their types (the records of models.py, the
\* states of state_machine.py), however many commands run at the same time.
THEOREM TypeCorrect == Spec => []TypeOK
<1>1. IInv => TypeOK
  BY DEF IInv
<1> QED
  BY <1>1, Invariance, PTL

\* The active pointer always names a revision file that is there, and so does
\* every parent down to the bootstrap revision: whatever the interleaving of
\* apply, resume, rollback and recover and wherever they die, the plan can be
\* loaded and a rollback finds what it restores.
THEOREM StoreSound == Spec => []RevisionStoreSound
<1>1. IInv => RevisionStoreSound
  BY DEF IInv
<1> QED
  BY <1>1, Invariance, PTL

-----------------------------------------------------------------------------
(* The journal and the revision files *)

UnwrittenLabels == PlannedLabels \ OnDiskLabels

\* One command at a time has its part in an application, from its record to its commit.
Owns(w, a) == wk[w].pc \in PlannedLabels /\ wk[w].app = a

\* Before its revision is written nobody has written it, and its graph is validated first.
OrderInv ==
    /\ JournalOrder
    /\ \A v, w \in Workers, a \in Apps : Owns(v, a) /\ Owns(w, a) => v = w
    /\ \A w \in Workers :
          /\ wk[w].pc \in UnwrittenLabels => wk[w].app \notin published
          /\ wk[w].pc = "publish" => txn[wk[w].app].phase = "revision_validated"

\* What a process holds besides its label and its copy of the record.
Same(w) ==
    /\ wk'[w].app = wk[w].app /\ wk'[w].src = wk[w].src /\ wk'[w].todo = wk[w].todo
    /\ wk'[w].mine = wk[w].mine /\ wk'[w].lease = wk[w].lease /\ wk'[w].bad = wk[w].bad
    /\ wk'[w].fix = wk[w].fix

LEMMA GotoIs ==
    ASSUME TypeOK, NEW w \in Workers, NEW next, Goto(w, next)
    PROVE  /\ wk'[w].pc = next /\ wk'[w].rec = wk[w].rec /\ Same(w)
           /\ \A v \in Workers \ {w} : wk'[v] = wk[v]
<1>1. wk[w] \in Worker /\ wk' = [wk EXCEPT ![w] = [wk[w] EXCEPT !.pc = next]] /\ wk \in [Workers -> Worker]
  BY DEF TypeOK, Goto
<1> QED
  BY <1>1 DEF Same, Worker

LEMMA TransitionIs ==
    ASSUME TypeOK, NEW w \in Workers, NEW st, NEW next, Transition(w, st, next)
    PROVE  /\ wk'[w].pc = next /\ wk'[w].rec = [wk[w].rec EXCEPT !.status = st] /\ Same(w)
           /\ \A v \in Workers \ {w} : wk'[v] = wk[v]
<1> DEFINE rec == [wk[w].rec EXCEPT !.status = st]
<1>1. wk[w] \in Worker /\ wk \in [Workers -> Worker]
  BY DEF TypeOK
<1>2. wk' = [wk EXCEPT ![w] = [wk[w] EXCEPT !.pc = next, !.rec = rec]]
  BY DEF Transition
<1> HIDE DEF rec
<1>3. /\ wk'[w].pc = next /\ wk'[w].rec = rec /\ Same(w)
      /\ \A v \in Workers \ {w} : wk'[v] = wk[v]
  BY <1>1, <1>2 DEF Same, Worker
<1> QED
  BY <1>3 DEF rec

LEMMA StopIs ==
    ASSUME TypeOK, NEW w \in Workers, Stop(w)
    PROVE  wk'[w] = IdleWorker /\ \A v \in Workers \ {w} : wk'[v] = wk[v]
BY DEF TypeOK, Stop

\* Labels that the parts of a command do not share.
LEMMA LabelsApart ==
    /\ {"idle", "save_plan", "rollback", "recover"} \cap (PlannedLabels \cup ResumeLabels \cup RollbackLabels) = {}
    /\ PlannedLabels \cap ResumeLabels = {} /\ PlannedLabels \cap RollbackLabels = {}
    /\ ResumeLabels \cap RollbackLabels = {}
BY DEF PlannedLabels, OnDiskLabels, ResumeLabels, RollbackLabels

\* A step that writes neither the journal nor a revision file: the process leaves
\* plan_apply, or goes on with the same application.
LEMMA OrderKept ==
    ASSUME OrderInv, NEW w \in Workers, UNCHANGED <<txn, published>>,
           \A v \in Workers \ {w} : wk'[v] = wk[v],
           \/ wk'[w].pc \notin PlannedLabels
           \/ /\ wk[w].pc \in PlannedLabels /\ wk'[w].pc \in PlannedLabels \ {"publish"}
              /\ wk'[w].app = wk[w].app
              /\ wk'[w].pc \in UnwrittenLabels => wk[w].pc \in UnwrittenLabels
    PROVE  OrderInv'
<1>1. JournalOrder'
  BY DEF OrderInv, JournalOrder
<1>2. \A v \in Workers, a \in Apps : Owns(v, a)' => Owns(v, a)
  BY DEF Owns
<1>3. ASSUME NEW v \in Workers
      PROVE  /\ wk'[v].pc \in UnwrittenLabels => wk'[v].app \notin published'
             /\ wk'[v].pc = "publish" => txn'[wk'[v].app].phase = "revision_validated"
  <2>1. CASE v = w
    BY <2>1 DEF OrderInv, UnwrittenLabels, PlannedLabels
  <2>2. CASE v # w
    BY <2>2 DEF OrderInv
  <2> QED
    BY <2>1, <2>2
<1> QED
  BY <1>1, <1>2, <1>3 DEF OrderInv

\* A phase of the journal that fits what is on disk.
LEMMA OrderJournal ==
    ASSUME IInv, OrderInv, NEW w \in Workers, NEW phase \in Phases,
           wk[w].pc \in PlannedLabels, published' = published,
           txn'[wk[w].app].phase = phase,
           \A a \in Apps \ {wk[w].app} : txn'[a] = txn[a],
           \A v \in Workers \ {w} : wk'[v] = wk[v],
           wk[w].pc \in OnDiskLabels => phase \in Published,
           wk[w].pc \in UnwrittenLabels => phase \notin Published,
           \/ wk'[w].pc \notin PlannedLabels
           \/ /\ wk'[w].pc \in PlannedLabels /\ wk'[w].app = wk[w].app
              /\ wk'[w].pc \in UnwrittenLabels => wk[w].pc \in UnwrittenLabels
              /\ wk'[w].pc = "publish" => phase = "revision_validated"
    PROVE  OrderInv'
<1>1. wk[w].app \in Apps /\ (wk[w].pc \in OnDiskLabels => wk[w].app \in published)
      /\ (wk[w].pc \in UnwrittenLabels => wk[w].app \notin published)
  BY DEF IInv, WorkerInv, OrderInv
<1>2. wk[w].pc \in OnDiskLabels \cup UnwrittenLabels
  BY DEF UnwrittenLabels
<1>3. JournalOrder'
  BY <1>1, <1>2 DEF OrderInv, JournalOrder
<1>4. \A v \in Workers, a \in Apps : Owns(v, a)' => Owns(v, a)
  BY DEF Owns
<1>5. ASSUME NEW v \in Workers
      PROVE  /\ wk'[v].pc \in UnwrittenLabels => wk'[v].app \notin published'
             /\ wk'[v].pc = "publish" => txn'[wk'[v].app].phase = "revision_validated"
  <2>1. CASE v = w
    BY <1>1, <2>1 DEF OrderInv, UnwrittenLabels, PlannedLabels
  <2>2. CASE v # w /\ wk[v].pc \notin PlannedLabels
    BY <2>2 DEF UnwrittenLabels, PlannedLabels
  <2>3. CASE v # w /\ wk[v].pc \in PlannedLabels
    <3>1. wk[v].app \in Apps \ {wk[w].app}
      BY <1>1, <2>3 DEF IInv, WorkerInv, OrderInv, Owns
    <3> QED
      BY <2>3, <3>1 DEF OrderInv
  <2> QED
    BY <2>1, <2>2, <2>3
<1> QED
  BY <1>3, <1>4, <1>5 DEF OrderInv

\* resume, rollback and recover write neither the journal nor a revision file.
LEMMA OutsidePlan ==
    ASSUME TypeOK, NEW w \in Workers, Resume(w) \/ Rollback(w) \/ Recover(w)
    PROVE  /\ UNCHANGED <<txn, published, revs>> /\ wk'[w].pc \notin PlannedLabels
           /\ \A v \in Workers \ {w} : wk'[v] = wk[v]
<1> DEFINE Quiet == /\ UNCHANGED <<txn, published, revs>> /\ wk'[w].pc \notin PlannedLabels
                    /\ \A v \in Workers \ {w} : wk'[v] = wk[v]
<1> USE DEF PlannedLabels, OnDiskLabels, At, journalVars, planVars
<1>1. wk[w] \in Worker /\ wk \in [Workers -> Worker] /\ IdleWorker.pc = "idle"
  BY DEF TypeOK, IdleWorker
<1>2. CASE \/ \E q \in Requests : ResumeStart(w, q)
           \/ \E a \in Apps : RollbackStart(w, a)
           \/ RollbackReads(w) \/ RecoverScan(w)
  <2>1. CASE \E q \in Requests : ResumeStart(w, q)
    BY <1>1, <2>1 DEF ResumeStart, IdleWorker
  <2>2. CASE \E a \in Apps : RollbackStart(w, a)
    BY <1>1, <2>2 DEF RollbackStart, IdleWorker
  <2>3. CASE RollbackReads(w)
    BY <1>1, <2>3 DEF RollbackReads, Worker
  <2>4. CASE RecoverScan(w)
    <3> DEFINE fixes == [kind: {"fail"}, app: {a \in Apps : Interrupted(a)}]
                        \cup [kind: {"point"}, app: {a \in Apps : PointerPending(a)}]
                        \cup [kind: {"finish"}, app: {a \in Apps : StatusPending(a)}]
    <3>1. wk' = [wk EXCEPT ![w] = [IdleWorker EXCEPT !.pc = "recover", !.fix = fixes]]
      BY <2>4 DEF RecoverScan
    <3> HIDE DEF fixes
    <3> QED
      BY <1>1, <2>4, <3>1 DEF RecoverScan, IdleWorker
  <2> QED
    BY <1>2, <2>1, <2>2, <2>3, <2>4
<1>3. CASE BeginResume(w) \/ BeginRollback(w) \/ MarkRolledBack(w)
  <2>1. \E st, next : Transition(w, st, next) /\ next \notin PlannedLabels
    BY <1>3 DEF BeginResume, BeginRollback, MarkRolledBack
  <2> QED
    BY <1>3, <2>1, TransitionIs DEF BeginResume, BeginRollback, MarkRolledBack
<1>4. CASE CreateLease(w) \/ StartExecution(w) \/ ExecutionFails(w) \/ GatePasses(w) \/ GateRejects(w)
           \/ CompleteLease(w)
  <2>1. CASE CreateLease(w)
    BY <1>1, <2>1 DEF CreateLease, Worker
  <2>2. CASE StartExecution(w)
    BY <1>1, <2>2 DEF StartExecution, Worker
  <2>3. CASE ExecutionFails(w) \/ GateRejects(w)
    BY <1>1, <2>3 DEF ExecutionFails, GateRejects, Worker
  <2>4. CASE GatePasses(w)
    BY <1>1, <2>4 DEF GatePasses, Worker
  <2>5. CASE CompleteLease(w)
    BY <1>1, <2>5 DEF CompleteLease, Worker
  <2> QED
    BY <1>4, <2>1, <2>2, <2>3, <2>4, <2>5
<1>5. CASE ExecutionCompletes(w) \/ SavePublication(w) \/ RecheckPointer(w) \/ JournalUndoFailed(w)
           \/ RestorePointer(w) \/ JournalUndoDone(w)
  <2>1. \E next : Goto(w, next) /\ next \notin PlannedLabels
    BY <1>5 DEF ExecutionCompletes, SavePublication, RecheckPointer, JournalUndoFailed, RestorePointer,
                JournalUndoDone
  <2> QED
    BY <1>5, <2>1, GotoIs DEF ExecutionCompletes, SavePublication, RecheckPointer, JournalUndoFailed,
                              RestorePointer, JournalUndoDone
<1>6. CASE InvalidateLease(w) \/ StaleLease(w) \/ RecoverWrite(w)
  BY <1>1, <1>6 DEF InvalidateLease, StaleLease, RecoverWrite, Worker
<1>7. CASE ResumePointerMoved(w) \/ ResumeFinish(w) \/ ResumeFailed(w) \/ RollbackRefused(w)
           \/ RollbackFailed(w) \/ RetargetRecord(w) \/ RecoverDone(w)
  <2>1. Stop(w)
    BY <1>7 DEF ResumePointerMoved, ResumeFinish, ResumeFailed, RollbackRefused, RollbackFailed,
                RetargetRecord, RecoverDone
  <2> QED
    BY <1>1, <1>7, <2>1, StopIs DEF ResumePointerMoved, ResumeFinish, ResumeFailed, RollbackRefused,
                                    RollbackFailed, RetargetRecord, RecoverDone
<1>8. CASE OpenUndo(w)
  <2>1. Stop(w) \/ Goto(w, "rolling_back")
    BY <1>8 DEF OpenUndo
  <2> QED
    BY <1>1, <1>8, <2>1, StopIs, GotoIs DEF OpenUndo
<1> QED
  BY <1>2, <1>3, <1>4, <1>5, <1>6, <1>7, <1>8 DEF Resume, Rollback, Recover

\* The steps of plan_apply that write neither.
LEMMA OrderQuiet ==
    ASSUME IInv, OrderInv, NEW w \in Workers,
           \/ \E q \in Requests : PlanApply(w, q)
           \/ ReadyToApply(w) \/ BeginApplying(w) \/ GraphRejected(w) \/ PointerUnchanged(w)
           \/ PointerMoved(w) \/ SetPointer(w) \/ MarkApplied(w) \/ FinalizeRecord(w) \/ OfferResume(w)
    PROVE  OrderInv'
<1> USE DEF PlannedLabels, OnDiskLabels, UnwrittenLabels, At, journalVars, planVars
<1>1. TypeOK /\ wk[w] \in Worker /\ wk \in [Workers -> Worker] /\ IdleWorker.pc = "idle"
  BY DEF IInv, TypeOK, IdleWorker
<1>2. CASE \E q \in Requests : PlanApply(w, q)
  <2>1. /\ wk'[w].pc = "save_plan" /\ UNCHANGED <<txn, published>>
        /\ \A v \in Workers \ {w} : wk'[v] = wk[v]
    BY <1>1, <1>2 DEF PlanApply, IdleWorker
  <2> QED
    BY <2>1, OrderKept
<1>3. CASE GraphRejected(w) \/ PointerMoved(w)
  <2>1. Stop(w) /\ UNCHANGED <<txn, published>>
    BY <1>3 DEF GraphRejected, PointerMoved
  <2> QED
    BY <1>1, <2>1, StopIs, OrderKept
<1>4. CASE ReadyToApply(w) \/ BeginApplying(w) \/ MarkApplied(w) \/ OfferResume(w)
  <2>1. PICK st, next : /\ Transition(w, st, next) /\ UNCHANGED <<txn, published>>
                        /\ \/ wk[w].pc \in {"ready", "applying"} /\ next \in {"open_txn", "prepared"}
                           \/ wk[w].pc \in {"applied", "pending"} /\ next \in {"finalize", "commit"}
    BY <1>4 DEF ReadyToApply, BeginApplying, MarkApplied, OfferResume
  <2>2. /\ wk'[w].pc = next /\ wk'[w].app = wk[w].app
        /\ \A v \in Workers \ {w} : wk'[v] = wk[v]
    <3>1. TypeOK /\ Transition(w, st, next)
      BY <1>1, <2>1
    <3>2. wk'[w].pc = next /\ Same(w) /\ \A v \in Workers \ {w} : wk'[v] = wk[v]
      BY <3>1, TransitionIs
    <3> QED
      BY <3>2 DEF Same
  <2> QED
    BY <2>1, <2>2, OrderKept
<1>5. CASE PointerUnchanged(w) \/ SetPointer(w)
  <2>1. PICK next \in {"set_pointer", "pointed"} :
           Goto(w, next) /\ UNCHANGED <<txn, published>> /\ wk[w].pc \in {"check_pointer", "set_pointer"}
    BY <1>5 DEF PointerUnchanged, SetPointer
  <2>2. /\ wk'[w].pc = next /\ wk'[w].app = wk[w].app
        /\ \A v \in Workers \ {w} : wk'[v] = wk[v]
    BY <1>1, <2>1, GotoIs DEF Same
  <2> QED
    BY <2>1, <2>2, OrderKept
<1>6. CASE FinalizeRecord(w)
  <2>1. /\ wk'[w].pc = "updated" /\ wk'[w].app = wk[w].app /\ wk[w].pc = "finalize"
        /\ \A v \in Workers \ {w} : wk'[v] = wk[v]
        /\ UNCHANGED <<txn, published>>
    BY <1>1, <1>6 DEF FinalizeRecord, Worker
  <2> QED
    BY <2>1, OrderKept
<1> QED
  BY <1>2, <1>3, <1>4, <1>5, <1>6

\* A fresh id: no command has it, no revision has it.
LEMMA OrderSavePlan ==
    ASSUME IInv, OrderInv, NEW w \in Workers, SavePlan(w)
    PROVE  OrderInv'
<1>1. PICK a \in Apps : /\ \A b \in Apps : (apps[b].status = "none") <=> (b >= a)
                        /\ wk' = [wk EXCEPT ![w].pc = "ready", ![w].app = a]
  BY DEF SavePlan
<1>2. /\ wk[w] \in Worker /\ wk \in [Workers -> Worker] /\ UNCHANGED <<txn, published>>
      /\ a \in Nat
  BY RevsAndApps DEF SavePlan, IInv, TypeOK, journalVars, planVars, Apps
<1>3. /\ wk'[w].pc = "ready" /\ wk'[w].app = a
      /\ \A v \in Workers \ {w} : wk'[v] = wk[v]
  BY <1>1, <1>2 DEF Worker
<1>4. apps[a].status = "none"
  BY <1>1, <1>2
<1>5. a \notin published
  BY <1>4, RevsAndApps DEF IInv, CreatedFirst
<1>6. \A v \in Workers : ~Owns(v, a)
  BY <1>4 DEF IInv, WorkerInv, Owns
<1>7. JournalOrder'
  BY <1>2 DEF OrderInv, JournalOrder
<1>8. \A v \in Workers, b \in Apps : Owns(v, b)' => IF v = w THEN b = a ELSE b # a /\ Owns(v, b)
  BY <1>3, <1>6 DEF Owns
<1>9. ASSUME NEW v \in Workers
      PROVE  /\ wk'[v].pc \in UnwrittenLabels => wk'[v].app \notin published'
             /\ wk'[v].pc = "publish" => txn'[wk'[v].app].phase = "revision_validated"
  BY <1>2, <1>3, <1>5 DEF OrderInv
<1> QED
  BY <1>7, <1>8, <1>9 DEF OrderInv

LEMMA OrderJournals ==
    ASSUME IInv, OrderInv, NEW w \in Workers,
           \/ OpenTransaction(w) \/ Commit(w)
           \/ JournalPrepared(w) \/ JournalWritten(w) \/ GraphAccepted(w)
           \/ JournalPublished(w) \/ JournalPointer(w) \/ JournalUpdated(w) \/ JournalAudited(w)
    PROVE  OrderInv'
<1>1. /\ TypeOK /\ wk[w] \in Worker /\ IdleWorker.pc = "idle" /\ wk[w].pc \in PlannedLabels
      /\ wk[w].app \in Apps /\ published' = published
  BY DEF IInv, TypeOK, IdleWorker, WorkerInv, PlannedLabels, OnDiskLabels, At, planVars, OpenTransaction,
         Commit, JournalPrepared, JournalWritten, GraphAccepted, JournalPublished, JournalPointer,
         JournalUpdated, JournalAudited, Journal
<1>2. CASE OpenTransaction(w)
  <2>1. /\ txn'[wk[w].app].phase = "prepared" /\ \A a \in Apps \ {wk[w].app} : txn'[a] = txn[a]
        /\ Goto(w, "applying") /\ wk[w].pc = "open_txn"
    BY <1>1, <1>2 DEF OpenTransaction, TypeOK, At
  <2>2. /\ wk'[w].pc = "applying" /\ wk'[w].app = wk[w].app
        /\ \A v \in Workers \ {w} : wk'[v] = wk[v]
    BY <1>1, <2>1, GotoIs DEF Same
  <2> QED
    BY <1>1, <2>1, <2>2, OrderJournal
       DEF Phases, Published, PlannedLabels, OnDiskLabels, UnwrittenLabels
<1>3. ASSUME NEW phase, SavePhase(w, phase)
      PROVE  txn'[wk[w].app].phase = phase /\ \A a \in Apps \ {wk[w].app} : txn'[a] = txn[a]
  BY <1>1, <1>3 DEF SavePhase, TypeOK, Transaction
<1>4. CASE Commit(w)
  <2>1. Stop(w) /\ SavePhase(w, "committed") /\ wk[w].pc = "commit"
    BY <1>4 DEF Commit, At
  <2>2. wk'[w].pc = "idle" /\ \A v \in Workers \ {w} : wk'[v] = wk[v]
    BY <1>1, <2>1, StopIs
  <2>3. txn'[wk[w].app].phase = "committed" /\ \A a \in Apps \ {wk[w].app} : txn'[a] = txn[a]
    BY <2>1, <1>3
  <2> QED
    BY <1>1, <2>1, <2>2, <2>3, OrderJournal
       DEF Phases, Published, PlannedLabels, OnDiskLabels, UnwrittenLabels
<1>5. ASSUME NEW from \in PlannedLabels, NEW phase \in Phases, NEW next \in PlannedLabels,
             Journal(w, from, phase, next), from \in OnDiskLabels <=> phase \in Published,
             next \in UnwrittenLabels => from \in UnwrittenLabels,
             next = "publish" => phase = "revision_validated"
      PROVE  OrderInv'
  <2>1. Goto(w, next) /\ SavePhase(w, phase) /\ wk[w].pc = from
    BY <1>5 DEF Journal, At
  <2>2. /\ wk'[w].pc = next /\ wk'[w].app = wk[w].app
        /\ \A v \in Workers \ {w} : wk'[v] = wk[v]
    BY <1>1, <2>1, GotoIs DEF Same
  <2>3. txn'[wk[w].app].phase = phase /\ \A a \in Apps \ {wk[w].app} : txn'[a] = txn[a]
    BY <2>1, <1>3
  <2>4. wk[w].pc \in UnwrittenLabels => phase \notin Published
    BY <1>5, <2>1 DEF UnwrittenLabels
  <2> QED
    BY <1>1, <1>5, <2>1, <2>2, <2>3, <2>4, OrderJournal
<1> USE DEF Phases, Published, PlannedLabels, OnDiskLabels, UnwrittenLabels
<1>6. CASE JournalPrepared(w) \/ JournalWritten(w) \/ GraphAccepted(w)
  BY <1>5, <1>6 DEF JournalPrepared, JournalWritten, GraphAccepted
<1>7. CASE JournalPublished(w) \/ JournalPointer(w) \/ JournalUpdated(w)
  BY <1>5, <1>7 DEF JournalPublished, JournalPointer, JournalUpdated
<1>8. CASE JournalAudited(w)
  BY <1>5, <1>8 DEF JournalAudited
<1> QED
  BY <1>2, <1>4, <1>6, <1>7, <1>8

LEMMA OrderPublish ==
    ASSUME IInv, OrderInv, NEW w \in Workers, PublishRevision(w)
    PROVE  OrderInv'
<1>1. /\ TypeOK /\ wk[w].pc = "publish" /\ Goto(w, "published") /\ txn' = txn
      /\ published' = published \cup {wk[w].app} /\ wk[w].app \in Apps
      /\ txn[wk[w].app].phase = "revision_validated"
  BY DEF PublishRevision, At, journalVars, IInv, WorkerInv, PlannedLabels, OrderInv
<1>2. /\ wk'[w].pc = "published" /\ wk'[w].app = wk[w].app
      /\ \A v \in Workers \ {w} : wk'[v] = wk[v]
  BY <1>1, GotoIs DEF Same
<1>3. JournalOrder'
  BY <1>1 DEF OrderInv, JournalOrder
<1>4. \A v \in Workers, a \in Apps : Owns(v, a)' => Owns(v, a)
  BY <1>1, <1>2 DEF Owns, PlannedLabels
<1>5. ASSUME NEW v \in Workers
      PROVE  /\ wk'[v].pc \in UnwrittenLabels => wk'[v].app \notin published'
             /\ wk'[v].pc = "publish" => txn'[wk'[v].app].phase = "revision_validated"
  <2>1. CASE v = w
    BY <1>2, <2>1 DEF UnwrittenLabels, OnDiskLabels
  <2>2. CASE v # w
    <3>1. wk[v].pc \in UnwrittenLabels => wk[v].app # wk[w].app
      BY <1>1, <2>2 DEF OrderInv, Owns, UnwrittenLabels, PlannedLabels
    <3> QED
      BY <1>1, <1>2, <2>2, <3>1 DEF OrderInv
  <2> QED
    BY <2>1, <2>2
<1> QED
  BY <1>3, <1>4, <1>5 DEF OrderInv

LEMMA OrderInit == Init => OrderInv
<1> SUFFICES ASSUME Init PROVE OrderInv
  OBVIOUS
<1>1. \A w \in Workers : wk[w].pc = "idle"
  BY DEF Init, IdleWorker
<1>2. JournalOrder
  BY RevsAndApps DEF Init, JournalOrder, NoTxn, Published
<1> QED
  BY <1>1, <1>2 DEF OrderInv, Owns, UnwrittenLabels, PlannedLabels, OnDiskLabels

LEMMA OrderNext == IInv /\ OrderInv /\ [Next]_vars => OrderInv'
<1> SUFFICES ASSUME IInv, OrderInv, [Next]_vars PROVE OrderInv'
  OBVIOUS
<1>1. TypeOK
  BY DEF IInv
<1>2. ASSUME NEW w \in Workers, NEW q \in Requests, ImportResponse(w, q) PROVE OrderInv'
  BY <1>2, OrderKept DEF ImportResponse, At, journalVars, planVars, PlannedLabels, OnDiskLabels
<1>3. ASSUME NEW w \in Workers, Apply(w) PROVE OrderInv'
  BY <1>3, OrderQuiet, OrderSavePlan, OrderJournals, OrderPublish DEF Apply
<1>4. ASSUME NEW w \in Workers, Resume(w) \/ Rollback(w) \/ Recover(w) PROVE OrderInv'
  BY <1>1, <1>4, OutsidePlan, OrderKept
<1>5. ASSUME NEW w \in Workers, Crash(w) \/ OutOfIds(w) PROVE OrderInv'
  <2>1. Stop(w) /\ UNCHANGED <<txn, published>>
    BY <1>5 DEF Crash, OutOfIds, journalVars, planVars
  <2>2. wk'[w].pc = "idle" /\ \A v \in Workers \ {w} : wk'[v] = wk[v]
    BY <1>1, <2>1, StopIs DEF IdleWorker
  <2> QED
    BY <2>1, <2>2, OrderKept DEF PlannedLabels, OnDiskLabels
<1>6. CASE UNCHANGED vars
  BY <1>6 DEF vars, OrderInv, JournalOrder, Owns
<1> QED
  BY <1>2, <1>3, <1>4, <1>5, <1>6 DEF Next

LEMMA OrderInvariance == Spec => [](IInv /\ OrderInv)
<1>1. Init => IInv /\ OrderInv
  BY InitInv, OrderInit
<1>2. (IInv /\ OrderInv) /\ [Next]_vars => (IInv /\ OrderInv)'
  BY NextInv, OrderNext
<1> QED
  BY <1>1, <1>2, PTL DEF Spec

\* However the commands interleave and wherever they die, the journal says
\* revision_published only of a revision that is on disk, and only a revision whose graph was
\* validated is: recover() can decide from the phase alone (save_transaction_phase).
THEOREM JournalOrdered == Spec => []JournalOrder
<1>1. IInv /\ OrderInv => JournalOrder
  BY DEF OrderInv
<1> QED
  BY <1>1, OrderInvariance, PTL

-----------------------------------------------------------------------------
(* Leases and results *)

\* What a command in flight knows of its leases.
LeaseHeld(w) ==
    /\ wk[w].pc \in {"begin_resume", "lease"} =>
          wk[w].rec.rev \in published /\ wk[w].todo \subseteq revs[wk[w].rec.rev].ready
    /\ wk[w].pc \in {"publication", "complete"} => leases[wk[w].lease].state # "none"
    /\ wk[w].pc = "complete" => wk[w].lease \in pubs
    /\ wk[w].pc = "invalidate" => wk[w].bad \in {"failed", "cancelled", "stale"}
    /\ \A l \in wk[w].mine : leases[l].state # "none"

LeasesInv ==
    /\ \A l \in LeaseIds : leases[l].state # "none" =>
          leases[l].rev \in published /\ leases[l].task \in revs[leases[l].rev].ready
    /\ \A l \in pubs : leases[l].state # "none"
    /\ \A l \in LeaseIds : leases[l].state = "completed" => leases[l].done /\ l \in pubs
    /\ \A w \in Workers : LeaseHeld(w)

\* A revision file is never written again, a lease is never deleted.
Grows ==
    /\ published \subseteq published' /\ \A r \in published : revs'[r] = revs[r]
    /\ \A l \in LeaseIds : leases[l].state # "none" => leases'[l].state # "none"
    /\ pubs \subseteq pubs'

\* What the other commands know of theirs stays true.
LEMMA OthersHold ==
    ASSUME IInv, LeasesInv, NEW w \in Workers, \A v \in Workers \ {w} : wk'[v] = wk[v],
           Grows, LeaseHeld(w)'
    PROVE  \A v \in Workers : LeaseHeld(v)'
<1> SUFFICES ASSUME NEW v \in Workers, v # w PROVE LeaseHeld(v)'
  OBVIOUS
<1>1. /\ wk'[v] = wk[v] /\ LeaseHeld(v) /\ wk[v].mine \subseteq LeaseIds
      /\ wk[v].pc \in {"publication", "complete"} => wk[v].lease \in LeaseIds
  BY DEF IInv, LeasesInv, TypeOK, Worker, WorkerInv
<1> QED
  BY <1>1 DEF LeaseHeld, Grows

\* A step that writes neither a lease nor a result.
LEMMA LeasesKept ==
    ASSUME IInv, LeasesInv, NEW w \in Workers, \A v \in Workers \ {w} : wk'[v] = wk[v],
           UNCHANGED leaseVars, published \subseteq published', \A r \in published : revs'[r] = revs[r],
           LeaseHeld(w)'
    PROVE  LeasesInv'
<1>1. Grows /\ leases' = leases /\ pubs' = pubs
  BY DEF Grows, leaseVars
<1>2. \A v \in Workers : LeaseHeld(v)'
  BY <1>1, OthersHold
<1> QED
  BY <1>1, <1>2 DEF LeasesInv, Grows

\* A process outside resume holds nothing but the leases it already held.
LEMMA HeldOutside ==
    ASSUME LeasesInv, NEW w \in Workers, UNCHANGED leases,
           wk'[w].pc \notin {"begin_resume", "lease", "publication", "complete", "invalidate"},
           wk'[w].mine \in {wk[w].mine, {}}
    PROVE  LeaseHeld(w)'
BY DEF LeaseHeld, LeasesInv

LEMMA IdleHolds == IdleWorker.pc = "idle" /\ IdleWorker.mine = {}
BY DEF IdleWorker

\* plan_apply writes no lease, and changes no revision that is there.
LEMMA LeasesApply ==
    ASSUME IInv, OrderInv, LeasesInv, NEW w \in Workers, Apply(w)
    PROVE  LeasesInv'
<1> DEFINE Keeps == /\ UNCHANGED leaseVars
                    /\ wk'[w].pc \in {"idle", "save_plan"} \cup PlannedLabels
                    /\ wk'[w].mine \in {wk[w].mine, {}}
                    /\ \A v \in Workers \ {w} : wk'[v] = wk[v]
<1>1. TypeOK /\ wk[w] \in Worker /\ wk \in [Workers -> Worker]
  BY DEF IInv, TypeOK
<1>2. ASSUME ~PublishRevision(w)
      PROVE  UNCHANGED <<published, revs>>
  BY <1>2 DEF Apply, PlanApply, SavePlan, ReadyToApply, OpenTransaction, BeginApplying,
     JournalPrepared, JournalWritten, GraphAccepted, GraphRejected, JournalPublished, PointerUnchanged,
     PointerMoved, SetPointer, JournalPointer, MarkApplied, FinalizeRecord, JournalUpdated, JournalAudited,
     OfferResume, Commit, Journal, planVars
<1>3. published \subseteq published' /\ \A r \in published : revs'[r] = revs[r]
  <2>1. CASE PublishRevision(w)
    <3>1. wk[w].app \notin published /\ published' = published \cup {wk[w].app}
      BY <2>1 DEF PublishRevision, At, OrderInv, UnwrittenLabels, PlannedLabels, OnDiskLabels
    <3>2. \A r \in Revs \ {wk[w].app} : revs'[r] = revs[r]
      BY <2>1 DEF PublishRevision, IInv, TypeOK
    <3> QED
      BY <3>1, <3>2 DEF IInv, TypeOK
  <2> QED
    BY <1>2, <2>1
<1>4. Keeps
  <2> USE DEF PlannedLabels, OnDiskLabels
  <2>1. CASE \E q \in Requests : PlanApply(w, q)
    BY <1>1, <2>1 DEF PlanApply, IdleWorker
  <2>2. CASE SavePlan(w)
    BY <1>1, <2>2 DEF SavePlan, Worker
  <2>3. CASE FinalizeRecord(w)
    BY <1>1, <2>3 DEF FinalizeRecord, Worker
  <2>4. CASE GraphRejected(w) \/ PointerMoved(w) \/ Commit(w)
    <3>1. Stop(w) /\ UNCHANGED leaseVars
      BY <2>4 DEF GraphRejected, PointerMoved, Commit
    <3> QED
      BY <1>1, <3>1, StopIs, IdleHolds
  <2>5. CASE ReadyToApply(w) \/ BeginApplying(w) \/ MarkApplied(w) \/ OfferResume(w)
    <3>1. PICK st, next : Transition(w, st, next) /\ next \in PlannedLabels /\ UNCHANGED leaseVars
      BY <2>5 DEF ReadyToApply, BeginApplying, MarkApplied, OfferResume
    <3>2. wk'[w].pc = next /\ Same(w) /\ \A v \in Workers \ {w} : wk'[v] = wk[v]
      BY <1>1, <3>1, TransitionIs
    <3> QED
      BY <3>1, <3>2 DEF Same
  <2>6. ASSUME NEW from, NEW phase, NEW next \in PlannedLabels, Journal(w, from, phase, next)
        PROVE  Keeps
    <3>1. Goto(w, next) /\ UNCHANGED leaseVars
      BY <2>6 DEF Journal
    <3>2. wk'[w].pc = next /\ Same(w) /\ \A v \in Workers \ {w} : wk'[v] = wk[v]
      BY <1>1, <3>1, GotoIs
    <3> QED
      BY <3>1, <3>2 DEF Same
  <2>7. CASE JournalPrepared(w) \/ JournalWritten(w) \/ GraphAccepted(w) \/ JournalPublished(w)
             \/ JournalPointer(w) \/ JournalUpdated(w) \/ JournalAudited(w)
    BY <2>6, <2>7 DEF JournalPrepared, JournalWritten, GraphAccepted, JournalPublished, JournalPointer,
                      JournalUpdated, JournalAudited
  <2>8. CASE OpenTransaction(w) \/ PublishRevision(w) \/ PointerUnchanged(w) \/ SetPointer(w)
    <3>1. PICK next \in PlannedLabels : Goto(w, next) /\ UNCHANGED leaseVars
      BY <2>8 DEF OpenTransaction, PublishRevision, PointerUnchanged, SetPointer
    <3>2. wk'[w].pc = next /\ Same(w) /\ \A v \in Workers \ {w} : wk'[v] = wk[v]
      BY <1>1, <3>1, GotoIs
    <3> QED
      BY <3>1, <3>2 DEF Same
  <2> QED
    BY <2>1, <2>2, <2>3, <2>4, <2>5, <2>7, <2>8 DEF Apply
<1>5. LeaseHeld(w)'
  BY <1>4, HeldOutside DEF leaseVars, PlannedLabels, OnDiskLabels
<1> QED
  BY <1>3, <1>4, <1>5, LeasesKept

\* The reads of resume, and the steps after which it holds no lease.
LEMMA LeasesReads ==
    ASSUME IInv, LeasesInv, NEW w \in Workers,
           \/ \E q \in Requests : ResumeStart(w, q)
           \/ BeginResume(w) \/ StartExecution(w) \/ ResumePointerMoved(w) \/ ExecutionCompletes(w)
           \/ ExecutionFails(w) \/ GatePasses(w) \/ GateRejects(w) \/ ResumeFinish(w) \/ ResumeFailed(w)
    PROVE  LeasesInv'
<1>1. TypeOK /\ wk[w] \in Worker /\ wk \in [Workers -> Worker] /\ LeaseHeld(w)
  BY DEF IInv, TypeOK, LeasesInv
<1>2. UNCHANGED leaseVars /\ UNCHANGED planVars
  BY DEF ResumeStart, BeginResume, StartExecution, ResumePointerMoved, ExecutionCompletes, ExecutionFails,
         GatePasses, GateRejects, ResumeFinish, ResumeFailed
<1>3. \A v \in Workers \ {w} : wk'[v] = wk[v]
  BY <1>1, OutsidePlan DEF Resume
<1>4. LeaseHeld(w)'
  <2>1. CASE \E q \in Requests : ResumeStart(w, q)
    <3>1. PICK a \in Apps : /\ active = apps[a].rev
                            /\ wk' = [wk EXCEPT ![w] = [IdleWorker EXCEPT !.pc = "begin_resume", !.app = a,
                                        !.rec = apps[a], !.todo = revs[apps[a].rev].ready]]
      BY <2>1 DEF ResumeStart
    <3>2. /\ wk'[w].pc = "begin_resume" /\ wk'[w].rec.rev = active
          /\ wk'[w].todo = revs[active].ready /\ wk'[w].mine = {}
      BY <1>1, <3>1 DEF IdleWorker
    <3> QED
      BY <1>2, <3>2 DEF LeaseHeld, planVars, IInv, RevisionStoreSound
  <2>2. CASE BeginResume(w)
    <3>1. /\ wk'[w].pc = "lease" /\ wk'[w].rec = [wk[w].rec EXCEPT !.status = "resuming"] /\ Same(w)
          /\ wk[w].pc = "begin_resume"
      BY <1>1, <2>2, TransitionIs DEF BeginResume, At
    <3>2. wk'[w].rec.rev = wk[w].rec.rev
      BY <1>1, <3>1 DEF Worker, AppRecord
    <3> QED
      BY <1>1, <1>2, <3>1, <3>2 DEF LeaseHeld, Same, leaseVars, planVars
  <2>3. CASE StartExecution(w)
    <3>1. wk'[w].pc = "execute" /\ wk'[w].mine = wk[w].mine
      BY <1>1, <2>3 DEF StartExecution, Worker
    <3> QED
      BY <1>2, <3>1, HeldOutside DEF leaseVars
  <2>4. CASE ResumePointerMoved(w) \/ ResumeFinish(w) \/ ResumeFailed(w)
    <3>1. Stop(w)
      BY <2>4 DEF ResumePointerMoved, ResumeFinish, ResumeFailed
    <3> QED
      BY <1>1, <1>2, <3>1, StopIs, IdleHolds, HeldOutside DEF leaseVars
  <2>5. CASE ExecutionCompletes(w)
    <3>1. wk'[w].pc = "gate" /\ Same(w)
      BY <1>1, <2>5, GotoIs DEF ExecutionCompletes
    <3> QED
      BY <1>2, <3>1, HeldOutside DEF leaseVars, Same
  <2>6. CASE ExecutionFails(w) \/ GateRejects(w)
    <3>1. /\ wk'[w].pc = "invalidate" /\ wk'[w].bad \in {"failed", "cancelled", "stale"}
          /\ wk'[w].mine = wk[w].mine
      BY <1>1, <2>6 DEF ExecutionFails, GateRejects, Worker
    <3> QED
      BY <1>1, <1>2, <3>1 DEF LeaseHeld, leaseVars
  <2>7. CASE GatePasses(w)
    <3>1. PICK t \in wk[w].todo, l \in LeaseIds :
             /\ GateOpen(w, l)
             /\ wk' = [wk EXCEPT ![w].pc = "publication", ![w].todo = @ \ {t}, ![w].lease = l]
      BY <2>7 DEF GatePasses
    <3>2. wk'[w].pc = "publication" /\ wk'[w].lease = l /\ wk'[w].mine = wk[w].mine
      BY <1>1, <3>1 DEF Worker
    <3> QED
      BY <1>1, <1>2, <3>1, <3>2 DEF LeaseHeld, leaseVars, GateOpen
  <2> QED
    BY <2>1, <2>2, <2>3, <2>4, <2>5, <2>6, <2>7
<1> QED
  BY <1>2, <1>3, <1>4, LeasesKept DEF planVars

LEMMA LeasesCreate ==
    ASSUME IInv, LeasesInv, NEW w \in Workers, CreateLease(w)
    PROVE  LeasesInv'
<1>1. PICK t \in wk[w].todo, l \in LeaseIds :
          /\ \A m \in LeaseIds : (leases[m].state = "none") <=> (m >= l)
          /\ leases' = [leases EXCEPT ![l] =
                [state |-> "active", rev |-> wk[w].rec.rev, task |-> t, done |-> FALSE]]
          /\ wk' = [wk EXCEPT ![w].todo = @ \ {t}, ![w].mine = @ \cup {l}]
  BY DEF CreateLease
<1>2. /\ TypeOK /\ wk[w] \in Worker /\ wk \in [Workers -> Worker] /\ LeaseHeld(w)
      /\ wk[w].pc = "lease" /\ UNCHANGED <<pubs, published, revs>>
      /\ leases[l].state = "none"
  BY <1>1 DEF CreateLease, At, IInv, TypeOK, LeasesInv, planVars, LeaseIds
<1>3. /\ wk'[w].pc = "lease" /\ wk'[w].rec = wk[w].rec /\ wk'[w].todo = wk[w].todo \ {t}
      /\ wk'[w].mine = wk[w].mine \cup {l}
      /\ \A v \in Workers \ {w} : wk'[v] = wk[v]
  BY <1>1, <1>2 DEF Worker
<1>4. /\ \A m \in LeaseIds \ {l} : leases'[m] = leases[m]
      /\ leases'[l].state = "active" /\ leases'[l].rev = wk[w].rec.rev /\ leases'[l].task = t
  BY <1>1, <1>2 DEF TypeOK
<1>5. Grows
  BY <1>2, <1>4 DEF Grows
<1>6. wk[w].mine \subseteq LeaseIds /\ l \notin pubs /\ pubs \subseteq LeaseIds
  BY <1>2 DEF Worker, LeasesInv, TypeOK
<1>7. LeaseHeld(w)'
  BY <1>2, <1>3, <1>4, <1>6 DEF LeaseHeld
<1>8. \A v \in Workers : LeaseHeld(v)'
  BY <1>3, <1>5, <1>7, OthersHold
<1> QED
  BY <1>2, <1>4, <1>6, <1>8 DEF LeasesInv, LeaseHeld

LEMMA LeasesPublish ==
    ASSUME IInv, LeasesInv, NEW w \in Workers, SavePublication(w)
    PROVE  LeasesInv'
<1>1. /\ TypeOK /\ LeaseHeld(w) /\ WorkerInv(w) /\ wk[w].pc = "publication"
      /\ UNCHANGED <<leases, published, revs>> /\ pubs' = pubs \cup {wk[w].lease}
      /\ Goto(w, "complete")
  BY DEF SavePublication, At, IInv, LeasesInv, planVars
<1>2. wk'[w].pc = "complete" /\ Same(w) /\ \A v \in Workers \ {w} : wk'[v] = wk[v]
  BY <1>1, GotoIs
<1>3. Grows
  BY <1>1 DEF Grows
<1>4. LeaseHeld(w)'
  BY <1>1, <1>2 DEF LeaseHeld, Same
<1>5. \A v \in Workers : LeaseHeld(v)'
  BY <1>2, <1>3, <1>4, OthersHold
<1> QED
  BY <1>1, <1>5 DEF LeasesInv, LeaseHeld

\* A lease that is there gets another state; a completed one has its result on disk.
LEMMA LeasesChange ==
    ASSUME IInv, LeasesInv, NEW w \in Workers, NEW l \in LeaseIds, NEW state \in LeaseStates \ {"none"},
           leases[l].state # "none", UNCHANGED <<pubs, planVars>>,
           leases'[l].state = state, leases'[l].rev = leases[l].rev, leases'[l].task = leases[l].task,
           \A m \in LeaseIds \ {l} : leases'[m] = leases[m],
           state = "completed" => leases'[l].done /\ l \in pubs,
           wk'[w].pc \in {"gate", "invalidate", "stale_leases"}, wk'[w].mine \subseteq wk[w].mine,
           wk'[w].pc = "invalidate" => wk'[w].bad \in {"failed", "cancelled", "stale"},
           \A v \in Workers \ {w} : wk'[v] = wk[v]
    PROVE  LeasesInv'
<1>1. Grows /\ UNCHANGED <<pubs, published, revs>>
  BY DEF Grows, planVars
<1>2. LeaseHeld(w)'
  <2>1. wk[w].mine \subseteq LeaseIds
    BY DEF IInv, TypeOK, Worker
  <2> QED
    BY <1>1, <2>1 DEF LeaseHeld, LeasesInv, Grows
<1>3. \A v \in Workers : LeaseHeld(v)'
  BY <1>1, <1>2, OthersHold
<1>4. pubs \subseteq LeaseIds
  BY DEF IInv, TypeOK
<1> QED
  BY <1>1, <1>3, <1>4 DEF LeasesInv

LEMMA LeasesChanges ==
    ASSUME IInv, LeasesInv, NEW w \in Workers,
           CompleteLease(w) \/ InvalidateLease(w) \/ StaleLease(w)
    PROVE  LeasesInv'
<1>1. /\ TypeOK /\ LeaseHeld(w) /\ WorkerInv(w) /\ wk[w] \in Worker /\ wk \in [Workers -> Worker]
      /\ leases \in [LeaseIds -> Lease]
  BY DEF IInv, LeasesInv, TypeOK
<1>2. CASE CompleteLease(w)
  <2>1. wk[w].lease \in LeaseIds /\ leases[wk[w].lease].state # "none" /\ wk[w].lease \in pubs
    BY <1>1, <1>2 DEF CompleteLease, At, WorkerInv, LeaseHeld
  <2>2. PICK l \in LeaseIds : l = wk[w].lease
    BY <2>1
  <2>3. /\ leases' = [leases EXCEPT ![l].state = "completed", ![l].done = TRUE]
        /\ wk' = [wk EXCEPT ![w].pc = "gate", ![w].lease = 0] /\ UNCHANGED <<pubs, planVars>>
    BY <1>2, <2>2 DEF CompleteLease
  <2>4. /\ leases'[l].state = "completed" /\ leases'[l].rev = leases[l].rev
        /\ leases'[l].task = leases[l].task /\ leases'[l].done
        /\ \A m \in LeaseIds \ {l} : leases'[m] = leases[m]
    BY <1>1, <2>3 DEF Lease
  <2>5. /\ wk'[w].pc = "gate" /\ wk'[w].mine = wk[w].mine
        /\ \A v \in Workers \ {w} : wk'[v] = wk[v]
    BY <1>1, <2>3 DEF Worker
  <2>6. l \in pubs /\ leases[l].state # "none" /\ "completed" \in LeaseStates \ {"none"}
    BY <2>1, <2>2 DEF LeaseStates
  <2>7. wk'[w].pc \in {"gate", "invalidate", "stale_leases"} /\ wk'[w].mine \subseteq wk[w].mine
    BY <2>5
  <2> QED
    BY <2>3, <2>4, <2>5, <2>6, <2>7, LeasesChange
<1>3. ASSUME NEW l \in wk[w].mine, NEW state \in {"failed", "cancelled", "stale"},
             leases'[l].state = state /\ leases'[l].rev = leases[l].rev /\ leases'[l].task = leases[l].task,
             \A m \in LeaseIds \ {l} : leases'[m] = leases[m],
             wk' = [wk EXCEPT ![w].mine = @ \ {l}], UNCHANGED <<pubs, planVars>>,
             wk[w].pc \in {"invalidate", "stale_leases"}
      PROVE  LeasesInv'
  <2>1. l \in LeaseIds /\ leases[l].state # "none"
    BY <1>1 DEF Worker, LeaseHeld
  <2>2. /\ wk'[w].pc = wk[w].pc /\ wk'[w].mine = wk[w].mine \ {l} /\ wk'[w].bad = wk[w].bad
        /\ \A v \in Workers \ {w} : wk'[v] = wk[v]
    BY <1>1, <1>3 DEF Worker
  <2>3. wk'[w].pc = "invalidate" => wk'[w].bad \in {"failed", "cancelled", "stale"}
    BY <1>1, <2>2 DEF LeaseHeld
  <2> QED
    BY <1>3, <2>1, <2>2, <2>3, LeasesChange DEF LeaseStates
<1>4. CASE InvalidateLease(w)
  <2>1. PICK l \in wk[w].mine : /\ leases' = [leases EXCEPT ![l].state = wk[w].bad]
                                /\ wk' = [wk EXCEPT ![w].mine = @ \ {l}]
    BY <1>4 DEF InvalidateLease
  <2>2. /\ wk[w].pc = "invalidate" /\ wk[w].bad \in {"failed", "cancelled", "stale"} /\ l \in LeaseIds
        /\ UNCHANGED <<pubs, planVars>>
    BY <1>1, <1>4 DEF InvalidateLease, At, LeaseHeld, Worker
  <2>3. /\ leases'[l].state = wk[w].bad /\ leases'[l].rev = leases[l].rev /\ leases'[l].task = leases[l].task
        /\ \A m \in LeaseIds \ {l} : leases'[m] = leases[m]
    BY <1>1, <2>1, <2>2 DEF Lease
  <2> QED
    BY <1>3, <2>1, <2>2, <2>3
<1>5. CASE StaleLease(w)
  <2>1. PICK l \in wk[w].mine : /\ leases' = [leases EXCEPT ![l].state = "stale", ![l].done = FALSE]
                                /\ wk' = [wk EXCEPT ![w].mine = @ \ {l}]
    BY <1>5 DEF StaleLease
  <2>2. wk[w].pc = "stale_leases" /\ l \in LeaseIds /\ UNCHANGED <<pubs, planVars>>
    BY <1>1, <1>5 DEF StaleLease, At, Worker
  <2>3. /\ leases'[l].state = "stale" /\ leases'[l].rev = leases[l].rev /\ leases'[l].task = leases[l].task
        /\ \A m \in LeaseIds \ {l} : leases'[m] = leases[m]
    BY <1>1, <2>1, <2>2 DEF Lease
  <2> QED
    BY <1>3, <2>1, <2>2, <2>3
<1> QED
  BY <1>2, <1>4, <1>5

\* rollback keeps the leases it found active; recover holds none.
LEMMA LeasesRollback ==
    ASSUME IInv, LeasesInv, NEW w \in Workers, Rollback(w) \/ Recover(w), ~StaleLease(w)
    PROVE  LeasesInv'
<1>1. TypeOK /\ wk[w] \in Worker /\ wk \in [Workers -> Worker] /\ LeaseHeld(w)
  BY DEF IInv, TypeOK, LeasesInv
<1>2. UNCHANGED leaseVars /\ UNCHANGED <<published, revs>>
  BY DEF Rollback, RollbackStart, RollbackReads, RollbackRefused, OpenUndo, BeginRollback,
         RecheckPointer, JournalUndoFailed, RollbackFailed, RestorePointer, JournalUndoDone, MarkRolledBack,
         RetargetRecord, Recover, RecoverScan, RecoverWrite, RecoverDone, planVars
<1>3. \A v \in Workers \ {w} : wk'[v] = wk[v]
  BY <1>1, OutsidePlan
<1>4. LeaseHeld(w)'
  <2>1. CASE RollbackReads(w)
    <3>1. /\ wk'[w].pc = "open_undo"
          /\ wk'[w].mine = {l \in LeaseIds : leases[l].rev = active /\ leases[l].state = "active"}
      BY <1>1, <2>1 DEF RollbackReads, Worker
    <3>2. \A l \in wk'[w].mine : leases[l].state # "none"
      BY <3>1
    <3> QED
      BY <1>2, <3>1, <3>2 DEF LeaseHeld, leaseVars
  <2>2. CASE BeginRollback(w) \/ MarkRolledBack(w)
    <3>1. PICK st \in {"rolling_back", "rolled_back"}, next \in {"stale_leases", "retarget"} : Transition(w, st, next)
      BY <2>2 DEF BeginRollback, MarkRolledBack
    <3>2. wk'[w].pc = next /\ Same(w)
      BY <1>1, <3>1, TransitionIs
    <3> QED
      BY <1>2, <3>1, <3>2, HeldOutside DEF leaseVars, Same
  <2>3. ASSUME NEW next \in {"rolling_back", "restore", "undo_failed", "rollback_failed", "undo_done", "rolled_back"},
               Goto(w, next)
        PROVE  LeaseHeld(w)'
    <3>1. wk'[w].pc = next /\ Same(w)
      BY <1>1, <2>3, GotoIs
    <3> QED
      BY <1>2, <3>1, HeldOutside DEF leaseVars, Same
  <2>4. ASSUME Stop(w)
        PROVE  LeaseHeld(w)'
    BY <1>1, <1>2, <2>4, StopIs, IdleHolds, HeldOutside DEF leaseVars
  <2>5. CASE OpenUndo(w) \/ RecheckPointer(w) \/ JournalUndoFailed(w) \/ RestorePointer(w) \/ JournalUndoDone(w)
    BY <2>3, <2>4, <2>5 DEF OpenUndo, RecheckPointer, JournalUndoFailed, RestorePointer, JournalUndoDone
  <2>6. CASE RollbackRefused(w) \/ RollbackFailed(w) \/ RetargetRecord(w) \/ RecoverDone(w)
    BY <2>4, <2>6 DEF RollbackRefused, RollbackFailed, RetargetRecord, RecoverDone
  <2>7. CASE \E a \in Apps : RollbackStart(w, a)
    <3>1. wk'[w].pc = "rollback" /\ wk'[w].mine = {}
      BY <1>1, <2>7 DEF RollbackStart, IdleWorker
    <3> QED
      BY <1>2, <3>1, HeldOutside DEF leaseVars
  <2>8. CASE RecoverScan(w)
    <3> DEFINE fixes == [kind: {"fail"}, app: {a \in Apps : Interrupted(a)}]
                        \cup [kind: {"point"}, app: {a \in Apps : PointerPending(a)}]
                        \cup [kind: {"finish"}, app: {a \in Apps : StatusPending(a)}]
    <3>1. wk' = [wk EXCEPT ![w] = [IdleWorker EXCEPT !.pc = "recover", !.fix = fixes]]
      BY <2>8 DEF RecoverScan
    <3> HIDE DEF fixes
    <3>2. wk'[w].pc = "recover" /\ wk'[w].mine = {}
      BY <1>1, <3>1 DEF IdleWorker
    <3> QED
      BY <1>2, <3>2, HeldOutside DEF leaseVars
  <2>9. CASE RecoverWrite(w)
    <3>1. wk'[w].pc = "recover" /\ wk'[w].mine = wk[w].mine
      BY <1>1, <2>9 DEF RecoverWrite, Worker, At
    <3> QED
      BY <1>2, <3>1, HeldOutside DEF leaseVars
  <2> QED
    BY <2>1, <2>2, <2>5, <2>6, <2>7, <2>8, <2>9 DEF Rollback, Recover
<1> QED
  BY <1>2, <1>3, <1>4, LeasesKept

LEMMA LeasesInit == Init => LeasesInv
BY RevsAndApps DEF Init, LeasesInv, NoLease, IdleWorker, LeaseHeld

LEMMA LeasesNext == IInv /\ OrderInv /\ LeasesInv /\ [Next]_vars => LeasesInv'
<1> SUFFICES ASSUME IInv, OrderInv, LeasesInv, [Next]_vars PROVE LeasesInv'
  OBVIOUS
<1>1. TypeOK /\ wk \in [Workers -> Worker]
  BY DEF IInv, TypeOK
<1>2. ASSUME NEW w \in Workers, NEW q \in Requests, ImportResponse(w, q) PROVE LeasesInv'
  BY <1>2 DEF ImportResponse, LeasesInv, LeaseHeld, planVars, leaseVars
<1>3. ASSUME NEW w \in Workers, Apply(w) PROVE LeasesInv'
  BY <1>3, LeasesApply
<1>4. ASSUME NEW w \in Workers, Resume(w) PROVE LeasesInv'
  BY <1>4, LeasesReads, LeasesCreate, LeasesPublish, LeasesChanges DEF Resume
<1>5. ASSUME NEW w \in Workers, Rollback(w) \/ Recover(w) PROVE LeasesInv'
  BY <1>5, LeasesRollback, LeasesChanges
<1>6. ASSUME NEW w \in Workers, Crash(w) \/ OutOfIds(w) PROVE LeasesInv'
  <2>1. Stop(w) /\ UNCHANGED <<leaseVars, planVars>>
    BY <1>6 DEF Crash, OutOfIds
  <2>2. wk'[w] = IdleWorker /\ \A v \in Workers \ {w} : wk'[v] = wk[v]
    BY <1>1, <2>1, StopIs
  <2>3. LeaseHeld(w)'
    BY <2>1, <2>2, IdleHolds, HeldOutside DEF leaseVars
  <2> QED
    BY <2>1, <2>2, <2>3, LeasesKept DEF planVars
<1>7. CASE UNCHANGED vars
  BY <1>7 DEF vars, LeasesInv, LeaseHeld
<1> QED
  BY <1>2, <1>3, <1>4, <1>5, <1>6, <1>7 DEF Next

LEMMA LeasesInvariance == Spec => [](IInv /\ OrderInv /\ LeasesInv)
<1>1. Init => IInv /\ OrderInv /\ LeasesInv
  BY InitInv, OrderInit, LeasesInit
<1>2. (IInv /\ OrderInv /\ LeasesInv) /\ [Next]_vars => (IInv /\ OrderInv /\ LeasesInv)'
  BY NextInv, OrderNext, LeasesNext
<1> QED
  BY <1>1, <1>2, PTL DEF Spec

\* A published result belongs to a lease for a task its revision offered, and a lease counts
\* as completed only with its result on disk, whatever other commands do in between: a
\* rollback that makes the lease stale, a resume of the same revision (resume).
THEOREM ResultsLeased == Spec => []ResultsAreLeased
<1>1. IInv /\ LeasesInv => ResultsAreLeased
  BY DEF IInv, TypeOK, LeasesInv, ResultsAreLeased
<1> QED
  BY <1>1, LeasesInvariance, PTL
=============================================================================
