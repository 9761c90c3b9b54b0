-------------------------- MODULE CloudApplication --------------------------
(***************************************************************************)
(* The file protocol of ApplicationService: plan_apply, resume, rollback   *)
(* and recover of cloud_application/service.py.                            *)
(*                                                                         *)
(* Every command is a process of its own and the only shared state is the  *)
(* files under .agentic/.  Each file is replaced atomically, there is no   *)
(* lock, and an application record is always written whole from the copy   *)
(* the command holds in memory.  One action is therefore one file write    *)
(* (or one block of reads) of one command, and a command may die between   *)
(* any two of them: an exception that escapes a command leaves the files   *)
(* exactly as a crash does.                                                *)
(*                                                                         *)
(* Ids are drawn in the order of their creation: application a proposes    *)
(* revision a, revision 0 is the bootstrap plan.  A revision is written    *)
(* once under a fresh id, so a checksum says no more than the id and is    *)
(* left out, except the plan checksum in the journal, which the code       *)
(* loses.                                                                  *)
(***************************************************************************)
EXTENDS Integers, FiniteSets, Sequences

CONSTANTS
    Workers,    \* command processes
    Requests,   \* cloud-queue requests
    Tasks,      \* task ids a revision may offer for local execution
    MaxApps,    \* bound: application ids
    MaxLeases,  \* bound: execution-lease ids
    MaxCrashes  \* bound: commands that die half-way

ASSUME BoundsAssumption == MaxApps \in Nat \ {0} /\ MaxLeases \in Nat /\ MaxCrashes \in Nat

VARIABLES
    req,        \* requests/: source revision and operation of the imported response
    apps,       \* cloud_applications/applications/<id>.yaml
    txn,        \* runtime_plans/transactions/txn-<id>.yaml
    undo,       \* runtime_plans/transactions/rollback-<id>.yaml (its phase)
    published,  \* runtime_plans/revisions/: the revision files on disk
    revs,       \* their contents
    active,     \* runtime_plans/active.yaml
    leases,     \* execution_leases/<id>.yaml
    pubs,       \* execution_leases/publications/: lease ids with a result
    wk,         \* what each command process holds in memory
    crashes     \* how many commands have died (only to bound them)

vars == <<req, apps, txn, undo, published, revs, active, leases, pubs, wk, crashes>>
planVars == <<published, revs, active>>
leaseVars == <<leases, pubs>>
journalVars == <<txn, undo>>

Apps == 1..MaxApps
Revs == 0..MaxApps
LeaseIds == 1..MaxLeases
Root == 0
NoRev == -1      \* an application without revision_id, a revision without parent
Unbound == -1    \* a request whose source_plan_revision is empty

OpKinds == {"replace_task_with_subtasks", "update_task_metadata"}

-----------------------------------------------------------------------------
(* state_machine.py *)

TransitionMap ==
    [ application_planned |-> {"application_validation_failed", "ready_to_apply", "cancelled"},
      application_validation_failed |-> {"application_planned", "cancelled"},
      ready_to_apply |-> {"applying", "cancelled"},
      applying |-> {"applied", "application_validation_failed", "rollback_available",
                    "resume_failed"},
      applied |-> {"resume_pending", "superseded", "rollback_available", "rolling_back"},
      resume_pending |-> {"resuming", "cancelled", "rolling_back"},
      resuming |-> {"resumed", "resume_failed"},
      resumed |-> {"rollback_available", "superseded", "rolling_back"},
      resume_failed |-> {"rollback_available", "cancelled"},
      rollback_available |-> {"rolling_back", "superseded"},
      rolling_back |-> {"rolled_back", "rollback_failed"},
      rolled_back |-> {}, rollback_failed |-> {}, superseded |-> {}, cancelled |-> {} ]

Statuses == DOMAIN TransitionMap

\* The statuses rollback() accepts.
RollbackFrom == {"applied", "resumed", "resume_pending", "rollback_available", "rollback_failed"}

Phases == {"none", "prepared", "revision_written", "revision_validated", "revision_published",
           "pointer_updated", "application_updated", "audit_completed", "committed"}

\* Mutant: recover also fails an application whose revision is already published.
UnpublishedPhasesLate == {"revision_validated", "revision_published", "pointer_updated"}

\* The phases whose application recover() sends back to application_validation_failed.
UnpublishedPhases == {"revision_written", "revision_validated"}

-----------------------------------------------------------------------------
(* The files *)

AppRecord == [status: Statuses \cup {"none"}, req: Requests \cup {"none"},
              rev: Revs \cup {NoRev}, eligible: BOOLEAN]
NoApp == [status |-> "none", req |-> "none", rev |-> NoRev, eligible |-> FALSE]

Transaction == [phase: Phases, src: Revs, planSum: BOOLEAN]
NoTxn == [phase |-> "none", src |-> Root, planSum |-> FALSE]

Revision == [parent: Revs \cup {NoRev}, ready: SUBSET Tasks, superseded: SUBSET Requests]
NoRevision == [parent |-> NoRev, ready |-> {}, superseded |-> {}]

LeaseStates == {"none", "active", "completed", "failed", "cancelled", "stale"}
Lease == [state: LeaseStates, rev: Revs, task: Tasks \cup {"none"}, done: BOOLEAN]
NoLease == [state |-> "none", rev |-> Root, task |-> "none", done |-> FALSE]

Labels == {"idle",
           "save_plan", "ready", "open_txn", "applying", "prepared", "written", "validate",
           "publish", "published", "check_pointer", "set_pointer", "pointed", "applied",
           "finalize", "updated", "audited", "pending", "commit",
           "begin_resume", "lease", "execute", "gate", "publication", "complete", "invalidate",
           "rollback", "open_undo", "rolling_back", "stale_leases", "undo_failed",
           "rollback_failed", "restore", "undo_done", "rolled_back", "retarget",
           "recover"}

\* What recover() decided to rewrite: an application to fail, a pointer to
\* move forward, an application to finish.
Fixes == [kind: {"fail", "point", "finish"}, app: Apps]

Worker == [pc: Labels, app: Apps \cup {0}, rec: AppRecord, src: Revs, todo: SUBSET Tasks,
           mine: SUBSET LeaseIds, lease: LeaseIds \cup {0}, bad: LeaseStates, fix: SUBSET Fixes]
IdleWorker == [pc |-> "idle", app |-> 0, rec |-> NoApp, src |-> Root, todo |-> {},
               mine |-> {}, lease |-> 0, bad |-> "none", fix |-> {}]

TypeOK ==
    /\ req \in [Requests -> [base: Revs \cup {Unbound}, kind: OpKinds \cup {"none"}]]
    /\ apps \in [Apps -> AppRecord]
    /\ txn \in [Apps -> Transaction]
    /\ undo \in [Apps -> {"none", "prepared", "rolled_back", "rollback_failed"}]
    /\ published \subseteq Revs
    /\ revs \in [Revs -> Revision]
    /\ active \in Revs
    /\ leases \in [LeaseIds -> Lease]
    /\ pubs \subseteq LeaseIds
    /\ wk \in [Workers -> Worker]
    /\ crashes \in 0..MaxCrashes

\* The project has been bootstrapped: revision 0 is active, nothing is applied.
Init ==
    /\ req = [q \in Requests |-> [base |-> Unbound, kind |-> "none"]]
    /\ apps = [a \in Apps |-> NoApp]
    /\ txn = [a \in Apps |-> NoTxn]
    /\ undo = [a \in Apps |-> "none"]
    /\ published = {Root}
    /\ revs = [r \in Revs |-> NoRevision]
    /\ active = Root
    /\ leases = [l \in LeaseIds |-> NoLease]
    /\ pubs = {}
    /\ wk = [w \in Workers |-> IdleWorker]
    /\ crashes = 0

-----------------------------------------------------------------------------
(* Steps of a command *)

At(w, label) == wk[w].pc = label
Goto(w, label) == wk' = [wk EXCEPT ![w].pc = label]
Stop(w) == wk' = [wk EXCEPT ![w] = IdleWorker]

\* _transition_application: the transition is validated against the record in
\* memory and that record, with the new status, replaces the file.  (The save
\* repeated right after it by the callers writes the same record.)
SaveStatus(w, st) ==
    /\ st \in TransitionMap[wk[w].rec.status]
    /\ apps' = [apps EXCEPT ![wk[w].app] = [wk[w].rec EXCEPT !.status = st]]

Transition(w, st, next) ==
    /\ SaveStatus(w, st)
    /\ wk' = [wk EXCEPT ![w].pc = next, ![w].rec.status = st]

\* save_transaction_phase: `details or record.details` replaces the details, so
\* the plan checksum stored by the first save does not survive the second.
SavePhase(w, phase) ==
    txn' = [txn EXCEPT ![wk[w].app].phase = phase, ![wk[w].app].planSum = FALSE]

Journal(w, from, phase, next) ==
    /\ At(w, from)
    /\ SavePhase(w, phase)
    /\ Goto(w, next)
    /\ UNCHANGED <<req, crashes, apps, undo, planVars, leaseVars>>

-----------------------------------------------------------------------------
(* The queue: a response is imported for a request and found eligible.     *)

\* (One step of an idle process: the import touches no other file of this model.)
ImportResponse(w, q) ==
    /\ At(w, "idle")
    /\ req[q].kind = "none"
    /\ \E base \in published \cup {Unbound}, kind \in OpKinds :
          req' = [req EXCEPT ![q] = [base |-> base, kind |-> kind]]
    /\ UNCHANGED <<crashes, apps, journalVars, planVars, leaseVars, wk>>

-----------------------------------------------------------------------------
(* plan_apply and _apply_plan                                              *)

\* The reads of plan_apply: the active revision must be the one the request
\* was made for, and must still offer the task the request is about.
PlanApply(w, q) ==
    /\ At(w, "idle")
    /\ req[q].kind # "none"
    /\ req[q].base \in {Unbound, active}
    /\ q \notin revs[active].superseded
    /\ wk' = [wk EXCEPT ![w] = [IdleWorker EXCEPT !.pc = "save_plan", !.src = active,
                 !.rec = [NoApp EXCEPT !.status = "application_planned", !.req = q]]]
    /\ UNCHANGED <<req, crashes, apps, journalVars, planVars, leaseVars>>

\* The application and its plan are saved under fresh ids.
SavePlan(w) ==
    /\ At(w, "save_plan")
    /\ \E a \in Apps :
          /\ \A b \in Apps : (apps[b].status = "none") <=> (b >= a)
          /\ apps' = [apps EXCEPT ![a] = wk[w].rec]
          /\ wk' = [wk EXCEPT ![w].pc = "ready", ![w].app = a]
    /\ UNCHANGED <<req, crashes, journalVars, planVars, leaseVars>>

ReadyToApply(w) ==
    /\ At(w, "ready")
    /\ Transition(w, "ready_to_apply", "open_txn")
    /\ UNCHANGED <<req, crashes, journalVars, planVars, leaseVars>>

\* create_transaction_record: the only save that carries the plan checksum.
OpenTransaction(w) ==
    /\ At(w, "open_txn")
    /\ txn' = [txn EXCEPT ![wk[w].app] =
                  [phase |-> "prepared", src |-> wk[w].src, planSum |-> TRUE]]
    /\ Goto(w, "applying")
    /\ UNCHANGED <<req, crashes, apps, undo, planVars, leaseVars>>

BeginApplying(w) ==
    /\ At(w, "applying")
    /\ Transition(w, "applying", "prepared")
    /\ UNCHANGED <<req, crashes, journalVars, planVars, leaseVars>>

JournalPrepared(w) == Journal(w, "prepared", "prepared", "written")
\* Mutant: the graph is never validated.
JournalWrittenUnchecked(w) == Journal(w, "written", "revision_written", "publish")
JournalWritten(w) == Journal(w, "written", "revision_written", "validate")

\* validate_dependency_graph accepts the new graph, or raises.
GraphAccepted(w) == Journal(w, "validate", "revision_validated", "publish")

GraphRejected(w) ==
    /\ At(w, "validate")
    /\ Stop(w)
    /\ UNCHANGED <<req, crashes, apps, journalVars, planVars, leaseVars>>

\* The revision file: which tasks come out ready is up to the response and the
\* recomputed dependencies; a replaced source task is superseded for good.
PublishRevision(w) ==
    LET a == wk[w].app
        q == wk[w].rec.req
        old == revs[wk[w].src].superseded
    IN
    /\ At(w, "publish")
    /\ \E ready \in SUBSET Tasks :
          revs' = [revs EXCEPT ![a] =
              [parent |-> wk[w].src, ready |-> ready,
               superseded |-> IF req[q].kind = "replace_task_with_subtasks"
                              THEN old \cup {q} ELSE old]]
    /\ published' = published \cup {a}
    /\ Goto(w, "published")
    /\ UNCHANGED <<req, crashes, apps, journalVars, active, leaseVars>>

\* Mutant: the journal is one phase ahead.
JournalPublishedAhead(w) == Journal(w, "published", "pointer_updated", "check_pointer")
JournalPublished(w) == Journal(w, "published", "revision_published", "check_pointer")

\* The pointer must still be the plan's source, or the command raises.
PointerUnchanged(w) ==
    /\ At(w, "check_pointer")
    /\ active = wk[w].src
    /\ Goto(w, "set_pointer")
    /\ UNCHANGED <<req, crashes, apps, journalVars, planVars, leaseVars>>

PointerMoved(w) ==
    /\ At(w, "check_pointer")
    /\ active # wk[w].src
    /\ Stop(w)
    /\ UNCHANGED <<req, crashes, apps, journalVars, planVars, leaseVars>>

SetPointer(w) ==
    /\ At(w, "set_pointer")
    /\ active' = wk[w].app
    /\ Goto(w, "pointed")
    /\ UNCHANGED <<req, crashes, apps, journalVars, published, revs, leaseVars>>

JournalPointer(w) == Journal(w, "pointed", "pointer_updated", "applied")

MarkApplied(w) ==
    /\ At(w, "applied")
    /\ Transition(w, "applied", "finalize")
    /\ UNCHANGED <<req, crashes, journalVars, planVars, leaseVars>>

\* The second save of the applied record: only this one names the revision,
\* and decides whether local execution may resume.
FinalizeRecord(w) ==
    LET a == wk[w].app
        rec == [wk[w].rec EXCEPT !.rev = a, !.eligible = (revs[a].ready # {})]
    IN
    /\ At(w, "finalize")
    /\ apps' = [apps EXCEPT ![a] = rec]
    /\ wk' = [wk EXCEPT ![w].pc = "updated", ![w].rec = rec]
    /\ UNCHANGED <<req, crashes, journalVars, planVars, leaseVars>>

JournalUpdated(w) == Journal(w, "updated", "application_updated", "audited")
JournalAudited(w) ==
    Journal(w, "audited", "audit_completed", IF wk[w].rec.eligible THEN "pending" ELSE "commit")

OfferResume(w) ==
    /\ At(w, "pending")
    /\ Transition(w, "resume_pending", "commit")
    /\ UNCHANGED <<req, crashes, journalVars, planVars, leaseVars>>

Commit(w) ==
    /\ At(w, "commit")
    /\ SavePhase(w, "committed")
    /\ Stop(w)
    /\ UNCHANGED <<req, crashes, apps, undo, planVars, leaseVars>>

Apply(w) ==
    \/ \E q \in Requests : PlanApply(w, q)
    \/ SavePlan(w) \/ ReadyToApply(w) \/ OpenTransaction(w) \/ BeginApplying(w)
    \/ JournalPrepared(w) \/ JournalWritten(w) \/ GraphAccepted(w) \/ GraphRejected(w)
    \/ PublishRevision(w) \/ JournalPublished(w) \/ PointerUnchanged(w) \/ PointerMoved(w)
    \/ SetPointer(w) \/ JournalPointer(w) \/ MarkApplied(w) \/ FinalizeRecord(w)
    \/ JournalUpdated(w) \/ JournalAudited(w) \/ OfferResume(w) \/ Commit(w)

-----------------------------------------------------------------------------
(* resume                                                                  *)

\* _load_application_for_request: of the request's applications, the latest
\* one that has a revision, or else the latest one.
HasRevision(a) == apps[a].rev # NoRev
Preferred(a, q) ==
    /\ apps[a].status # "none" /\ apps[a].req = q
    /\ \A b \in Apps : apps[b].req = q /\ b # a =>
          \/ HasRevision(a) /\ ~HasRevision(b)
          \/ (HasRevision(a) <=> HasRevision(b)) /\ b < a

\* The reads of resume: every refusal before the first write changes nothing.
ResumeStart(w, q) ==
    /\ At(w, "idle")
    /\ \E a \in Apps :
          /\ Preferred(a, q)
          /\ HasRevision(a)
          /\ active = apps[a].rev
          /\ apps[a].eligible
          /\ "resuming" \in TransitionMap[apps[a].status]
          /\ wk' = [wk EXCEPT ![w] = [IdleWorker EXCEPT !.pc = "begin_resume", !.app = a,
                       !.rec = apps[a], !.todo = revs[apps[a].rev].ready]]
    /\ UNCHANGED <<req, crashes, apps, journalVars, planVars, leaseVars>>

BeginResume(w) ==
    /\ At(w, "begin_resume")
    /\ Transition(w, "resuming", "lease")
    /\ UNCHANGED <<req, crashes, journalVars, planVars, leaseVars>>

\* _create_lease, once per task to resume.
CreateLease(w) ==
    /\ At(w, "lease")
    /\ \E t \in wk[w].todo, l \in LeaseIds :
          /\ \A m \in LeaseIds : (leases[m].state = "none") <=> (m >= l)
          /\ leases' = [leases EXCEPT ![l] =
                [state |-> "active", rev |-> wk[w].rec.rev, task |-> t, done |-> FALSE]]
          /\ wk' = [wk EXCEPT ![w].todo = @ \ {t}, ![w].mine = @ \cup {l}]
    /\ UNCHANGED <<req, crashes, apps, journalVars, planVars, pubs>>

\* The second pointer check; it stands outside the try, so a pointer that has
\* moved leaves the application resuming and its leases active.
StartExecution(w) ==
    /\ At(w, "lease")
    /\ wk[w].todo = {}
    /\ active = wk[w].rec.rev
    /\ wk' = [wk EXCEPT ![w].pc = "execute", ![w].todo = revs[wk[w].rec.rev].ready]
    /\ UNCHANGED <<req, crashes, apps, journalVars, planVars, leaseVars>>

ResumePointerMoved(w) ==
    /\ At(w, "lease")
    /\ wk[w].todo = {}
    /\ active # wk[w].rec.rev
    /\ Stop(w)
    /\ UNCHANGED <<req, crashes, apps, journalVars, planVars, leaseVars>>

\* run_runtime_revision_execution completes, or ends with an exception or an
\* unreadable state ("failed") or another status ("cancelled").
ExecutionCompletes(w) ==
    /\ At(w, "execute")
    /\ Goto(w, "gate")
    /\ UNCHANGED <<req, crashes, apps, journalVars, planVars, leaseVars>>

\* Once the run completed a task may still be incomplete ("cancelled") or have
\* no result file ("failed").
ExecutionFails(w) ==
    /\ At(w, "execute") \/ (At(w, "gate") /\ wk[w].todo # {})
    /\ \E bad \in {"failed", "cancelled"} :
          wk' = [wk EXCEPT ![w].pc = "invalidate", ![w].bad = bad]
    /\ UNCHANGED <<req, crashes, apps, journalVars, planVars, leaseVars>>

\* _lease_for_task: the first lease file of the revision and task, in the order
\* of random ids; it need not be a lease this command created.
LeaseFor(w, t, l) == leases[l].rev = wk[w].rec.rev /\ leases[l].task = t

\* validate_publication_gate, as far as it depends on the files.
GateOpen(w, l) ==
    /\ leases[l].state = "active"
    /\ ~leases[l].done
    /\ active = wk[w].rec.rev
    /\ l \notin pubs

\* Mutant: the lease is completed without its result.
GatePassesUnpublished(w) ==
    /\ At(w, "gate")
    /\ \E t \in wk[w].todo, l \in LeaseIds :
          /\ LeaseFor(w, t, l)
          /\ GateOpen(w, l)
          /\ wk' = [wk EXCEPT ![w].pc = "complete", ![w].todo = @ \ {t}, ![w].lease = l]
    /\ UNCHANGED <<req, crashes, apps, journalVars, planVars, leaseVars>>

GatePasses(w) ==
    /\ At(w, "gate")
    /\ \E t \in wk[w].todo, l \in LeaseIds :
          /\ LeaseFor(w, t, l)
          /\ GateOpen(w, l)
          /\ wk' = [wk EXCEPT ![w].pc = "publication", ![w].todo = @ \ {t}, ![w].lease = l]
    /\ UNCHANGED <<req, crashes, apps, journalVars, planVars, leaseVars>>

\* The gate rejects: the files forbid it, or the validation of the result did
\* not pass (which any lease may meet).
GateRejects(w) ==
    /\ At(w, "gate")
    /\ \E t \in wk[w].todo, l \in LeaseIds : LeaseFor(w, t, l)
    /\ wk' = [wk EXCEPT ![w].pc = "invalidate", ![w].bad = "stale"]
    /\ UNCHANGED <<req, crashes, apps, journalVars, planVars, leaseVars>>

SavePublication(w) ==
    /\ At(w, "publication")
    /\ pubs' = pubs \cup {wk[w].lease}
    /\ Goto(w, "complete")
    /\ UNCHANGED <<req, crashes, apps, journalVars, planVars, leases>>

CompleteLease(w) ==
    /\ At(w, "complete")
    /\ leases' = [leases EXCEPT ![wk[w].lease].state = "completed", ![wk[w].lease].done = TRUE]
    /\ wk' = [wk EXCEPT ![w].pc = "gate", ![w].lease = 0]
    /\ UNCHANGED <<req, crashes, apps, journalVars, planVars, pubs>>

\* Mutant: the application is resumed before every task was published.
ResumeFinishEarly(w) ==
    /\ At(w, "gate")
    /\ SaveStatus(w, "resumed")
    /\ Stop(w)
    /\ UNCHANGED <<req, crashes, journalVars, planVars, leaseVars>>

ResumeFinish(w) ==
    /\ At(w, "gate")
    /\ wk[w].todo = {}
    /\ SaveStatus(w, "resumed")
    /\ Stop(w)
    /\ UNCHANGED <<req, crashes, journalVars, planVars, leaseVars>>

\* _invalidate_resume_leases: every lease of this attempt, whatever its state.
\* (It reads them all before the first write; a lease that is neither active nor
\* completed is never read for its result again.)
InvalidateLease(w) ==
    /\ At(w, "invalidate")
    /\ \E l \in wk[w].mine :
          /\ leases' = [leases EXCEPT ![l].state = wk[w].bad]
          /\ wk' = [wk EXCEPT ![w].mine = @ \ {l}]
    /\ UNCHANGED <<req, crashes, apps, journalVars, planVars, pubs>>

ResumeFailed(w) ==
    /\ At(w, "invalidate")
    /\ wk[w].mine = {}
    /\ SaveStatus(w, "resume_failed")
    /\ Stop(w)
    /\ UNCHANGED <<req, crashes, journalVars, planVars, leaseVars>>

Resume(w) ==
    \/ \E q \in Requests : ResumeStart(w, q)
    \/ BeginResume(w) \/ CreateLease(w) \/ StartExecution(w) \/ ResumePointerMoved(w)
    \/ ExecutionCompletes(w) \/ ExecutionFails(w) \/ GatePasses(w) \/ GateRejects(w)
    \/ SavePublication(w) \/ CompleteLease(w) \/ ResumeFinish(w)
    \/ InvalidateLease(w) \/ ResumeFailed(w)

-----------------------------------------------------------------------------
(* rollback                                                                *)

\* Only the record is read first: a resume of the same application may start
\* before the rest is.
RollbackStart(w, a) ==
    /\ At(w, "idle")
    /\ apps[a].status \in RollbackFrom
    /\ HasRevision(a)
    /\ wk' = [wk EXCEPT ![w] = [IdleWorker EXCEPT !.pc = "rollback", !.app = a, !.rec = apps[a]]]
    /\ UNCHANGED <<req, crashes, apps, journalVars, planVars, leaseVars>>

Undoable(rev) == revs[rev].parent # NoRev /\ active = rev

RollbackReads(w) ==
    /\ At(w, "rollback")
    /\ Undoable(wk[w].rec.rev)
    /\ wk' = [wk EXCEPT ![w].pc = "open_undo",
                 ![w].mine = {l \in LeaseIds : leases[l].rev = active /\ leases[l].state = "active"}]
    /\ UNCHANGED <<req, crashes, apps, journalVars, planVars, leaseVars>>

RollbackRefused(w) ==
    /\ At(w, "rollback")
    /\ ~Undoable(wk[w].rec.rev)
    /\ Stop(w)
    /\ UNCHANGED <<req, crashes, apps, journalVars, planVars, leaseVars>>

\* The rollback transaction is saved before the transition is validated: from
\* rollback_failed the command raises and the record stays "prepared".
OpenUndo(w) ==
    /\ At(w, "open_undo")
    /\ undo' = [undo EXCEPT ![wk[w].app] = "prepared"]
    /\ IF "rolling_back" \in TransitionMap[wk[w].rec.status]
       THEN Goto(w, "rolling_back")
       ELSE Stop(w)
    /\ UNCHANGED <<req, crashes, apps, txn, planVars, leaseVars>>

BeginRollback(w) ==
    /\ At(w, "rolling_back")
    /\ Transition(w, "rolling_back", "stale_leases")
    /\ UNCHANGED <<req, crashes, journalVars, planVars, leaseVars>>

\* Each lease that was active when the command started is written back stale.
StaleLease(w) ==
    /\ At(w, "stale_leases")
    /\ \E l \in wk[w].mine :
          /\ leases' = [leases EXCEPT ![l].state = "stale", ![l].done = FALSE]
          /\ wk' = [wk EXCEPT ![w].mine = @ \ {l}]
    /\ UNCHANGED <<req, crashes, apps, journalVars, planVars, pubs>>

RecheckPointer(w) ==
    /\ At(w, "stale_leases")
    /\ wk[w].mine = {}
    /\ Goto(w, IF active = wk[w].rec.rev THEN "restore" ELSE "undo_failed")
    /\ UNCHANGED <<req, crashes, apps, journalVars, planVars, leaseVars>>

JournalUndoFailed(w) ==
    /\ At(w, "undo_failed")
    /\ undo' = [undo EXCEPT ![wk[w].app] = "rollback_failed"]
    /\ Goto(w, "rollback_failed")
    /\ UNCHANGED <<req, crashes, apps, txn, planVars, leaseVars>>

RollbackFailed(w) ==
    /\ At(w, "rollback_failed")
    /\ SaveStatus(w, "rollback_failed")
    /\ Stop(w)
    /\ UNCHANGED <<req, crashes, journalVars, planVars, leaseVars>>

\* Mutant: the revision before the one to restore.
RestorePointerTooFar(w) ==
    /\ At(w, "restore")
    /\ active' = revs[revs[wk[w].rec.rev].parent].parent
    /\ Goto(w, "undo_done")
    /\ UNCHANGED <<req, crashes, apps, journalVars, published, revs, leaseVars>>

\* Mutant: always back to the bootstrap revision.
RestorePointerToRoot(w) ==
    /\ At(w, "restore")
    /\ active' = Root
    /\ Goto(w, "undo_done")
    /\ UNCHANGED <<req, crashes, apps, journalVars, published, revs, leaseVars>>

RestorePointer(w) ==
    /\ At(w, "restore")
    /\ active' = revs[wk[w].rec.rev].parent
    /\ Goto(w, "undo_done")
    /\ UNCHANGED <<req, crashes, apps, journalVars, published, revs, leaseVars>>

JournalUndoDone(w) ==
    /\ At(w, "undo_done")
    /\ undo' = [undo EXCEPT ![wk[w].app] = "rolled_back"]
    /\ Goto(w, "rolled_back")
    /\ UNCHANGED <<req, crashes, apps, txn, planVars, leaseVars>>

MarkRolledBack(w) ==
    /\ At(w, "rolled_back")
    /\ Transition(w, "rolled_back", "retarget")
    /\ UNCHANGED <<req, crashes, journalVars, planVars, leaseVars>>

\* The second save: the record now names the revision that was restored.
RetargetRecord(w) ==
    /\ At(w, "retarget")
    /\ apps' = [apps EXCEPT ![wk[w].app] =
                   [wk[w].rec EXCEPT !.rev = revs[wk[w].rec.rev].parent]]
    /\ Stop(w)
    /\ UNCHANGED <<req, crashes, journalVars, planVars, leaseVars>>

Rollback(w) ==
    \/ \E a \in Apps : RollbackStart(w, a)
    \/ RollbackReads(w) \/ RollbackRefused(w) \/ OpenUndo(w) \/ BeginRollback(w) \/ StaleLease(w) \/ RecheckPointer(w)
    \/ JournalUndoFailed(w) \/ RollbackFailed(w) \/ RestorePointer(w)
    \/ JournalUndoDone(w) \/ MarkRolledBack(w) \/ RetargetRecord(w)

-----------------------------------------------------------------------------
(* recover                                                                 *)

\* The plan checksum the journal must still hold is the one of the plan file.
PlanSumMatches(a) == txn[a].planSum

Interrupted(a) == apps[a].status = "applying" /\ txn[a].phase \in UnpublishedPhases
\* Mutant: recover moves the pointer before the revision is there.
PointerPendingEarly(a) ==
    /\ txn[a].phase = "revision_validated"
    /\ active = txn[a].src
PointerPending(a) ==
    /\ txn[a].phase = "revision_published"
    /\ active = txn[a].src
    /\ PlanSumMatches(a)
StatusPending(a) ==
    /\ txn[a].phase = "pointer_updated"
    /\ active = a
    /\ PlanSumMatches(a)
    /\ apps[a].status = "applying"

\* The journal, the pointer and the applications are read first; what recover
\* rewrites is decided from that reading alone.
RecoverScan(w) ==
    /\ At(w, "idle")
    /\ wk' = [wk EXCEPT ![w] = [IdleWorker EXCEPT !.pc = "recover", !.fix =
                 [kind: {"fail"}, app: {a \in Apps : Interrupted(a)}]
                 \cup [kind: {"point"}, app: {a \in Apps : PointerPending(a)}]
                 \cup [kind: {"finish"}, app: {a \in Apps : StatusPending(a)}]]]
    /\ UNCHANGED <<req, crashes, apps, journalVars, planVars, leaseVars>>

\* What recover makes of an application record: it saves the record it read
\* with another status, without validate_application_transition.
Repaired(f) ==
    [apps[f.app] EXCEPT
        !.status = IF f.kind = "fail" THEN "application_validation_failed" ELSE "applied",
        !.rev = IF f.kind = "fail" THEN NoRev ELSE f.app,
        !.eligible = FALSE]

RecoverWrite(w) ==
    /\ At(w, "recover")
    /\ \E f \in wk[w].fix :
          /\ active' = IF f.kind = "point" THEN f.app ELSE active
          /\ apps' = IF f.kind = "point" THEN apps ELSE [apps EXCEPT ![f.app] = Repaired(f)]
          /\ wk' = [wk EXCEPT ![w].fix = @ \ {f}]
    /\ UNCHANGED <<req, crashes, journalVars, published, revs, leaseVars>>

RecoverDone(w) ==
    /\ At(w, "recover")
    /\ wk[w].fix = {}
    /\ Stop(w)
    /\ UNCHANGED <<req, crashes, apps, journalVars, planVars, leaseVars>>

Recover(w) ==
    RecoverScan(w) \/ RecoverWrite(w) \/ RecoverDone(w)

-----------------------------------------------------------------------------

\* The process dies, or an exception escapes the command.
Crash(w) ==
    /\ ~At(w, "idle")
    /\ crashes < MaxCrashes
    /\ crashes' = crashes + 1
    /\ Stop(w)
    /\ UNCHANGED <<req, apps, journalVars, planVars, leaseVars>>

\* Bound: a command that would draw an id beyond MaxApps or MaxLeases stops there.
OutOfIds(w) ==
    /\ \/ At(w, "save_plan") /\ \A a \in Apps : apps[a].status # "none"
       \/ At(w, "lease") /\ wk[w].todo # {} /\ \A l \in LeaseIds : leases[l].state # "none"
    /\ Stop(w)
    /\ UNCHANGED <<req, crashes, apps, journalVars, planVars, leaseVars>>

Next ==
    \E w \in Workers :
        \/ \E q \in Requests : ImportResponse(w, q)
        \/ Apply(w) \/ Resume(w) \/ Rollback(w) \/ Recover(w)
        \/ Crash(w) \/ OutOfIds(w)

Spec == Init /\ [][Next]_vars
=============================================================================
