----------------------------- MODULE CloudBatch -----------------------------
(***************************************************************************)
(* One batch of cloud_batch/: its record and plan files, its lock files,   *)
(* and the commands import, plan-apply, apply, resume, retry, cancel and   *)
(* rollback, each a process of its own that may die between two steps.     *)
(*                                                                         *)
(* apply and resume take no lock, and every save writes the whole record   *)
(* from the copy in memory.  A call of the application service is one step *)
(* here (CloudApplication looks inside it); what matters is that the batch *)
(* gives an item the same application and revision id every time.  A       *)
(* revision is named by its item, and `ver` counts how often its file has  *)
(* been written.                                                           *)
(***************************************************************************)
EXTENDS BatchSchedule

CONSTANTS
    Operators,    \* command processes
    Commands,     \* the commands each of them runs
    N,            \* items of the batch
    Graphs,       \* dependencies and path conflicts a batch may come with, and the items
                  \* whose application may leave tasks to resume
    Bundles,      \* items a response bundle may have members for
    MaxCommands,  \* bound: commands that are started
    MaxFaults     \* bound: of them, those started while another one runs, or that
                  \* die half-way

Items == 1..N
Root == 0
Locked == {"import", "plan", "retry", "cancel", "rollback"}

ASSUME BoundsAssumption ==
    /\ N \in Nat \ {0}
    /\ MaxCommands \in Nat /\ MaxFaults \in Nat
    /\ Bundles \subseteq SUBSET Items
    /\ Commands \in [Operators -> SUBSET (Locked \cup {"create", "apply", "resume"})]
    /\ Graphs \subseteq [deps: [Items -> SUBSET Items], conflicts: SUBSET SUBSET Items, pending: SUBSET Items]

VARIABLES
    graph,     \* what the batch came with
    rec,       \* records/<batch>.yaml
    plan,      \* plans/<batch>.yaml
    locks,     \* locks/<batch>-<operation>.lock
    answered,  \* items whose response the queue has imported
    apps,      \* status of the application record of each item
    revs,      \* revision file of each item: parent revision and how often written
    active,    \* the active pointer: a revision and the version it was checked with
    stray,     \* items whose revision has leases left active
    wk,        \* what each command process holds in memory
    begun,     \* how many commands were started
    overlaps,  \* how many of them while another one was running
    crashes    \* how many of them have died

serviceVars == <<apps, revs, active, stray>>
fileVars == <<rec, plan, locks, answered>>
bookVars == <<overlaps, begun>>
vars == <<graph, fileVars, serviceVars, wk, bookVars, crashes>>

-----------------------------------------------------------------------------
(* Statuses *)

Success == {"applied", "resumed"}
Terminal == {"applied", "resumed", "failed", "cancelled"}
ResumeTerminal == {"resumed", "failed", "cancelled"}
Failure == {"failed", "cancelled", "validation_partial"}
ItemStatuses == Terminal \cup {"exported", "responses_imported", "validation_partial"}
BatchStatuses == ItemStatuses \cup
    {"planned", "partially_applied", "partially_resumed", "partially_failed",
     "validation_complete", "rolled_back", "partially_rolled_back"}

\* Why an item is validation_partial: result.blocked_by.
Reasons == {"none", "dependency", "pending", "halted"}
\* `app` is the version of its revision the item was applied with, 0 for none:
\* it stands for the item's application id and plan checksum.
Item == [status: ItemStatuses, why: Reasons, app: Nat]
NewItem == [status |-> "exported", why |-> "none", app |-> 0]

\* A plan's checksum stands for the items it was built from.
NoSum == [i \in Items |-> [status |-> "none", why |-> "none", app |-> 0]]
Sums == [Items -> Item] \cup {NoSum}
Record == [status: BatchStatuses \cup {"none"}, items: [Items -> Item], plan: Sums]
NoRecord == [status |-> "none", items |-> [i \in Items |-> NewItem], plan |-> NoSum]
NoPlan == [sum |-> NoSum, waves |-> <<>>]

\* Mutant: what is pending or blocked does not count.
DerivedStatusEager(items, resumed) ==
    LET Has(S) == \E i \in Items : items[i].status \in S
    IN CASE Has(Success) /\ ~Has({"failed"}) -> IF resumed THEN "resumed" ELSE "applied"
         [] ~Has(Success) /\ Has({"failed"}) -> "failed"
         [] OTHER -> "validation_complete"

\* derive_batch_status.  (responses_imported is counted neither as pending nor
\* as blocked.)
DerivedStatus(items, resumed) ==
    LET Has(S) == \E i \in Items : items[i].status \in S
        All(S) == \A i \in Items : items[i].status \in S
        open == Has({"exported", "validation_partial"})
    IN CASE All({"cancelled"}) -> "cancelled"
         [] All(Success) -> IF resumed THEN "resumed" ELSE "applied"
         [] All({"failed"}) -> "failed"
         [] Has(Success) /\ Has({"failed"}) -> IF resumed THEN "partially_resumed" ELSE "partially_failed"
         [] Has(Success) /\ ~Has({"failed"}) /\ open ->
                IF resumed THEN "partially_resumed" ELSE "partially_applied"
         [] ~Has(Success) /\ Has({"failed"}) /\ open -> "partially_failed"
         [] ~Has(Success \cup {"failed"}) /\ Has({"exported"}) -> "planned"
         [] OTHER -> "validation_complete"

-----------------------------------------------------------------------------
(* The application service, one step per call *)

AppStatuses == {"none", "applying", "applied", "resume_pending", "resuming", "resumed",
                "resume_failed", "rolling_back", "rolled_back"}
Version(r) == IF r = Root THEN 1 ELSE revs[r].ver

\* load_active_runtime_state raises when the pointer's checksum is not that of
\* the revision file.
Readable == active.ver = Version(active.rev)

Published(i) == [revs EXCEPT ![i] = [parent |-> active.rev, pver |-> active.ver, ver |-> @.ver + 1]]

\* plan_apply(request) on behalf of item i succeeds.
ServiceApplies(i) ==
    /\ Readable /\ i \in answered
    /\ \E st \in {"applied"} \cup (IF i \in graph.pending THEN {"resume_pending"} ELSE {}) :
          apps' = [apps EXCEPT ![i] = st]
    /\ revs' = Published(i)
    /\ active' = [rev |-> i, ver |-> revs[i].ver + 1]
    /\ UNCHANGED stray

\* It raises: before its first write, or with the application half done.
ServiceRefuses(i) ==
    /\ \/ UNCHANGED apps
       \/ i \in answered /\ Readable /\ apps' = [apps EXCEPT ![i] = "applying"]
    /\ UNCHANGED <<revs, active, stray>>

\* The process dies in it: before the revision is published, before the
\* pointer is moved, or after that.
ServiceDies(i) ==
    /\ Readable /\ i \in answered
    /\ apps' = [apps EXCEPT ![i] = "applying"]
    /\ \/ UNCHANGED <<revs, active>>
       \/ revs' = Published(i) /\ UNCHANGED active
       \/ revs' = Published(i) /\ active' = [rev |-> i, ver |-> revs[i].ver + 1]
    /\ UNCHANGED stray

\* resume(request): only of the active revision, only when it was left pending.
Resumable(i) ==
    /\ active.rev = i /\ active.ver = revs[i].ver
    /\ apps[i] = "resume_pending"

ServiceResumes(i) ==
    /\ Resumable(i)
    /\ apps' = [apps EXCEPT ![i] = "resumed"]
    /\ UNCHANGED <<revs, active, stray>>

\* It returns resume_failed, which is not an exception.
ServiceFailsResume(i) ==
    /\ Resumable(i)
    /\ apps' = [apps EXCEPT ![i] = "resume_failed"]
    /\ UNCHANGED <<revs, active, stray>>

\* It raises, before its first write or with leases already handed out.
ServiceRefusesResume(i) == ~Resumable(i) /\ UNCHANGED serviceVars

ServiceBreaksResume(i) ==
    /\ Resumable(i)
    /\ apps' = [apps EXCEPT ![i] = "resuming"]
    /\ stray' = stray \cup {i}
    /\ UNCHANGED <<revs, active>>

\* rollback(application): only of the active revision, onto the parent it has on file.
Undoable(i) ==
    /\ apps[i] \in {"applied", "resume_pending", "resumed"}
    /\ active.rev = i /\ active.ver = revs[i].ver
    /\ Version(revs[i].parent) = revs[i].pver

ServiceUndoes(i) ==
    /\ Undoable(i)
    /\ apps' = [apps EXCEPT ![i] = "rolled_back"]
    /\ active' = [rev |-> revs[i].parent, ver |-> revs[i].pver]
    /\ stray' = stray \ {i}
    /\ UNCHANGED revs

\* The process dies in it, before or after the pointer is restored.
ServiceDiesUndoing(i) ==
    /\ Undoable(i)
    /\ apps' = [apps EXCEPT ![i] = "rolling_back"]
    /\ stray' = stray \ {i}
    /\ \/ UNCHANGED active
       \/ active' = [rev |-> revs[i].parent, ver |-> revs[i].pver]
    /\ UNCHANGED revs

-----------------------------------------------------------------------------
(* Commands *)

Labels == {"idle", "lock", "read", "members", "unlock", "reread", "merge", "save_plan",
           "planned", "retried", "cancelled", "undo", "wave", "item", "done_item",
           "failed_item", "expect", "group", "resume_item", "resumed_item", "finish"}
Pointers == [rev: Items \cup {Root}, ver: Nat]
Worker == [pc: Labels, cmd: Locked \cup {"none", "apply", "resume"}, rec: Record,
           waves: Seq(Seq(Items)), todo: SUBSET Items, exp: Pointers, item: Items, was: Nat,
           got: SUBSET Items, flag: BOOLEAN]
Idle == [pc |-> "idle", cmd |-> "none", rec |-> NoRecord, waves |-> <<>>, todo |-> {},
         exp |-> [rev |-> Root, ver |-> 1], item |-> 1, was |-> 0, got |-> {}, flag |-> FALSE]

TypeOK ==
    /\ graph \in Graphs
    /\ rec \in Record
    /\ plan \in [sum: Sums, waves: Seq(Seq(Items))]
    /\ locks \subseteq Locked
    /\ answered \subseteq Items
    /\ apps \in [Items -> AppStatuses]
    /\ revs \in [Items -> [parent: Items \cup {Root}, pver: Nat, ver: Nat]]
    /\ active \in Pointers
    /\ stray \subseteq Items
    /\ wk \in [Operators -> Worker]
    /\ overlaps \in 0..MaxFaults
    /\ begun \in 0..MaxCommands
    /\ crashes \in 0..MaxFaults

\* The queue has requests to export; nothing is applied yet.
Init ==
    /\ graph \in Graphs
    /\ rec = NoRecord
    /\ plan = NoPlan
    /\ locks = {}
    /\ answered = {}
    /\ apps = [i \in Items |-> "none"]
    /\ revs = [i \in Items |-> [parent |-> Root, pver |-> 1, ver |-> 0]]
    /\ active = [rev |-> Root, ver |-> 1]
    /\ stray = {}
    /\ wk = [w \in Operators |-> Idle]
    /\ overlaps = 0
    /\ begun = 0
    /\ crashes = 0

At(w, label) == wk[w].pc = label
Lowest(S) == {i \in S : \A j \in S : i <= j}
Highest(S) == {i \in S : \A j \in S : j <= i}
Goto(w, label) == wk' = [wk EXCEPT ![w].pc = label]
Stop(w) == wk' = [wk EXCEPT ![w] = Idle]

\* A command starts.
Starts(w, cmd) ==
    /\ At(w, "idle") /\ cmd \in Commands[w]
    /\ begun < MaxCommands /\ begun' = begun + 1
    /\ overlaps' = overlaps + (IF \E v \in Operators \ {w} : ~At(v, "idle") THEN 1 ELSE 0)
    /\ overlaps' + crashes <= MaxFaults

\* export_batch: the graph is validated and the record written, once.
Create(w) ==
    /\ Starts(w, "create")
    /\ rec = NoRecord
    /\ ValidGraph(graph.deps)
    /\ rec' = [NoRecord EXCEPT !.status = "exported"]
    /\ UNCHANGED <<graph, plan, locks, answered, serviceVars, wk, crashes>>

\* acquire_batch_lock tests the file, and then writes it.  import has read the
\* record before that, and the members of the bundle are up to the operator.
Begin(w, cmd) ==
    /\ Starts(w, cmd) /\ cmd \in Locked
    /\ rec # NoRecord
    /\ cmd \notin locks
    /\ \E members \in IF cmd = "import" THEN Bundles ELSE {{}} :
          wk' = [wk EXCEPT ![w] = [Idle EXCEPT !.pc = "lock", !.cmd = cmd,
                     !.rec = IF cmd = "import" THEN rec ELSE NoRecord, !.todo = members]]
    /\ UNCHANGED <<graph, fileVars, serviceVars, crashes>>

TakeLock(w) ==
    /\ At(w, "lock")
    /\ locks' = locks \cup {wk[w].cmd}
    /\ Goto(w, IF wk[w].cmd = "import" THEN "members" ELSE "read")
    /\ UNCHANGED <<graph, rec, plan, answered, serviceVars, bookVars, crashes>>

\* The lock file goes, however the command ends, unless the process dies.
Unlock(w) ==
    /\ At(w, "unlock")
    /\ locks' = locks \ {wk[w].cmd}
    /\ IF wk[w].cmd = "import" THEN Goto(w, "reread") ELSE Stop(w)
    /\ UNCHANGED <<graph, rec, plan, answered, serviceVars, bookVars, crashes>>

ReadRecord(w) ==
    LET next == CASE wk[w].cmd = "plan" -> "save_plan"
                  [] wk[w].cmd = "retry" -> "retried"
                  [] wk[w].cmd = "cancel" -> "cancelled"
                  [] OTHER -> "undo"
        recorded == {i \in Items : rec.items[i].status \in Success \/ rec.items[i].app > 0}
    IN
    /\ At(w, "read")
    /\ wk' = [wk EXCEPT ![w].pc = next, ![w].rec = rec, ![w].todo = recorded]
    /\ UNCHANGED <<graph, fileVars, serviceVars, bookVars, crashes>>

-----------------------------------------------------------------------------
(* import                                                                  *)

\* A member is imported unless it is malformed, its item was terminal when the
\* command read the record, or it already has a response.  One that is imported
\* may still fail its validation, which counts as an invalid member.
ImportMember(w) ==
    /\ At(w, "members")
    /\ \E i \in Lowest(wk[w].todo) :
          LET importable == wk[w].rec.items[i].status \notin Terminal /\ i \notin answered
              left == wk[w].todo \ {i}
          IN \/ /\ importable
                /\ answered' = answered \cup {i}
                /\ \E valid \in BOOLEAN :
                      wk' = [wk EXCEPT ![w].todo = left, ![w].got = @ \cup {i}, ![w].flag = @ \/ ~valid]
             \/ /\ wk' = [wk EXCEPT ![w].todo = left, ![w].flag = TRUE]
                /\ UNCHANGED answered
    /\ UNCHANGED <<graph, rec, plan, locks, serviceVars, bookVars, crashes>>

ImportedAll(w) ==
    /\ At(w, "members") /\ wk[w].todo = {}
    /\ Goto(w, "unlock")
    /\ UNCHANGED <<graph, fileVars, serviceVars, bookVars, crashes>>

\* The record is read again, after the lock is gone.
Reread(w) ==
    /\ At(w, "reread")
    /\ wk' = [wk EXCEPT ![w].pc = "merge", ![w].rec = rec]
    /\ UNCHANGED <<graph, fileVars, serviceVars, bookVars, crashes>>

SaveImported(w) ==
    /\ At(w, "merge")
    /\ rec' = [wk[w].rec EXCEPT
                 !.status = IF wk[w].flag THEN "validation_partial" ELSE "responses_imported",
                 !.items = [i \in Items |-> IF i \in wk[w].got
                              THEN [@[i] EXCEPT !.status = "responses_imported", !.why = "none"]
                              ELSE @[i]]]
    /\ Stop(w)
    /\ UNCHANGED <<graph, plan, locks, answered, serviceVars, bookVars, crashes>>

-----------------------------------------------------------------------------
(* plan-apply, retry, cancel, rollback: each under its own lock            *)

\* The plan is built from previews of the applications, which write nothing
\* but may raise.
PlanFails(w) ==
    /\ At(w, "save_plan")
    /\ Goto(w, "unlock")
    /\ UNCHANGED <<graph, fileVars, serviceVars, bookVars, crashes>>

SavePlan(w) ==
    /\ At(w, "save_plan")
    /\ plan' = [sum |-> wk[w].rec.items, waves |-> Waves(graph.deps, graph.conflicts)]
    /\ Goto(w, "planned")
    /\ UNCHANGED <<graph, rec, locks, answered, serviceVars, bookVars, crashes>>

SavePlanned(w) ==
    /\ At(w, "planned")
    /\ rec' = [wk[w].rec EXCEPT !.status = "planned", !.plan = wk[w].rec.items]
    /\ Goto(w, "unlock")
    /\ UNCHANGED <<graph, plan, locks, answered, serviceVars, bookVars, crashes>>

\* Mutant: a retry reopens the items that failed.
SaveRetriedItems(w) ==
    /\ At(w, "retried")
    /\ rec' = [wk[w].rec EXCEPT !.status = "planned",
                 !.items = [i \in Items |-> IF @[i].status = "failed" THEN [@[i] EXCEPT !.status = "exported"]
                                            ELSE @[i]]]
    /\ Goto(w, "unlock")
    /\ UNCHANGED <<graph, plan, locks, answered, serviceVars, bookVars, crashes>>

\* retry_batch records an attempt (left out: nothing reads it) and reopens the
\* batch, but not its items.
SaveRetried(w) ==
    /\ At(w, "retried")
    /\ rec' = [wk[w].rec EXCEPT !.status = "planned"]
    /\ Goto(w, "unlock")
    /\ UNCHANGED <<graph, plan, locks, answered, serviceVars, bookVars, crashes>>

SaveCancelled(w) ==
    /\ At(w, "cancelled")
    /\ rec' = [wk[w].rec EXCEPT !.status = "cancelled",
                 !.items = [i \in Items |->
                     IF @[i].status \in {"applied", "resumed", "failed"} THEN @[i]
                     ELSE [@[i] EXCEPT !.status = "cancelled", !.why = "none"]]]
    /\ Goto(w, "unlock")
    /\ UNCHANGED <<graph, plan, locks, answered, serviceVars, bookVars, crashes>>

\* The last item of the record first.
UndoItem(w) ==
    /\ At(w, "undo")
    /\ \E i \in Highest(wk[w].todo) :
          /\ ServiceUndoes(i)
          /\ wk' = [wk EXCEPT ![w].todo = @ \ {i}]
    /\ UNCHANGED <<graph, fileVars, bookVars, crashes>>

\* Mutant: an item that cannot be rolled back is passed over.
UndoBlockedQuietly(w) ==
    /\ At(w, "undo")
    /\ \E i \in Highest(wk[w].todo) : ~Undoable(i) /\ wk' = [wk EXCEPT ![w].todo = @ \ {i}]
    /\ UNCHANGED <<graph, fileVars, serviceVars, bookVars, crashes>>

\* The first item that cannot be rolled back ends the command.
UndoBlocked(w) ==
    /\ At(w, "undo")
    /\ \E i \in Highest(wk[w].todo) : ~Undoable(i)
    /\ wk' = [wk EXCEPT ![w].todo = {}, ![w].flag = TRUE]
    /\ UNCHANGED <<graph, fileVars, serviceVars, bookVars, crashes>>

\* Only the status of the batch is changed, not those of its items.
SaveRolledBack(w) ==
    /\ At(w, "undo") /\ wk[w].todo = {}
    /\ rec' = [wk[w].rec EXCEPT
                 !.status = IF wk[w].flag THEN "partially_rolled_back" ELSE "rolled_back"]
    /\ Goto(w, "unlock")
    /\ UNCHANGED <<graph, plan, locks, answered, serviceVars, bookVars, crashes>>

-----------------------------------------------------------------------------
(* What apply and resume share                                             *)

\* _validate_plan_snapshot: the plan's checksum, and that of each item, when
\* both files have one.
SnapshotValid ==
    /\ rec # NoRecord /\ plan # NoPlan
    /\ rec.plan \in {NoSum, plan.sum}
    /\ \A i \in Items : 0 \in {rec.items[i].app, plan.sum[i].app} \/ rec.items[i].app = plan.sum[i].app

\* _persist_batch: the record in memory, with these items and the status they give.
Persist(w, items) ==
    rec' = [wk[w].rec EXCEPT !.items = items, !.status = DerivedStatus(items, wk[w].flag)]

Current(w) == Head(Head(wk[w].waves))
HasItem(w) == Head(wk[w].waves) # <<>>
AfterItem(w) == <<Tail(Head(wk[w].waves))>> \o Tail(wk[w].waves)
Status(w, i) == wk[w].rec.items[i].status

\* The command after the service was called for its current item.
Called(w, label) ==
    [wk[w] EXCEPT !.pc = label, !.item = Current(w), !.was = wk[w].rec.items[Current(w)].app]

Blockers(w, i) == {d \in graph.deps[i] : Status(w, d) \notin Success}
Marked(w, S, status, why) ==
    [i \in Items |-> IF i \in S THEN [wk[w].rec.items[i] EXCEPT !.status = status, !.why = why]
                     ELSE wk[w].rec.items[i]]

\* Mutant: the waves after the first are forgotten.
NextWaveNever(w) ==
    /\ wk[w].pc \in {"item", "resume_item"} /\ ~HasItem(w)
    /\ Goto(w, "finish")
    /\ UNCHANGED <<graph, fileVars, serviceVars, bookVars, crashes>>

\* The next wave, or the last save.
NextWave(w) ==
    LET loop == IF wk[w].cmd = "apply" THEN "wave" ELSE "group" IN
    /\ wk[w].pc \in {"item", "resume_item"} /\ ~HasItem(w)
    /\ wk' = [wk EXCEPT ![w].waves = Tail(@), ![w].pc = IF Tail(wk[w].waves) = <<>> THEN "finish" ELSE loop]
    /\ UNCHANGED <<graph, fileVars, serviceVars, bookVars, crashes>>

\* The expected revision is read again after every item that succeeded; if that
\* raises, the item has failed after all.
ReadExpected(w) ==
    LET loop == IF wk[w].cmd = "apply" THEN "item" ELSE "resume_item" IN
    /\ At(w, "expect")
    /\ wk' = IF Readable
             THEN [wk EXCEPT ![w].pc = loop, ![w].exp = active, ![w].waves = AfterItem(w)]
             ELSE [wk EXCEPT ![w].pc = "failed_item"]
    /\ UNCHANGED <<graph, fileVars, serviceVars, bookVars, crashes>>

\* _failed_item starts from the item as it was before the call.
Failed(w) ==
    [Marked(w, {wk[w].item}, "failed", "none") EXCEPT ![wk[w].item].app = wk[w].was]

\* Mutant: the dependents of a failed item are left alone.
SaveFailedAlone(w) ==
    LET items == Failed(w) IN
    /\ At(w, "failed_item")
    /\ Persist(w, items)
    /\ wk' = [wk EXCEPT ![w].pc = IF wk[w].cmd = "apply" THEN "item" ELSE "resume_item",
                        ![w].rec.items = items, ![w].waves = AfterItem(w)]
    /\ UNCHANGED <<graph, plan, locks, answered, serviceVars, bookVars, crashes>>

\* The exception of one item: it has failed, and its dependents are blocked.
SaveFailed(w) ==
    LET i == wk[w].item
        settled == {j \in Items : Status(w, j) \in Terminal}
        hit == Dependents(graph.deps, i, settled \cup {i})
        items == [j \in Items |-> IF j \in hit THEN [Failed(w)[j] EXCEPT !.status = "validation_partial",
                                                                          !.why = "dependency"]
                                  ELSE Failed(w)[j]]
    IN
    /\ At(w, "failed_item")
    /\ Persist(w, items)
    /\ wk' = [wk EXCEPT ![w].pc = IF wk[w].cmd = "apply" THEN "item" ELSE "resume_item",
                        ![w].rec.items = items, ![w].waves = AfterItem(w)]
    /\ UNCHANGED <<graph, plan, locks, answered, serviceVars, bookVars, crashes>>

Finish(w) ==
    /\ At(w, "finish")
    /\ Persist(w, wk[w].rec.items)
    /\ Stop(w)
    /\ UNCHANGED <<graph, plan, locks, answered, serviceVars, bookVars, crashes>>

-----------------------------------------------------------------------------
(* apply                                                                   *)

StartApply(w) ==
    /\ Starts(w, "apply")
    /\ SnapshotValid /\ Readable
    /\ wk' = [wk EXCEPT ![w] = [Idle EXCEPT !.pc = "wave", !.cmd = "apply", !.rec = rec,
                                            !.waves = plan.waves, !.exp = active]]
    /\ UNCHANGED <<graph, fileVars, serviceVars, crashes>>

\* Each wave starts from the record on file, or raises.
StartWave(w) ==
    /\ At(w, "wave")
    /\ SnapshotValid /\ Readable /\ active.rev = wk[w].exp.rev
    /\ wk' = [wk EXCEPT ![w].pc = "item", ![w].rec = [rec EXCEPT !.plan = plan.sum]]
    /\ UNCHANGED <<graph, fileVars, serviceVars, bookVars, crashes>>

WaveRefused(w) ==
    /\ At(w, "wave")
    /\ ~(SnapshotValid /\ Readable /\ active.rev = wk[w].exp.rev)
    /\ Stop(w)
    /\ UNCHANGED <<graph, fileVars, serviceVars, bookVars, crashes>>

\* Terminal items are passed over, and so are those that wait for an item
\* which has neither succeeded nor failed.
SkipItem(w) ==
    /\ At(w, "item") /\ HasItem(w)
    /\ \/ Status(w, Current(w)) \in Terminal
       \/ /\ Blockers(w, Current(w)) # {}
          /\ \A d \in Blockers(w, Current(w)) : Status(w, d) \notin Failure
    /\ wk' = [wk EXCEPT ![w].waves = AfterItem(w)]
    /\ UNCHANGED <<graph, fileVars, serviceVars, bookVars, crashes>>

BlockItem(w) ==
    LET items == Marked(w, {Current(w)}, "validation_partial", "dependency") IN
    /\ At(w, "item") /\ HasItem(w)
    /\ Status(w, Current(w)) \notin Terminal
    /\ \E d \in Blockers(w, Current(w)) : Status(w, d) \in Failure
    /\ Persist(w, items)
    /\ wk' = [wk EXCEPT ![w].rec.items = items, ![w].waves = AfterItem(w)]
    /\ UNCHANGED <<graph, plan, locks, answered, serviceVars, bookVars, crashes>>

\* Mutant: nothing but the item's own status is looked at.
RunnableAlone(w) == At(w, "item") /\ HasItem(w) /\ Status(w, Current(w)) \notin Terminal

Runnable(w) ==
    /\ At(w, "item") /\ HasItem(w)
    /\ Status(w, Current(w)) \notin Terminal
    /\ Blockers(w, Current(w)) = {}
    /\ Current(w) \in ReadySet(graph.deps, {j \in Items : Status(w, j) \in Success})

\* The pointer must be where the last item of this command left it.
ItemRefused(w) ==
    /\ Runnable(w)
    /\ ~(Readable /\ active.rev = wk[w].exp.rev)
    /\ Stop(w)
    /\ UNCHANGED <<graph, fileVars, serviceVars, bookVars, crashes>>

ApplyItem(w) ==
    /\ Runnable(w)
    /\ Readable /\ active.rev = wk[w].exp.rev
    /\ LET i == Current(w)
       IN \/ /\ ServiceApplies(i)
             /\ wk' = [wk EXCEPT ![w] = [Called(w, "done_item") EXCEPT !.rec.items[i].app = revs[i].ver + 1]]
          \/ /\ ServiceRefuses(i)
             /\ wk' = [wk EXCEPT ![w] = Called(w, "failed_item")]
    /\ UNCHANGED <<graph, fileVars, bookVars, crashes>>

\* Mutant: the record is kept in memory until the end.
SaveAppliedLater(w) ==
    LET items == Marked(w, {wk[w].item}, "applied", "none") IN
    /\ At(w, "done_item")
    /\ wk' = [wk EXCEPT ![w].pc = "expect", ![w].rec.items = items]
    /\ UNCHANGED <<graph, fileVars, serviceVars, bookVars, crashes>>

SaveApplied(w) ==
    LET items == Marked(w, {wk[w].item}, "applied", "none") IN
    /\ At(w, "done_item")
    /\ Persist(w, items)
    /\ wk' = [wk EXCEPT ![w].pc = "expect", ![w].rec.items = items]
    /\ UNCHANGED <<graph, plan, locks, answered, serviceVars, bookVars, crashes>>

-----------------------------------------------------------------------------
(* resume                                                                  *)

\* The items are those of the record read here, for the whole command.
StartResume(w) ==
    /\ Starts(w, "resume")
    /\ SnapshotValid /\ Readable
    /\ wk' = [wk EXCEPT ![w] = [Idle EXCEPT !.pc = "group", !.cmd = "resume", !.rec = rec,
                   !.waves = Waves(graph.deps, graph.conflicts), !.exp = active]]
    /\ UNCHANGED <<graph, fileVars, serviceVars, crashes>>

\* The rest of the record is read again before each group.
Reloaded(w) == [rec EXCEPT !.items = wk[w].rec.items, !.plan = plan.sum]

StartGroup(w) ==
    /\ At(w, "group")
    /\ SnapshotValid /\ Readable /\ active = wk[w].exp
    /\ wk' = [wk EXCEPT ![w].pc = "resume_item", ![w].rec = Reloaded(w)]
    /\ UNCHANGED <<graph, fileVars, serviceVars, bookVars, crashes>>

\* _remaining_resume_item_ids: what comes after the first item of the waves left.
Remaining(w) ==
    LET left == Tail(Head(wk[w].waves)) \o FlattenSeq(Tail(wk[w].waves))
    IN {i \in ToSet(left) : Status(w, i) \notin ResumeTerminal}

\* The pointer has moved: what remains is marked, except the group's first item.
GroupStale(w) ==
    LET items == Marked(w, Remaining(w), "validation_partial", "halted") IN
    /\ At(w, "group")
    /\ SnapshotValid /\ Readable /\ active # wk[w].exp
    /\ rec' = [Reloaded(w) EXCEPT !.items = items, !.status = DerivedStatus(items, wk[w].flag)]
    /\ wk' = [wk EXCEPT ![w].pc = "finish", ![w].rec = [Reloaded(w) EXCEPT !.items = items]]
    /\ UNCHANGED <<graph, plan, locks, answered, serviceVars, bookVars, crashes>>

AtResume(w) ==
    /\ At(w, "resume_item") /\ HasItem(w)
    /\ Status(w, Current(w)) \notin ResumeTerminal

\* The pointer has moved, or a lease left active on the active revision writes
\* to the item's paths: the item and what remains are marked.
HaltResume(w) ==
    LET items == Marked(w, {Current(w)} \cup Remaining(w), "validation_partial", "halted") IN
    /\ AtResume(w)
    /\ Readable
    /\ active # wk[w].exp \/ active.rev \in stray
    /\ Persist(w, items)
    /\ wk' = [wk EXCEPT ![w].pc = "finish", ![w].rec.items = items]
    /\ UNCHANGED <<graph, plan, locks, answered, serviceVars, bookVars, crashes>>

\* The pointer does not match its revision; before a group, so may the plan.
ResumeRefused(w) ==
    /\ At(w, "group") => ~(SnapshotValid /\ Readable)
    /\ ~At(w, "group") => AtResume(w) /\ ~Readable
    /\ Stop(w)
    /\ UNCHANGED <<graph, fileVars, serviceVars, bookVars, crashes>>

\* An item whose dependencies have not succeeded is blocked, in memory.
BlockResume(w) ==
    /\ AtResume(w)
    /\ Readable /\ active = wk[w].exp
    /\ Blockers(w, Current(w)) # {}
    /\ wk' = [wk EXCEPT ![w].rec.items = Marked(w, {Current(w)}, "validation_partial", "pending"),
                        ![w].waves = AfterItem(w)]
    /\ UNCHANGED <<graph, fileVars, serviceVars, bookVars, crashes>>

SkipResume(w) ==
    /\ At(w, "resume_item") /\ HasItem(w)
    /\ \/ Status(w, Current(w)) \in ResumeTerminal
       \/ /\ Readable /\ active = wk[w].exp
          /\ Blockers(w, Current(w)) = {}
          /\ Status(w, Current(w)) # "applied"
    /\ wk' = [wk EXCEPT ![w].waves = AfterItem(w)]
    /\ UNCHANGED <<graph, fileVars, serviceVars, bookVars, crashes>>

ResumeReady(w) ==
    /\ AtResume(w)
    /\ Readable /\ active = wk[w].exp
    /\ Blockers(w, Current(w)) = {}
    /\ Status(w, Current(w)) = "applied"

ResumeItem(w) ==
    LET i == Current(w) IN
    /\ ResumeReady(w)
    /\ \/ ServiceResumes(i) /\ wk' = [wk EXCEPT ![w] = [Called(w, "resumed_item") EXCEPT !.flag = TRUE]]
       \/ ServiceFailsResume(i) /\ wk' = [wk EXCEPT ![w] = Called(w, "resumed_item")]
       \/ ServiceBreaksResume(i) /\ wk' = [wk EXCEPT ![w] = Called(w, "failed_item")]
       \/ ServiceRefusesResume(i) /\ wk' = [wk EXCEPT ![w] = Called(w, "failed_item")]
    /\ UNCHANGED <<graph, fileVars, bookVars, crashes>>

\* Mutant: the item gets the status of its application.
SaveResumedStatus(w) ==
    LET items == Marked(w, {wk[w].item}, apps[wk[w].item], "none") IN
    /\ At(w, "resumed_item")
    /\ Persist(w, items)
    /\ wk' = [wk EXCEPT ![w].pc = "expect", ![w].rec.items = items]
    /\ UNCHANGED <<graph, plan, locks, answered, serviceVars, bookVars, crashes>>

\* Whatever the service returned, the item is resumed.
SaveResumed(w) ==
    LET items == Marked(w, {wk[w].item}, "resumed", "none") IN
    /\ At(w, "resumed_item")
    /\ Persist(w, items)
    /\ wk' = [wk EXCEPT ![w].pc = "expect", ![w].rec.items = items]
    /\ UNCHANGED <<graph, plan, locks, answered, serviceVars, bookVars, crashes>>

-----------------------------------------------------------------------------
\* A process dies between two steps: its memory is gone, its lock file is not.
Crash(w) ==
    /\ overlaps + crashes < MaxFaults
    /\ ~At(w, "idle")
    /\ Stop(w)
    /\ crashes' = crashes + 1
    /\ UNCHANGED <<graph, fileVars, serviceVars, bookVars>>

\* A process dies inside the application service.
CrashInService(w) ==
    /\ overlaps + crashes < MaxFaults
    /\ \/ Runnable(w) /\ Readable /\ active.rev = wk[w].exp.rev /\ ServiceDies(Current(w))
       \/ ResumeReady(w) /\ ServiceBreaksResume(Current(w))
       \/ At(w, "undo") /\ \E i \in Highest(wk[w].todo) : ServiceDiesUndoing(i)
    /\ Stop(w)
    /\ crashes' = crashes + 1
    /\ UNCHANGED <<graph, fileVars, bookVars>>

Apply(w) ==
    StartApply(w) \/ StartWave(w) \/ WaveRefused(w) \/ SkipItem(w) \/ BlockItem(w)
        \/ ItemRefused(w) \/ ApplyItem(w) \/ SaveApplied(w)

Resume(w) ==
    StartResume(w) \/ StartGroup(w) \/ GroupStale(w) \/ HaltResume(w)
        \/ ResumeRefused(w) \/ BlockResume(w) \/ SkipResume(w) \/ ResumeItem(w) \/ SaveResumed(w)

LockedCommand(w) ==
    (\E cmd \in Locked : Begin(w, cmd)) \/ TakeLock(w) \/ Unlock(w) \/ ReadRecord(w)
        \/ ImportMember(w) \/ ImportedAll(w) \/ Reread(w) \/ SaveImported(w)
        \/ PlanFails(w) \/ SavePlan(w) \/ SavePlanned(w) \/ SaveRetried(w) \/ SaveCancelled(w)
        \/ UndoItem(w) \/ UndoBlocked(w) \/ SaveRolledBack(w)

Next ==
    \E w \in Operators :
        Create(w) \/ LockedCommand(w) \/ Apply(w) \/ Resume(w) \/ NextWave(w) \/ ReadExpected(w)
            \/ SaveFailed(w) \/ Finish(w) \/ Crash(w) \/ CrashInService(w)

Spec == Init /\ [][Next]_vars
=============================================================================
