--------------------------- MODULE CloudBatchProps ---------------------------
(***************************************************************************)
(* What a batch guarantees: whatever the interleaving of commands, and     *)
(* when one command runs at a time.                                        *)
(***************************************************************************)
EXTENDS CloudBatch

-----------------------------------------------------------------------------
(* Whatever the interleaving *)

Before(order, i, j) == \E a, b \in DOMAIN order : a < b /\ order[a] = i /\ order[b] = j

\* Every item is in exactly one wave of the plan, no two items of a wave write
\* the same paths, and within a wave an item comes after what it depends on
\* (build_execution_waves).  That its dependencies are in earlier waves is not
\* so: first fit may put a dependent ahead of them.
ScheduleSound ==
    plan # NoPlan =>
        /\ Len(FlattenSeq(plan.waves)) = N
        /\ ToSet(FlattenSeq(plan.waves)) = Items
        /\ \A k \in DOMAIN plan.waves : \A i, j \in ToSet(plan.waves[k]) :
              /\ i # j => {i, j} \notin graph.conflicts
              /\ i \in graph.deps[j] => Before(plan.waves[k], i, j)

\* No revision of an item exists before one of each item it depends on, though
\* the decision is made on a copy of the record that other commands overwrite
\* (_dependency_blockers, batch_dependency_ready_set).
DependenciesFirst ==
    \A i \in Items : revs[i].ver > 0 => \A d \in graph.deps[i] : revs[d].ver > 0

\* The record never claims a batch applied or resumed unless every item has
\* been, and was published for it; nor failed unless all have failed
\* (derive_batch_status, _persist_batch).
StatusTruthful ==
    /\ rec.status \in Success =>
          \A i \in Items : rec.items[i].status \in Success /\ rec.items[i].app \in 1..revs[i].ver
    /\ rec.status = "failed" => \A i \in Items : rec.items[i].status = "failed"

-----------------------------------------------------------------------------
(* One command at a time, dying anywhere *)

\* A failed, cancelled or resumed item stays so: no later import, retry, apply
\* or resume reopens it (TERMINAL_ITEM_STATUSES, BATCH_TERMINAL_STATUSES).
TerminalItemsStay ==
    [][ overlaps' = 0 => \A i \in Items :
          rec.items[i].status \in ResumeTerminal => rec'.items[i].status = rec.items[i].status ]_vars

NewlyFailed(i) == rec.items[i].status # "failed" /\ rec'.items[i].status = "failed"
NewlyBlocked(i) == rec.items[i].why # "dependency" /\ rec'.items[i].why = "dependency"

\* The save that records a failure also blocks whatever waits for it, through
\* any number of dependencies; and nothing else is blocked: an item is, only if
\* one it depends on has failed or is blocked (_propagate_dependency_blocks).
FailureSpreads ==
    [][ overlaps' = 0 =>
          /\ (\E f \in Items : NewlyFailed(f)) =>
                \A i \in Items : (\E d \in graph.deps[i] : NewlyFailed(d) \/ NewlyBlocked(d)) =>
                    rec'.items[i].status \in Terminal \cup {"validation_partial"}
          /\ \A i \in Items : NewlyBlocked(i) =>
                \E d \in graph.deps[i] : rec'.items[d].status \in Failure ]_vars

InFlight == {wk[w].item : w \in {v \in Operators : At(v, "done_item")}}

\* A crash loses the record of one published item at most: the others can be
\* found, and rolled back, from the batch record (_persist_batch after each item).
NothingForgotten ==
    overlaps = 0 => Cardinality({i \in Items \ InFlight : revs[i].ver # rec.items[i].app}) <= crashes

\* At the end of an apply an item is left over only if one it depends on did not
\* succeed, or was planned to come after it.
ApplyExhaustive ==
    \A w \in Operators : overlaps = 0 /\ At(w, "finish") /\ wk[w].cmd = "apply" =>
        \A i \in Items : Status(w, i) \notin Terminal =>
            \E d \in graph.deps[i] :
                Status(w, d) \notin Success \/ Before(FlattenSeq(plan.waves), i, d)

\* A batch is recorded as rolled back only when every application it recorded
\* has been, and the active revision is of none of them (rollback_batch).
RollbackRestores ==
    [][ overlaps = 0 /\ rec.status # "rolled_back" /\ rec'.status = "rolled_back" =>
          \A i \in Items : rec.items[i].app > 0 => apps[i] = "rolled_back" /\ active.rev # i ]_vars
=============================================================================
