--------------------------- MODULE BatchSchedule ---------------------------
(***************************************************************************)
(* The pure algorithms of cloud_batch/graph.py and planning.py: the order  *)
(* of the items of a batch and the waves they run in.  Items are numbered  *)
(* in the order of their ids; deps[i] is the set of items i depends on,    *)
(* conflicts the set of pairs {i, j} whose writable paths overlap.         *)
(***************************************************************************)
EXTENDS Naturals, FiniteSets, SequencesExt

SortedSeq(S) ==
    CHOOSE s \in [1..Cardinality(S) -> S] : \A a, b \in DOMAIN s : a < b => s[a] < s[b]

\* One turn of the loop of batch_dependency_topological_order: the first node that is ready
\* is ordered, and those that waited for it alone become ready, in the order of their ids.
Visit(deps, s) ==
    IF s.ready = <<>> THEN s
    ELSE LET node == Head(s.ready)
             remaining == [i \in DOMAIN deps |-> s.remaining[i] \ {node}]
             freed == {i \in DOMAIN deps : node \in deps[i] /\ remaining[i] = {}}
         IN [ready |-> Tail(s.ready) \o SortedSeq(freed), remaining |-> remaining,
             order |-> Append(s.order, node)]

FirstReady(deps) ==
    [ready |-> SortedSeq({i \in DOMAIN deps : deps[i] = {}}), remaining |-> deps, order |-> <<>>]

\* batch_dependency_topological_order.  A node left over after as many turns as
\* there are nodes is on a cycle or behind one.
TopologicalOrder(deps) ==
    LET after[n \in 0..Cardinality(DOMAIN deps)] ==
            IF n = 0 THEN FirstReady(deps) ELSE Visit(deps, after[n - 1])
    IN after[Cardinality(DOMAIN deps)].order

\* validate_batch_dependency_graph
ValidGraph(deps) ==
    /\ \A i \in DOMAIN deps : deps[i] \subseteq DOMAIN deps
    /\ Len(TopologicalOrder(deps)) = Cardinality(DOMAIN deps)

\* Mutant: the wave is not searched for overlaps.
WavesUnchecked(deps, conflicts) == <<TopologicalOrder(deps)>>

\* An item goes into the first wave none of whose items writes the same paths.
Place(conflicts, layers, i) ==
    LET free == {k \in DOMAIN layers : \A j \in ToSet(layers[k]) : {i, j} \notin conflicts}
    IN IF free = {} THEN Append(layers, <<i>>)
       ELSE [layers EXCEPT ![Min(free)] = Append(@, i)]

\* build_execution_waves and build_resume_groups: every item, in topological order.
Waves(deps, conflicts) ==
    LET order == TopologicalOrder(deps)
        placed[n \in 0..Len(order)] ==
            IF n = 0 THEN <<>> ELSE Place(conflicts, placed[n - 1], order[n])
    IN placed[Len(order)]

\* batch_dependency_ready_set
ReadySet(deps, completed) == {i \in DOMAIN deps \ completed : deps[i] \subseteq completed}

\* An item falls with those it depends on, unless it is settled.
Fall(deps, settled, hit, j) ==
    IF j \notin settled /\ deps[j] \cap hit # {} THEN hit \cup {j} ELSE hit

\* _propagate_dependency_blocks: the items that fall with item i, when those
\* in `settled` do not change any more.
Dependents(deps, i, settled) ==
    LET order == TopologicalOrder(deps)
        fallen[n \in 0..Len(order)] ==
            IF n = 0 THEN {i} ELSE Fall(deps, settled, fallen[n - 1], order[n])
    IN fallen[Len(order)] \ {i}
=============================================================================
