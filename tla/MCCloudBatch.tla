---------------------------- MODULE MCCloudBatch ----------------------------
(* CloudBatch on small instances. *)
EXTENDS CloudBatchProps, TLC

CONSTANTS w1, w2

\* 3 waits for 2, and 1 and 2 write the same paths: 3 is planned ahead of 2.
Inverted == {[deps |-> <<{}, {}, {2}>>, conflicts |-> {{1, 2}}, pending |-> {3}]}

AllCommands == Locked \cup {"create", "apply", "resume"}
\* The second operator overlaps with commands of the first, or runs between them;
\* cancel may overlap with itself, for all its lock.
Pair == [w \in {w1, w2} |-> IF w = w1 THEN AllCommands \ {"plan", "rollback"}
                            ELSE {"plan", "apply", "rollback", "cancel"}]
=============================================================================
