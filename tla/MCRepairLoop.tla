----------------------------- MODULE MCRepairLoop -----------------------------
(* RepairLoop on small files. *)
EXTENDS RepairLoopProps

ContentSet == {"unclean", "wrong", "good"}
CleanSet == {"wrong", "good"}
CorrectSet == {"unclean", "good"}
\* Accepted, accepted once its fence is removed, and rejected outputs.
OutputSet ==
    [fence : {"none"}, text : {"unclean", "good"}, flaw : {"none"}]
      \cup {[fence |-> "outer", text |-> "wrong", flaw |-> "none"],
            [fence |-> "none", text |-> "good", flaw |-> "banned"]}
Call(execute, python, tests, budget) ==
    [execute |-> execute, python |-> python, tests |-> tests, budget |-> budget]
RequestSet ==
    {Call(TRUE, TRUE, TRUE, 2), Call(TRUE, FALSE, TRUE, 2), Call(TRUE, TRUE, FALSE, 0),
     Call(FALSE, TRUE, FALSE, 2)}
=============================================================================
