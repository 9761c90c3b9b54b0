---------------------------- MODULE MCStoryReview ----------------------------
(* StoryReview on a small repository. *)
EXTENDS StoryReviewProps, TLC

OutputSet == {"passed", "failed"}
PassingSet == {"passed"}
NoKinds == {}
KindSet == {"content"}
CONSTANTS e1, e2
OneExecutor == {e1}
TwoExecutors == {e1, e2}
Interchangeable == Permutations(TwoExecutors)
ThisRepository == [roots |-> TRUE, remote |-> "origin"]
Host(behind) == [roots |-> TRUE, remote |-> "origin", behind |-> behind]
CurrentHost == {Host(0)}
CloudSet == {"APPROVE", "REQUEST_CHANGES"}
Times(n, commands) == [c \in commands |-> n]
None0 == Times(0, Commands \cup {"edit", "commit", "crash"})
\* The evidence chain twice over, with a commit and with two commands that die.
EvidenceBudget ==
    Times(2, {"review-bundle", "record-local-execution", "crash"})
      @@ Times(1, {"record-local-review", "finalize-story", "commit"}) @@ None0
\* Every command and an edit once.
GatesBudget == Times(1, Commands \cup {"edit"}) @@ None0
RemoteSet == {"DEV_FAILED"}
=============================================================================
