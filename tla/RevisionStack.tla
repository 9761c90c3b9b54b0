---------------------------- MODULE RevisionStack ----------------------------
(***************************************************************************)
(* What the cloud-application service promises about the runtime plan: the *)
(* revisions in effect form a stack.  Applying a response pushes one fresh *)
(* revision built on the top, rolling an application back pops exactly     *)
(* that revision, and nothing else ever changes which plan is in effect.   *)
(***************************************************************************)
EXTENDS Naturals, Sequences

CONSTANT MaxApps

VARIABLES stack,  \* the lineage in effect, bootstrap revision first
          used    \* every revision that was ever pushed

Init == stack = <<0>> /\ used = {0}

\* apply: a revision that was never in effect before goes on top.
Push(r) ==
    /\ r \notin used
    /\ stack' = Append(stack, r)
    /\ used' = used \cup {r}

\* rollback: the revision on top leaves, the bootstrap revision never does.
Pop ==
    /\ Len(stack) > 1
    /\ stack' = SubSeq(stack, 1, Len(stack) - 1)
    /\ UNCHANGED used

Next == Pop \/ \E r \in 1..MaxApps : Push(r)

Spec == Init /\ [][Next]_<<stack, used>>
=============================================================================
