------------------------- MODULE MCCloudApplication -------------------------
(* CloudApplication on small instances; the cfgs choose how many commands   *)
(* run at the same time.  Tasks are interchangeable, requests are too.      *)
EXTENDS CloudApplicationProps, TLC

CONSTANTS q1, q2, t1, t2, w1, w2

Symmetry == Permutations(Requests) \cup Permutations(Tasks) \cup Permutations(Workers)

\* Bound: over what a crash left behind, two commands run at a time only if one
\* of them is recover.
RaceAfterCrash == crashes = 0 \/ \E w \in Workers : At(w, "idle") \/ At(w, "recover")
=============================================================================
