---------------------------- MODULE MCCloudQueue ----------------------------
(* CloudQueue on small instances. *)
EXTENDS CloudQueueProps, TLC

CONSTANTS q1, q2, w1, w2, b1, b2, safe, escalated, escalated2, faulty

Symmetry == Permutations(Requests) \cup Permutations(Escalated) \cup Permutations(Workers)
            \cup Permutations(Batches)
=============================================================================
