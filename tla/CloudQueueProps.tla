-------------------------- MODULE CloudQueueProps --------------------------
(***************************************************************************)
(* What the queue guarantees: whatever the interleaving, and when commands *)
(* run one at a time.                                                      *)
(***************************************************************************)
EXTENDS CloudQueue

-----------------------------------------------------------------------------
(* Whatever the interleaving *)

\* A file stands in a classified state, or is approved, only with a response
\* whose own classification put it there: no race binds an approval or a "safe"
\* to another response (classify_response, approve_cloud_queue_request).
ClassificationBinds ==
    \A q \in Requests :
        /\ \A s \in {"validated_safe", "validated_failed", "approval_required"} :
              HasFile(q, s) => files[q][s] \in Responses /\ Verdict(files[q][s]) = s
        /\ HasFile(q, "approved") => files[q]["approved"] \in Escalated
        /\ approvals[q] # "absent" => approvals[q] \in Escalated

-----------------------------------------------------------------------------
(* One command at a time, dying anywhere *)

\* A request is in one state (locate_request and list_request_paths each take
\* the first file they meet).
OneFilePerRequest ==
    \A q \in Requests, s, t \in States : HasFile(q, s) /\ HasFile(q, t) => s = t

\* An approval record locks the response the approved request is bound to, and
\* stays with it (record_approval, validate_eligibility).
ApprovalMatchesRequest ==
    \A q \in Requests : approvals[q] # "absent" => files[q]["approved"] = approvals[q]

\* A packet is replaced by the next export under its batch id (export_requests opens it
\* with mode "w").  While no two requests have the same batch id, a request that was
\* exported or answered is all the same in a packet that is there, wherever commands
\* died: the first request of a packet, whose batch id it has, is moved first, and once
\* it has left "ready" no export comes under that id again.
DistinctBatches == \A p, q \in ids : batch[p] = batch[q] => p = q
ExportedIsPacked ==
    DistinctBatches =>
        \A q \in Requests, s \in States :
            HasFile(q, s) /\ (s = "exported" \/ files[q][s] # "blank") =>
                \E b \in Batches : q \in packets[b].members

\* The phase of a request; while its file is being moved, the old one.
Moving(q, s) == \E w \in Workers : At(w, "write") /\ wk[w].q = q /\ wk[w].from = s
Answered == {"imported", "classified_safe", "approval_required", "validated_safe",
             "validated_failed"}
Decided == {"approved", "rejected", "canceled", "failed"}
Phase(q) ==
    LET In(S) == \E s \in S : HasFile(q, s) \/ Moving(q, s)
    IN  IF q \notin ids THEN "none"
        ELSE IF In({"ready"}) THEN "ready"
        ELSE IF In({"exported"}) THEN "sent"
        ELSE IF In(Answered) THEN "answered"
        ELSE IF In(Decided) THEN "decided"
        ELSE "lost"

\* The two-step moves of all commands implement the life of a request.
Lifecycle == INSTANCE RequestLifecycle WITH phase <- [q \in Requests |-> Phase(q)]
ImplementsLifecycle == Lifecycle!Spec
=============================================================================
