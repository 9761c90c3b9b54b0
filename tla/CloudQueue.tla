----------------------------- MODULE CloudQueue -----------------------------
(***************************************************************************)
(* The manual cloud queue of cloud_queue/: requests are created, exported  *)
(* in packets, answered by imported responses, classified and decided.     *)
(*                                                                         *)
(* A request is one YAML file in the directory of its state, and a move is *)
(* two file operations: the old file is removed, then the new one written. *)
(* Every command is a process of its own, there is no lock, and a command  *)
(* writes what it read when it started.  A response is a model value that  *)
(* stands for the normalised response and its checksums.                   *)
(***************************************************************************)
EXTENDS Naturals, FiniteSets

CONSTANTS
    Workers,      \* command processes
    Requests,     \* request ids
    Safe,         \* responses classify_response finds safe
    Escalated,    \* responses it sends to the operator
    Faulty,       \* responses it refuses
    Batches,      \* batch ids: the second a request was created in
    MaxCrashes    \* bound: commands that die half-way

Responses == Safe \cup Escalated \cup Faulty

ASSUME ResponseAssumption ==
    /\ Safe \cap Escalated = {} /\ Safe \cap Faulty = {} /\ Escalated \cap Faulty = {}
    /\ {"blank", "absent"} \cap Responses = {}
    /\ MaxCrashes \in Nat

VARIABLES
    files,      \* requests/<state>/<id>.yaml: the response the file is bound to
    deps,       \* the dependencies written into the request
    ids,        \* request ids drawn so far
    batch,      \* the batch id of a request
    packets,    \* exports/<batch>/<batch>.zip: who is in it, and who is alone in writing it
    imports,    \* imports/<id>.yaml
    approvals,  \* approvals/<id>.yaml: the response the operator approved
    wk,         \* what each command process holds in memory
    crashes     \* how many commands have died (only to bound them)

vars == <<files, deps, ids, batch, packets, imports, approvals, wk, crashes>>
static == <<deps, ids, batch>>

-----------------------------------------------------------------------------
(* state_machine.py *)

TransitionMap ==
    [ new |-> {"ready", "canceled", "failed"},
      ready |-> {"exported", "rejected", "canceled", "failed"},
      exported |-> {"imported", "failed"},
      imported |-> {"classified_safe", "approval_required", "validated_safe",
                    "validated_failed", "failed"},
      classified_safe |-> {"validated_safe", "approval_required", "rejected", "imported"},
      approval_required |-> {"approved", "rejected", "validated_failed", "imported"},
      validated_safe |-> {"canceled", "imported"},
      validated_failed |-> {"rejected", "canceled", "imported"},
      approved |-> {}, rejected |-> {}, canceled |-> {}, failed |-> {} ]

States == DOMAIN TransitionMap

\* load_requests walks the state directories in the order of their names.
Order ==
    [ approval_required |-> 1, approved |-> 2, canceled |-> 3, classified_safe |-> 4,
      exported |-> 5, failed |-> 6, imported |-> 7, new |-> 8, ready |-> 9,
      rejected |-> 10, validated_failed |-> 11, validated_safe |-> 12 ]

Resolved == {"validated_safe", "approved"}

\* classify_response.
Verdict(r) ==
    CASE r \in Safe -> "validated_safe"
      [] r \in Escalated -> "approval_required"
      [] OTHER -> "validated_failed"

-----------------------------------------------------------------------------
(* The files *)

Contents == Responses \cup {"blank", "absent"}

Labels == {"idle", "created", "opening", "packing", "sending", "response", "unlink", "write",
           "record"}
Packet == [members: SUBSET Requests, by: Workers \cup {"none"}]
Worker == [pc: Labels, q: Requests \cup {"none"}, from: States, to: States,
           resp: Responses \cup {"blank"}, todo: SUBSET Requests]
IdleWorker == [pc |-> "idle", q |-> "none", from |-> "new", to |-> "new",
               resp |-> "blank", todo |-> {}]

HasFile(q, s) == files[q][s] # "absent"
Located(q, s) == HasFile(q, s) /\ \A t \in States : HasFile(q, t) => Order[s] <= Order[t]

\* dependencies_resolved
DependenciesResolved(q) == \A d \in deps[q] : \E s \in Resolved : Located(d, s)

TypeOK ==
    /\ files \in [Requests -> [States -> Contents]]
    /\ deps \in [Requests -> SUBSET Requests]
    /\ ids \subseteq Requests
    /\ batch \in [Requests -> Batches \cup {"none"}]
    /\ packets \in [Batches -> Packet]
    /\ imports \in [Requests -> Responses \cup {"absent"}]
    /\ approvals \in [Requests -> Responses \cup {"blank", "absent"}]
    /\ wk \in [Workers -> Worker]
    /\ crashes \in 0..MaxCrashes

Init ==
    /\ files = [q \in Requests |-> [s \in States |-> "absent"]]
    /\ deps = [q \in Requests |-> {}]
    /\ ids = {}
    /\ batch = [q \in Requests |-> "none"]
    /\ packets = [b \in Batches |-> [members |-> {}, by |-> "none"]]
    /\ imports = [q \in Requests |-> "absent"]
    /\ approvals = [q \in Requests |-> "absent"]
    /\ wk = [w \in Workers |-> IdleWorker]
    /\ crashes = 0

-----------------------------------------------------------------------------
(* Steps of a command *)

At(w, label) == wk[w].pc = label
Stop(w) == wk' = [wk EXCEPT ![w] = IdleWorker]

\* The command goes on to move request q from one state to another, and will
\* write the given response into the new file.
MoveFrom(w, q, from, to, r, label) ==
    wk' = [wk EXCEPT ![w].pc = label, ![w].q = q, ![w].from = from, ![w].to = to, ![w].resp = r]

\* save_request writes the file of a new request under a fresh id.  The batch id
\* need not be: requests of the same second have the same.
CreateRequest(w, q) ==
    /\ At(w, "idle")
    /\ q \notin ids
    /\ ids' = ids \cup {q}
    /\ \E D \in SUBSET Requests : deps' = [deps EXCEPT ![q] = D]
    /\ \E b \in Batches : batch' = [batch EXCEPT ![q] = b]
    /\ files' = [files EXCEPT ![q]["ready"] = "blank"]
    /\ wk' = [wk EXCEPT ![w].pc = "created", ![w].q = q]
    /\ UNCHANGED <<packets, imports, approvals, crashes>>

\* The second save, with the id of the audit event; it overwrites.
SaveCreated(w) ==
    /\ At(w, "created")
    /\ files' = [files EXCEPT ![wk[w].q]["ready"] = "blank"]
    /\ Stop(w)
    /\ UNCHANGED <<static, packets, imports, approvals, crashes>>

Exportable(q) == HasFile(q, "ready") /\ DependenciesResolved(q)

\* One named request, or every ready one.  The packet goes under the batch id of
\* the first of them.
ExportStart(w) ==
    LET all == {q \in Requests : Exportable(q)}
    IN
    /\ At(w, "idle")
    /\ \E todo \in SUBSET Requests :
          /\ todo = all \/ \E q \in all : Located(q, "ready") /\ todo = {q}
          /\ \E first \in todo :
                wk' = [wk EXCEPT ![w].pc = "opening", ![w].q = first, ![w].todo = todo]
    /\ UNCHANGED <<files, static, packets, imports, approvals, crashes>>

BatchOf(w) == batch[wk[w].q]

\* ZipFile(path, "w") empties the packet an earlier export left under the batch id,
\* or the one another command is writing.
OpenPacket(w) ==
    LET shared == \E v \in Workers \ {w} : At(v, "packing") /\ BatchOf(v) = BatchOf(w)
    IN
    /\ At(w, "opening")
    /\ packets' = [packets EXCEPT ![BatchOf(w)] =
                      [members |-> {}, by |-> IF shared THEN "none" ELSE w]]
    /\ wk' = [wk EXCEPT ![w].pc = "packing"]
    /\ UNCHANGED <<files, static, imports, approvals, crashes>>

\* What can be read of the packet after it was closed: of two writers, anything.
ClosePacket(w, written) ==
    \E M \in SUBSET Requests :
        /\ packets[BatchOf(w)].by = w => M \in written
        /\ packets' = [packets EXCEPT ![BatchOf(w)] = [members |-> M, by |-> "none"]]

WritePacket(w) ==
    /\ At(w, "packing")
    /\ ClosePacket(w, {wk[w].todo})
    /\ wk' = [wk EXCEPT ![w].pc = "sending"]
    /\ UNCHANGED <<files, static, imports, approvals, crashes>>

\* A request cannot be packed (its context is gone, its file no longer ready): the
\* packet is closed with those before it.
PacketFails(w) ==
    /\ At(w, "packing")
    /\ ClosePacket(w, SUBSET wk[w].todo)
    /\ Stop(w)
    /\ UNCHANGED <<files, static, imports, approvals, crashes>>

Send(w, q) ==
    wk' = [wk EXCEPT ![w].pc = "unlink", ![w].q = q, ![w].from = "ready",
                     ![w].to = "exported", ![w].todo = @ \ {q}]

\* Mutant: in any order.
SendNextUnordered(w) ==
    /\ At(w, "sending")
    /\ \E q \in wk[w].todo : Send(w, q)
    /\ UNCHANGED <<files, static, packets, imports, approvals, crashes>>

\* The requests are moved one after the other, as they were read: in the order of
\* their names, of which the first gave the packet its batch id.
SendNext(w) ==
    /\ At(w, "sending")
    /\ \E q \in wk[w].todo :
          /\ wk[w].q \in wk[w].todo => q = wk[w].q
          /\ Send(w, q)
    /\ UNCHANGED <<files, static, packets, imports, approvals, crashes>>

SendDone(w) ==
    /\ At(w, "sending")
    /\ wk[w].todo = {}
    /\ Stop(w)
    /\ UNCHANGED <<files, static, packets, imports, approvals, crashes>>

\* import_single_response takes any file of the request it finds.
ImportStart(w, q) ==
    /\ At(w, "idle")
    /\ \E s \in States, r \in Responses :
          /\ HasFile(q, s)
          /\ MoveFrom(w, q, s, "imported", r, "response")
    /\ UNCHANGED <<files, static, packets, imports, approvals, crashes>>

\* The response replaces the imported one before the transition is validated.
SaveResponse(w) ==
    /\ At(w, "response")
    /\ imports' = [imports EXCEPT ![wk[w].q] = wk[w].resp]
    /\ IF "imported" \in TransitionMap[wk[w].from]
       THEN wk' = [wk EXCEPT ![w].pc = "unlink"]
       ELSE Stop(w)
    /\ UNCHANGED <<files, static, packets, approvals, crashes>>

\* Mutant: whatever the operator is shown may be approved.
ApproveAny(w, q) ==
    /\ At(w, "idle")
    /\ \E s \in Resolved \cup {"approval_required", "validated_failed"} :
          Located(q, s) /\ MoveFrom(w, q, s, "approved", files[q][s], "unlink")
    /\ UNCHANGED <<files, static, packets, imports, approvals, crashes>>

\* Mutant: the request is not located again, it is taken to await approval.
ApproveBlindly(w, q) ==
    /\ At(w, "idle")
    /\ MoveFrom(w, q, "approval_required", "approved", files[q]["approval_required"], "unlink")
    /\ UNCHANGED <<files, static, packets, imports, approvals, crashes>>

\* approve_cloud_queue_request: a checksum the operator names must be the one
\* the request is bound to.
Approve(w, q) ==
    /\ At(w, "idle")
    /\ Located(q, "approval_required")
    /\ MoveFrom(w, q, "approval_required", "approved", files[q]["approval_required"], "unlink")
    /\ UNCHANGED <<files, static, packets, imports, approvals, crashes>>

\* Mutant: the operator's refusals ignore the transition map.
DecideAlways(w, q) ==
    /\ At(w, "idle")
    /\ \E s \in States, to \in {"rejected", "canceled", "failed"} :
          /\ Located(q, s)
          /\ s # to
          /\ MoveFrom(w, q, s, to, files[q][s], "unlink")
    /\ UNCHANGED <<files, static, packets, imports, approvals, crashes>>

\* reject, cancel and fail.
Decide(w, q) ==
    /\ At(w, "idle")
    /\ \E s \in States, to \in {"rejected", "canceled", "failed"} :
          /\ Located(q, s)
          /\ to \in TransitionMap[s]
          /\ MoveFrom(w, q, s, to, files[q][s], "unlink")
    /\ UNCHANGED <<files, static, packets, imports, approvals, crashes>>

-----------------------------------------------------------------------------
(* move_request *)

\* Mutant: the old file stays.
UnlinkNothing(w) ==
    /\ At(w, "unlink")
    /\ wk' = [wk EXCEPT ![w].pc = "write"]
    /\ UNCHANGED <<files, static, packets, imports, approvals, crashes>>

Unlink(w) ==
    /\ At(w, "unlink")
    /\ HasFile(wk[w].q, wk[w].from)
    /\ files' = [files EXCEPT ![wk[w].q][wk[w].from] = "absent"]
    /\ wk' = [wk EXCEPT ![w].pc = "write"]
    /\ UNCHANGED <<static, packets, imports, approvals, crashes>>

\* Another command was first: seen by exists() the move goes on, seen by
\* unlink() the command raises.
UnlinkMissing(w) ==
    /\ At(w, "unlink")
    /\ ~HasFile(wk[w].q, wk[w].from)
    /\ wk' \in {[wk EXCEPT ![w].pc = "write"], [wk EXCEPT ![w] = IdleWorker]}
    /\ UNCHANGED <<files, static, packets, imports, approvals, crashes>>

\* What follows the move: the classification of an imported response, the
\* approval record, the next request of the packet, or nothing.
WriteMoved(w) ==
    LET q == wk[w].q
        to == wk[w].to
        r == wk[w].resp
    IN
    /\ At(w, "write")
    /\ files' = [files EXCEPT ![q][to] = r]
    /\ CASE to = "imported" -> MoveFrom(w, q, "imported", Verdict(r), r, "unlink")
         [] to = "approved" -> wk' = [wk EXCEPT ![w].pc = "record"]
         [] to = "exported" -> wk' = [wk EXCEPT ![w].pc = "sending"]
         [] OTHER -> Stop(w)
    /\ UNCHANGED <<static, packets, imports, approvals, crashes>>

\* Mutant: the record locks the response on disk, not the one that was approved.
RecordApprovalOfImport(w) ==
    /\ At(w, "record")
    /\ approvals' = [approvals EXCEPT ![wk[w].q] = imports[wk[w].q]]
    /\ Stop(w)
    /\ UNCHANGED <<files, static, packets, imports, crashes>>

RecordApproval(w) ==
    /\ At(w, "record")
    /\ approvals' = [approvals EXCEPT ![wk[w].q] = wk[w].resp]
    /\ Stop(w)
    /\ UNCHANGED <<files, static, packets, imports, crashes>>

\* The process dies, or an exception escapes the command.
Crash(w) ==
    /\ ~At(w, "idle")
    /\ crashes < MaxCrashes
    /\ crashes' = crashes + 1
    /\ Stop(w)
    /\ UNCHANGED <<files, static, packets, imports, approvals>>

Next ==
    \E w \in Workers :
        \/ \E q \in Requests :
              CreateRequest(w, q) \/ ImportStart(w, q) \/ Approve(w, q) \/ Decide(w, q)
        \/ SaveCreated(w) \/ ExportStart(w) \/ OpenPacket(w) \/ WritePacket(w) \/ PacketFails(w)
        \/ SendNext(w) \/ SendDone(w) \/ SaveResponse(w) \/ Unlink(w) \/ UnlinkMissing(w) \/ WriteMoved(w)
        \/ RecordApproval(w) \/ Crash(w)

Spec == Init /\ [][Next]_vars
=============================================================================
