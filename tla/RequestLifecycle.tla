-------------------------- MODULE RequestLifecycle --------------------------
(***************************************************************************)
(* What the cloud queue promises about one request: it is packaged, sent,  *)
(* answered (perhaps several times) and decided, in that order, and a      *)
(* decision is final.  A request an interrupted command was moving may be  *)
(* lost, but only before it is decided.                                    *)
(***************************************************************************)
CONSTANT Requests

VARIABLE phase

Init == phase = [q \in Requests |-> "none"]

Move(q, from, to) ==
    /\ phase[q] \in from
    /\ phase' = [phase EXCEPT ![q] = to]

Package(q) == Move(q, {"none"}, "ready")
Send(q) == Move(q, {"ready"}, "sent")
Answer(q) == Move(q, {"sent"}, "answered")
Decide(q) == Move(q, {"ready", "sent", "answered"}, "decided")
Lose(q) == Move(q, {"ready", "sent", "answered"}, "lost")

Next == \E q \in Requests : Package(q) \/ Send(q) \/ Answer(q) \/ Decide(q) \/ Lose(q)

Spec == Init /\ [][Next]_phase
=============================================================================
