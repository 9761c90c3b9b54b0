------------------------------ MODULE TaskBoard ------------------------------
(***************************************************************************)
(* What local execution promises about the sub-tasks of a story: a task is *)
(* done one at a time, and only after everything it waits for under the    *)
(* plan in force; what is done is forgotten only as a whole, when a        *)
(* command starts over from nothing or from a runtime revision.            *)
(***************************************************************************)
CONSTANTS Tasks,   \* task ids
          Starts   \* what a runtime revision may declare done

VARIABLES rules,   \* the plan in force: what each task waits for
          done     \* the tasks that are done

Init == rules \in [Tasks -> SUBSET Tasks] /\ done = {}

\* A command takes up a plan.
Adopt == rules' \in [Tasks -> SUBSET Tasks] /\ UNCHANGED done

Complete(t) ==
    /\ t \notin done
    /\ rules[t] \subseteq done
    /\ done' = done \cup {t}
    /\ UNCHANGED rules

\* A run that does not resume, a state file lost in a crash, or the state a
\* runtime revision brings.
StartOver == done' \in {{}} \cup Starts /\ UNCHANGED rules

Next == Adopt \/ StartOver \/ \E t \in Tasks : Complete(t)

Spec == Init /\ [][Next]_<<rules, done>>
=============================================================================
