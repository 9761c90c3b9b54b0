----------------------------- MODULE RepairLoop -----------------------------
(***************************************************************************)
(* The local repair loop (local_repair_loop.py): a local model is asked    *)
(* for a corrected version of one file, up to a budget of attempts.  Its   *)
(* output is validated, written over the target and checked with ruff and  *)
(* pytest; each attempt, the result and, when the budget is used up, a     *)
(* report for manual support are written under the reports of the story.   *)
(*                                                                         *)
(* Runs follow each other on the same files.  The developer may write the  *)
(* target while the model thinks, and a run may die between two steps or   *)
(* with the file it writes left empty.  Every file a run writes carries    *)
(* the number of the run, which the code does not write down.              *)
(***************************************************************************)
EXTENDS Naturals

CONSTANTS
    None,          \* a file that does not exist, or nothing
    Torn,          \* a file that was opened for writing and is empty
    Contents,      \* contents of the target
    Clean,         \* the contents that ruff accepts
    Correct,       \* the contents that pytest accepts
    Outputs,       \* what the local model may answer
    Requests,      \* the inputs of the command
    MaxRuns,       \* bound on the runs
    MaxEdits,      \* bound on the writes of the developer
    MaxCrashes     \* bound on the runs that die

Absent == {None, Torn}
RuntimeFailures ==
    {"local_model_timeout", "local_model_connection_error", "local_model_runtime_error"}
Rejections ==
    {"markdown_fence_in_strict_python", "malformed_output", "empty_local_output",
     "missing_required_api", "wrong_domain"}
CheckFailures == {"ruff_failure", "pytest_failure"}
Kinds == RuntimeFailures \cup Rejections \cup CheckFailures \cup {"repair_accepted"}

\* An output: its markdown fence, its text, and what is wrong with the text.
Fences == {"none", "outer", "broken"}
Flaws == {"none", "missing_api", "banned"}
Request == [execute : BOOLEAN, python : BOOLEAN, tests : BOOLEAN, budget : Nat]

\* The reports of a run.
AttemptReport == [run : Nat, kind : Kinds, applied : BOOLEAN, budget : {"within_budget", "exhausted"}]
ResultReport ==
    [run : Nat, status : RuntimeFailures \cup {"dry_run", "completed", "budget_exceeded"},
     applied : BOOLEAN, attempts : Nat, support : BOOLEAN]
SupportReport == [run : Nat, attempts : Nat]
PlanReport == [run : Nat, request : Requests]

ASSUME RepairAssumption ==
    /\ None \notin Kinds /\ Absent \cap AttemptReport = {}
    /\ Absent \cap Contents = {} /\ Clean \subseteq Contents /\ Correct \subseteq Contents
    /\ Outputs \subseteq [fence : Fences, text : Contents \cup {None}, flaw : Flaws]
    /\ Requests \subseteq Request
    /\ MaxRuns \in Nat /\ MaxEdits \in Nat /\ MaxCrashes \in Nat

VARIABLES
    target,    \* the file to repair
    disk,      \* the reports of the story
    loop,      \* the command that runs, or how the last one ended
    touched,   \* history: the run that was the last when the developer last wrote the target
    used       \* bound: edits and crashes so far

vars == <<target, disk, loop, touched, used>>

-----------------------------------------------------------------------------
(* Validation and checks *)

\* validate_repair_output, in the order of its tests; a fence is tolerated, and removed,
\* where the output need not be Python.
Validate(output, strict) ==
    IF strict /\ output.fence # "none" THEN "markdown_fence_in_strict_python"
    ELSE IF output.fence = "broken" THEN "malformed_output"
    ELSE IF output.text = None THEN "empty_local_output"
    ELSE IF output.flaw = "missing_api" THEN "missing_required_api"
    ELSE IF output.flaw = "banned" THEN "wrong_domain"
    ELSE "repair_accepted"

\* Mutant: ruff is no obstacle once there are tests.
CheckedLast(request) ==
    IF request.tests
    THEN IF target \in Correct THEN "repair_accepted" ELSE "pytest_failure"
    ELSE IF request.python /\ target \notin Clean THEN "ruff_failure" ELSE "repair_accepted"

\* ruff runs on Python files, pytest on the tests that were named and only after ruff.  What
\* ruff says of imports or of a fixture is labelled a contract violation; that label leads
\* nowhere else and counts as "ruff_failure" here.
Checked(request) ==
    IF request.python /\ target \notin Clean THEN "ruff_failure"
    ELSE IF request.tests /\ target \notin Correct THEN "pytest_failure"
    ELSE "repair_accepted"

Applied(kind) == kind \in CheckFailures \cup {"repair_accepted"}
ResultStatus(kind) ==
    CASE kind = "repair_accepted" -> "completed"
      [] kind \in RuntimeFailures -> kind
      [] OTHER -> "budget_exceeded"

-----------------------------------------------------------------------------
(* The state *)

\* "idle" follows the result of a run, "dead" a run that died.
Steps == {"idle", "dead", "plan", "invoke", "apply", "check", "attempt", "progress", "support", "result"}
Loop == [at : Steps, run : Nat, request : Requests \cup {None}, attempt : Nat,
         prompt : Contents \cup Absent, text : Contents \cup {None}, kind : Kinds \cup {None}]

Numbers == UNION {1..r.budget : r \in Requests}
Disk ==
    [plan : Absent \cup PlanReport, attempts : [Numbers -> Absent \cup AttemptReport],
     result : Absent \cup ResultReport, support : Absent \cup SupportReport]

Init ==
    /\ target \in Contents
    /\ disk = [plan |-> None, attempts |-> [n \in Numbers |-> None], result |-> None, support |-> None]
    /\ loop = [at |-> "idle", run |-> 0, request |-> None, attempt |-> 0, prompt |-> None,
               text |-> None, kind |-> None]
    /\ touched = 0
    /\ used = [edits |-> 0, crashes |-> 0]

-----------------------------------------------------------------------------
(* Steps of a run *)

At(step) == loop.at = step
Wanted == loop.request
Last == loop.attempt >= Wanted.budget

\* The loop goes on to the next attempt, or past its end.
Ask(j, prompt) ==
    IF j.attempt < Wanted.budget
    THEN [j EXCEPT !.at = "invoke", !.attempt = @ + 1, !.prompt = prompt, !.text = None, !.kind = None]
    ELSE [j EXCEPT !.at = "result"]

\* The prompt is built of the target as it is now; then the plan is written.
Begin(request) ==
    /\ loop.at \in {"idle", "dead"}
    /\ loop.run < MaxRuns
    /\ loop' = [at |-> "plan", run |-> loop.run + 1, request |-> request, attempt |-> 0,
                prompt |-> target, text |-> None, kind |-> None]
    /\ UNCHANGED <<target, disk, touched, used>>

WritePlan ==
    /\ At("plan")
    /\ disk' = [disk EXCEPT !.plan = [run |-> loop.run, request |-> Wanted]]
    /\ loop' = IF Wanted.execute THEN Ask(loop, loop.prompt) ELSE [loop EXCEPT !.at = "result"]
    /\ UNCHANGED <<target, touched, used>>

\* invoke_local_repair_model raises, for an empty answer too (classify_local_model_failure).
ModelFails(kind) ==
    /\ At("invoke")
    /\ loop' = [loop EXCEPT !.at = "attempt", !.kind = kind]
    /\ UNCHANGED <<target, disk, touched, used>>

ModelAnswers(output) ==
    LET kind == Validate(output, Wanted.python)
    IN  /\ At("invoke")
        /\ loop' = IF kind = "repair_accepted"
                   THEN [loop EXCEPT !.at = "apply", !.text = output.text]
                   ELSE [loop EXCEPT !.at = "attempt", !.kind = kind]
        /\ UNCHANGED <<target, disk, touched, used>>

Apply ==
    /\ At("apply")
    /\ target' = loop.text
    /\ loop' = [loop EXCEPT !.at = "check"]
    /\ UNCHANGED <<disk, touched, used>>

\* ruff and pytest read the target of that moment.
Check ==
    /\ At("check")
    /\ loop' = [loop EXCEPT !.at = "attempt", !.kind = Checked(Wanted)]
    /\ UNCHANGED <<target, disk, touched, used>>

\* Mutant: a failure of the local model is not counted.
AfterFree ==
    IF loop.kind \in RuntimeFailures THEN [loop EXCEPT !.at = "progress", !.attempt = @ - 1]
    ELSE IF loop.kind = "repair_accepted" THEN [loop EXCEPT !.at = "result"]
    ELSE IF Last THEN [loop EXCEPT !.at = "support"]
    ELSE Ask(loop, target)

\* After the report of an attempt: a failure of the model is written to the result at
\* once; a rejection or a failed check leads to a new prompt from the target as it is.
AfterAttempt ==
    IF loop.kind \in RuntimeFailures THEN [loop EXCEPT !.at = "progress"]
    ELSE IF loop.kind = "repair_accepted" THEN [loop EXCEPT !.at = "result"]
    ELSE IF Last THEN [loop EXCEPT !.at = "support"]
    ELSE Ask(loop, target)

\* write_attempt_report.  Attempts whose output was applied are always "within_budget".
WriteAttempt ==
    /\ At("attempt")
    /\ disk' = [disk EXCEPT !.attempts[loop.attempt] =
                  [run |-> loop.run, kind |-> loop.kind, applied |-> Applied(loop.kind),
                   budget |-> IF Last /\ ~Applied(loop.kind) THEN "exhausted" ELSE "within_budget"]]
    /\ loop' = AfterAttempt
    /\ UNCHANGED <<target, touched, used>>

ResultOf(status, support) ==
    [run |-> loop.run, status |-> status, applied |-> Applied(loop.kind),
     attempts |-> loop.attempt, support |-> support]

\* Mutant: a failure of the model ends the run without a report for manual support.
WriteProgressOnly ==
    /\ At("progress")
    /\ disk' = [disk EXCEPT !.result = ResultOf(loop.kind, FALSE)]
    /\ loop' = Ask(loop, loop.prompt)
    /\ UNCHANGED <<target, touched, used>>

\* The same prompt is used again after a failure of the model.
WriteProgress ==
    /\ At("progress")
    /\ disk' = [disk EXCEPT !.result = ResultOf(loop.kind, FALSE)]
    /\ loop' = IF Last THEN [loop EXCEPT !.at = "support"] ELSE Ask(loop, loop.prompt)
    /\ UNCHANGED <<target, touched, used>>

WriteSupport ==
    /\ At("support")
    /\ disk' = [disk EXCEPT !.support = [run |-> loop.run, attempts |-> loop.attempt]]
    /\ loop' = [loop EXCEPT !.at = "result"]
    /\ UNCHANGED <<target, touched, used>>

\* Without an attempt there is no report for manual support either.
WriteResult ==
    LET escalated == Wanted.execute /\ loop.attempt > 0 /\ loop.kind # "repair_accepted"
    IN  /\ At("result")
        /\ disk' = [disk EXCEPT !.result =
                      ResultOf(IF Wanted.execute THEN ResultStatus(loop.kind) ELSE "dry_run", escalated)]
        /\ loop' = [loop EXCEPT !.at = "idle", !.prompt = None, !.text = None, !.kind = None]
        /\ UNCHANGED <<target, touched, used>>

-----------------------------------------------------------------------------
(* The developer and the failure of a run *)

Edit(content) ==
    /\ used.edits < MaxEdits
    /\ target' = content
    /\ touched' = loop.run
    /\ used' = [used EXCEPT !.edits = @ + 1]
    /\ UNCHANGED <<disk, loop>>

\* The file that is being written when the run dies.
TornDisk ==
    CASE At("plan") -> [disk EXCEPT !.plan = Torn]
      [] At("attempt") -> [disk EXCEPT !.attempts[loop.attempt] = Torn]
      [] At("support") -> [disk EXCEPT !.support = Torn]
      [] loop.at \in {"progress", "result"} -> [disk EXCEPT !.result = Torn]
      [] OTHER -> disk

Crash ==
    /\ loop.at \notin {"idle", "dead"}
    /\ used.crashes < MaxCrashes
    /\ \/ UNCHANGED <<target, disk>>
       \/ disk' = TornDisk /\ target' = IF At("apply") THEN Torn ELSE target
    /\ loop' = [loop EXCEPT !.at = "dead", !.prompt = None, !.text = None, !.kind = None]
    /\ used' = [used EXCEPT !.crashes = @ + 1]
    /\ UNCHANGED touched

-----------------------------------------------------------------------------

Progress ==
    \/ WritePlan
    \/ \E kind \in RuntimeFailures : ModelFails(kind)
    \/ \E output \in Outputs : ModelAnswers(output)
    \/ Apply \/ Check \/ WriteAttempt \/ WriteProgress \/ WriteSupport \/ WriteResult

Next ==
    \/ \E request \in Requests : Begin(request)
    \/ Progress
    \/ \E content \in Contents : Edit(content)
    \/ Crash

\* The model answers or its request times out, and nothing else a run does can block.
Spec == Init /\ [][Next]_vars /\ WF_vars(Progress)
=============================================================================
