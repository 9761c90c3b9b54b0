-------------------------- MODULE RepairLoopProofs --------------------------
(***************************************************************************)
(* RepairVerified and EvidenceComplete hold of every number of runs, edits *)
(* and crashes, for any budget and whatever the model answers.             *)
(*                                                                         *)
(* Both compare files that are written at different times.  What makes     *)
(* them inductive is what the run knows in between: which of the reports   *)
(* on disk are its own (Own), how far its attempts are reported            *)
(* (Reported), and what its last check found (Found).                      *)
(***************************************************************************)
EXTENDS RepairLoopProps, TLAPS

Ended == {"idle", "dead"}
\* An attempt is under way, and its report not written.
Trying == {"invoke", "apply", "check", "attempt"}
Attempting == Trying \cup {"progress", "support"}

\* The reports of earlier runs have smaller numbers, up to the plan of this one.
RunsInOrder ==
    /\ touched <= loop.run
    /\ disk.plan \notin Absent =>
          IF At("plan") THEN disk.plan.run < loop.run ELSE disk.plan.run <= loop.run
    /\ disk.result \notin Absent =>
          IF At("plan") THEN disk.result.run < loop.run ELSE disk.result.run <= loop.run

\* What the run holds at each step.
InHand ==
    /\ loop.at \notin Ended => Wanted \in Requests /\ loop.attempt <= Wanted.budget
    /\ At("plan") => loop.attempt = 0 /\ loop.kind = None
    /\ loop.at \in Attempting => Wanted.execute /\ loop.attempt > 0
    /\ At("result") /\ loop.kind # None => loop.attempt > 0
    /\ At("result") /\ Wanted.execute /\ Wanted.budget > 0 => loop.attempt > 0
    /\ At("result") /\ loop.attempt > 0 => Wanted.execute
    /\ At("apply") => loop.text \in Contents
    /\ At("check") => target \in Contents
    /\ At("attempt") => loop.kind \in Kinds
    /\ At("progress") => loop.kind \in RuntimeFailures
    /\ At("support") => loop.kind # "repair_accepted"

\* A result of the run that is not its last one tells of a failure of the model.
Own ==
    loop.at \notin Ended \cup {"plan"} =>
        /\ disk.plan = [run |-> loop.run, request |-> Wanted]
        /\ disk.result \notin Absent /\ disk.result.run = loop.run =>
              /\ disk.result.status \in RuntimeFailures /\ ~disk.result.support
              /\ disk.result.attempts <= loop.attempt
              /\ loop.at \in Trying => disk.result.attempts < loop.attempt

Reported ==
    loop.at \notin Ended \cup {"plan"} =>
        \A n \in Nat : 0 < n /\ n <= loop.attempt /\ (n = loop.attempt => loop.at \notin Trying) =>
            disk.attempts[n] \notin Absent /\ disk.attempts[n].run = loop.run

\* Nobody but the developer has written the target since the check that accepted it.
Found ==
    /\ loop.at \in {"attempt", "result"} /\ loop.kind = "repair_accepted" /\ touched < loop.run =>
          /\ target \in Contents
          /\ Wanted.python => target \in Clean
          /\ Wanted.tests => target \in Correct
    /\ At("result") /\ loop.attempt > 0 /\ loop.kind # "repair_accepted" =>
          disk.support = [run |-> loop.run, attempts |-> loop.attempt]

IInv == TypeOK /\ RunsInOrder /\ InHand /\ Own /\ Reported /\ Found
            /\ RepairVerified /\ EvidenceComplete

-----------------------------------------------------------------------------
(* The start *)

LEMMA InitHolds == ASSUME Init PROVE IInv
<1> USE RepairAssumption
<1>1. disk.plan = None /\ disk.result = None /\ disk.support = None
      /\ disk.attempts = [n \in Numbers |-> None]
  BY DEF Init
<1>2. TypeOK
  <2>1. disk \in Disk
    BY DEF Init, Disk, Absent
  <2>2. loop \in Loop
    BY DEF Init, Loop, Steps, Absent
  <2> QED
    BY <2>1, <2>2 DEF Init, TypeOK
<1>3. RunsInOrder /\ InHand /\ Own /\ Reported /\ Found
  BY <1>1 DEF Init, RunsInOrder, InHand, Own, Reported, Found, At, Absent, Ended, Trying, Attempting
<1>4. RepairVerified /\ EvidenceComplete
  BY <1>1 DEF RepairVerified, EvidenceComplete, SameRun, Absent
<1> QED
  BY <1>2, <1>3, <1>4 DEF IInv

-----------------------------------------------------------------------------
(* The steps of a run *)

LEMMA BeginStep == ASSUME IInv, NEW request \in Requests, Begin(request) PROVE IInv'
<1> USE RepairAssumption
<1>1. /\ loop.at \in Ended /\ loop.run \in Nat
      /\ loop' = [at |-> "plan", run |-> loop.run + 1, request |-> request, attempt |-> 0,
                  prompt |-> target, text |-> None, kind |-> None]
      /\ UNCHANGED <<target, disk, touched, used>>
  BY DEF Begin, Ended, IInv, TypeOK, Loop
<1>2. TypeOK'
  <2>1. loop' \in Loop
    BY <1>1 DEF Loop, Steps, IInv, TypeOK, Absent
  <2> QED
    BY <1>1, <2>1 DEF IInv, TypeOK
<1>3. request.budget \in Nat
  BY DEF Request
<1>4. RunsInOrder'
  BY <1>1 DEF IInv, TypeOK, RunsInOrder, At, Ended, Disk, PlanReport, ResultReport
<1>5. InHand' /\ Own' /\ Reported' /\ Found'
  BY <1>1, <1>3 DEF InHand, Own, Reported, Found, At, Wanted, Ended, Attempting, Trying
<1>6. RepairVerified'
  BY <1>1 DEF IInv, RepairVerified, SameRun
<1>7. EvidenceComplete'
  BY <1>1 DEF IInv, EvidenceComplete, SameRun, At
<1> QED
  BY <1>2, <1>4, <1>5, <1>6, <1>7 DEF IInv

\* What the types give to every step of a run.
LEMMA Typed ==
    ASSUME IInv, loop.at \notin Ended
    PROVE  /\ Wanted \in Requests /\ Wanted.budget \in Nat /\ Wanted.execute \in BOOLEAN
           /\ Wanted.python \in BOOLEAN /\ Wanted.tests \in BOOLEAN
           /\ loop \in Loop /\ loop.run \in Nat /\ loop.attempt \in Nat
           /\ loop.kind \in Kinds \cup {None} /\ loop.prompt \in Contents \cup Absent
           /\ loop.text \in Contents \cup {None}
           /\ disk \in Disk /\ target \in Contents \cup {Torn} /\ touched \in Nat
<1>1. Wanted \in Request
  BY RepairAssumption DEF IInv, InHand
<1> QED
  BY <1>1, RepairAssumption DEF IInv, InHand, TypeOK, Loop, Request

\* Steps that write no report and leave the target alone, within an attempt.
LEMMA WithinAttempt ==
    ASSUME IInv, loop' \in Loop, UNCHANGED <<target, disk, touched, used>>,
           loop.at \in Trying, loop'.at \in Trying,
           loop'.run = loop.run, loop'.request = loop.request, loop'.attempt = loop.attempt,
           loop'.at = "apply" => loop'.text \in Contents,
           loop'.at = "check" => target \in Contents,
           loop'.at = "attempt" => loop'.kind \in Kinds,
           loop'.at = "attempt" /\ loop'.kind = "repair_accepted" =>
               /\ target \in Contents
               /\ Wanted.python => target \in Clean
               /\ Wanted.tests => target \in Correct
    PROVE  IInv'
<1>1. TypeOK'
  BY DEF IInv, TypeOK
<1>2. loop.at \notin Ended \cup {"plan"} /\ loop'.at \notin Ended \cup {"plan", "progress", "result"}
  BY DEF Trying, Ended
<1>3. RunsInOrder'
  BY <1>2 DEF IInv, RunsInOrder, At
<1>4. InHand'
  BY <1>2 DEF IInv, InHand, At, Wanted, Ended, Attempting, Trying
<1>5. Own' /\ Reported'
  BY <1>2 DEF IInv, Own, Reported, At, Wanted, Ended
<1>6. Found'
  BY <1>2 DEF Found, At, Wanted
<1>7. RepairVerified' /\ EvidenceComplete'
  BY <1>2 DEF IInv, RepairVerified, EvidenceComplete, SameRun, At, Ended
<1> QED
  BY <1>1, <1>3, <1>4, <1>5, <1>6, <1>7 DEF IInv

LEMMA ModelFailsStep == ASSUME IInv, NEW kind \in RuntimeFailures, ModelFails(kind) PROVE IInv'
<1>1. kind \in Kinds /\ kind # "repair_accepted"
  BY DEF Kinds, RuntimeFailures
<1>2. loop \in Loop /\ loop.at = "invoke" /\ loop' = [loop EXCEPT !.at = "attempt", !.kind = kind]
  BY Typed DEF ModelFails, At, Ended
<1>3. /\ loop' \in Loop /\ loop'.at = "attempt" /\ loop'.kind = kind
      /\ loop'.run = loop.run /\ loop'.request = loop.request /\ loop'.attempt = loop.attempt
  BY <1>1, <1>2 DEF Loop, Steps
<1> QED
  BY <1>1, <1>2, <1>3, WithinAttempt DEF ModelFails, Trying

LEMMA ValidateKind ==
    ASSUME NEW output \in Outputs, NEW strict \in BOOLEAN
    PROVE  /\ Validate(output, strict) \in Kinds
           /\ Validate(output, strict) = "repair_accepted" => output.text \in Contents
<1>1. output.text \in Contents \cup {None}
  BY RepairAssumption
<1> QED
  BY <1>1 DEF Validate, Kinds, Rejections

LEMMA ModelAnswersStep == ASSUME IInv, NEW output \in Outputs, ModelAnswers(output) PROVE IInv'
<1> DEFINE kind == Validate(output, Wanted.python)
<1>1. loop \in Loop /\ loop.at = "invoke" /\ Wanted.python \in BOOLEAN
  BY Typed DEF ModelAnswers, At, Ended
<1>2. kind \in Kinds /\ (kind = "repair_accepted" => output.text \in Contents)
  BY <1>1, ValidateKind
<1>3. UNCHANGED <<target, disk, touched, used>>
  BY DEF ModelAnswers
<1>4. CASE kind = "repair_accepted"
  <2>1. loop' = [loop EXCEPT !.at = "apply", !.text = output.text]
    BY <1>4 DEF ModelAnswers
  <2>2. /\ loop' \in Loop /\ loop'.at = "apply" /\ loop'.text = output.text
        /\ loop'.run = loop.run /\ loop'.request = loop.request /\ loop'.attempt = loop.attempt
    BY <1>1, <1>2, <1>4, <2>1 DEF Loop, Steps
  <2> QED
    BY <1>1, <1>2, <1>3, <1>4, <2>2, WithinAttempt DEF Trying
<1>5. CASE kind # "repair_accepted"
  <2>1. loop' = [loop EXCEPT !.at = "attempt", !.kind = kind]
    BY <1>5 DEF ModelAnswers
  <2>2. /\ loop' \in Loop /\ loop'.at = "attempt" /\ loop'.kind = kind
        /\ loop'.run = loop.run /\ loop'.request = loop.request /\ loop'.attempt = loop.attempt
    BY <1>1, <1>2, <2>1 DEF Loop, Steps
  <2> QED
    BY <1>1, <1>2, <1>3, <1>5, <2>2, WithinAttempt DEF Trying
<1> QED
  BY <1>4, <1>5

LEMMA CheckStep == ASSUME IInv, Check PROVE IInv'
<1>1. loop \in Loop /\ loop.at = "check" /\ target \in Contents
  BY Typed DEF Check, At, Ended, IInv, InHand
<1>2. /\ Checked(Wanted) \in Kinds
      /\ Checked(Wanted) = "repair_accepted" =>
            /\ Wanted.python => target \in Clean
            /\ Wanted.tests => target \in Correct
  BY DEF Checked, Kinds, CheckFailures
<1>3. loop' = [loop EXCEPT !.at = "attempt", !.kind = Checked(Wanted)]
  BY DEF Check
<1>4. /\ loop' \in Loop /\ loop'.at = "attempt" /\ loop'.kind = Checked(Wanted)
      /\ loop'.run = loop.run /\ loop'.request = loop.request /\ loop'.attempt = loop.attempt
  BY <1>1, <1>2, <1>3 DEF Loop, Steps
<1> QED
  BY <1>1, <1>2, <1>4, WithinAttempt DEF Check, Trying

LEMMA ApplyStep == ASSUME IInv, Apply PROVE IInv'
<1>1. loop \in Loop /\ loop.at = "apply" /\ loop.text \in Contents
  BY Typed DEF Apply, At, Ended, IInv, InHand
<1>2. target' = loop.text /\ UNCHANGED <<disk, touched, used>>
      /\ loop' = [loop EXCEPT !.at = "check"]
  BY DEF Apply
<1>3. /\ loop' \in Loop /\ loop'.at = "check"
      /\ loop'.run = loop.run /\ loop'.request = loop.request /\ loop'.attempt = loop.attempt
  BY <1>1, <1>2 DEF Loop, Steps
<1>4. TypeOK'
  BY <1>1, <1>2, <1>3 DEF IInv, TypeOK
<1>5. RunsInOrder' /\ InHand' /\ Own' /\ Reported' /\ Found'
  BY <1>1, <1>2, <1>3
     DEF IInv, RunsInOrder, InHand, Own, Reported, Found, At, Wanted, Ended, Attempting, Trying
<1>6. RepairVerified'
  BY <1>1, <1>2, <1>3 DEF IInv, Own, RepairVerified, SameRun, Ended, RuntimeFailures
<1>7. EvidenceComplete'
  BY <1>1, <1>2, <1>3 DEF IInv, EvidenceComplete, SameRun, At
<1> QED
  BY <1>4, <1>5, <1>6, <1>7 DEF IInv

\* While a run is under way the two properties follow from what it knows.
LEMMA UnderWay ==
    ASSUME TypeOK', Own', Reported', loop'.at \notin Ended \cup {"plan"}
    PROVE  RepairVerified' /\ EvidenceComplete'
<1>1. loop' \in Loop /\ disk' \in Disk /\ loop'.attempt \in Nat
  BY DEF TypeOK, Loop
<1>2. disk'.result \notin Absent => disk'.result \in ResultReport
  BY <1>1 DEF Disk
<1>3. RepairVerified'
  BY <1>1, <1>2 DEF Own, RepairVerified, SameRun, RuntimeFailures
<1>4. ASSUME SameRun' PROVE disk'.result.run = loop'.run /\ disk'.result \in ResultReport
  BY <1>2, <1>4 DEF SameRun, Own
<1>5. ASSUME SameRun', NEW n \in 1..disk'.result.attempts
      PROVE  disk'.attempts[n] \notin Absent /\ disk'.attempts[n].run = disk'.result.run
  <2>1. /\ disk'.result.run = loop'.run /\ disk'.result.attempts \in Nat
        /\ disk'.result \notin Absent
    BY <1>4, <1>5 DEF ResultReport, SameRun
  <2>2. disk'.result.attempts <= loop'.attempt
        /\ (loop'.at \in Trying => disk'.result.attempts < loop'.attempt)
    BY <2>1 DEF Own
  <2>3. n \in Nat /\ 0 < n /\ n <= loop'.attempt /\ (n = loop'.attempt => loop'.at \notin Trying)
    BY <1>1, <2>1, <2>2
  <2> QED
    BY <2>1, <2>3 DEF Reported
<1>6. SameRun' => ~disk'.result.support /\ loop'.at # "idle"
  BY <1>4 DEF Own, SameRun, Ended
<1> QED
  BY <1>3, <1>5, <1>6 DEF EvidenceComplete, At

\* Asking for the next attempt, or leaving the loop.
LEMMA AskFacts ==
    ASSUME loop \in Loop, Wanted.budget \in Nat, NEW prompt \in Contents \cup Absent
    PROVE  /\ Ask(loop, prompt) \in Loop
           /\ Ask(loop, prompt).run = loop.run /\ Ask(loop, prompt).request = loop.request
           /\ loop.attempt < Wanted.budget =>
                 Ask(loop, prompt).at = "invoke" /\ Ask(loop, prompt).attempt = loop.attempt + 1
           /\ ~(loop.attempt < Wanted.budget) => Ask(loop, prompt) = [loop EXCEPT !.at = "result"]
<1>1. loop.attempt \in Nat /\ loop.attempt + 1 \in Nat
  BY DEF Loop
<1>2. CASE loop.attempt < Wanted.budget
  <2>1. Ask(loop, prompt) = [loop EXCEPT !.at = "invoke", !.attempt = loop.attempt + 1,
                                         !.prompt = prompt, !.text = None, !.kind = None]
    BY <1>2 DEF Ask, Loop
  <2> QED
    BY <1>1, <1>2, <2>1 DEF Loop, Steps
<1>3. CASE ~(loop.attempt < Wanted.budget)
  BY <1>3 DEF Ask, Loop, Steps
<1> QED
  BY <1>2, <1>3

LEMMA WritePlanStep == ASSUME IInv, WritePlan PROVE IInv'
<1>1. /\ loop.at = "plan" /\ loop \in Loop /\ loop.run \in Nat /\ Wanted \in Requests
      /\ Wanted.budget \in Nat /\ Wanted.execute \in BOOLEAN
      /\ loop.prompt \in Contents \cup Absent /\ disk \in Disk
      /\ loop.attempt = 0 /\ loop.kind = None
  BY Typed DEF WritePlan, At, Ended, IInv, InHand
<1>2. /\ disk' = [disk EXCEPT !.plan = [run |-> loop.run, request |-> Wanted]]
      /\ UNCHANGED <<target, touched, used>>
  BY DEF WritePlan
<1>3. /\ disk' \in Disk /\ disk'.plan = [run |-> loop.run, request |-> Wanted]
      /\ disk'.result = disk.result /\ disk'.attempts = disk.attempts /\ disk'.support = disk.support
  BY <1>1, <1>2 DEF Disk, PlanReport
<1>4. /\ loop' \in Loop /\ loop'.run = loop.run /\ loop'.request = loop.request
      /\ \/ loop'.at = "invoke" /\ Wanted.execute /\ Wanted.budget > 0 /\ loop'.attempt = 1
         \/ /\ loop'.at = "result" /\ loop'.attempt = 0 /\ loop'.kind = None
            /\ ~(Wanted.execute /\ Wanted.budget > 0)
  <2>1. CASE Wanted.execute
    <3>1. loop' = Ask(loop, loop.prompt)
      BY <2>1 DEF WritePlan
    <3>2. CASE 0 < Wanted.budget
      BY <1>1, <2>1, <3>1, <3>2, AskFacts
    <3>3. CASE ~(0 < Wanted.budget)
      <4>1. loop' = [loop EXCEPT !.at = "result"]
        BY <1>1, <3>1, <3>3, AskFacts
      <4> QED
        BY <1>1, <3>3, <4>1 DEF Loop, Steps
    <3> QED
      BY <3>2, <3>3
  <2>2. CASE ~Wanted.execute
    <3>1. loop' = [loop EXCEPT !.at = "result"]
      BY <2>2 DEF WritePlan
    <3> QED
      BY <1>1, <2>2, <3>1 DEF Loop, Steps
  <2> QED
    BY <2>1, <2>2
<1>5. TypeOK'
  BY <1>2, <1>3, <1>4 DEF IInv, TypeOK
<1>6. RunsInOrder'
  BY <1>1, <1>2, <1>3, <1>4 DEF IInv, RunsInOrder, At, Disk, ResultReport
<1>7. InHand'
  BY <1>1, <1>4 DEF InHand, At, Wanted, Ended, Attempting, Trying
<1>8. Own'
  BY <1>1, <1>3, <1>4 DEF IInv, RunsInOrder, Own, At, Wanted, Disk, ResultReport
<1>9. Reported'
  BY <1>4 DEF Reported, Trying
<1>10. Found'
  BY <1>4, RepairAssumption DEF Found, At, Kinds
<1>11. loop'.at \notin Ended \cup {"plan"}
  BY <1>4 DEF Ended
<1> QED
  BY <1>5, <1>6, <1>7, <1>8, <1>9, <1>10, <1>11, UnderWay DEF IInv

LEMMA AttemptNumbered ==
    ASSUME IInv, loop.at \in Attempting
    PROVE  loop.attempt \in Numbers
<1>1. /\ Wanted \in Requests /\ Wanted.budget \in Nat /\ loop.attempt \in Nat
      /\ loop.attempt > 0 /\ loop.attempt <= Wanted.budget
  BY Typed DEF IInv, InHand, Attempting, Trying, Ended
<1>2. loop.attempt \in 1..Wanted.budget
  BY <1>1
<1> QED
  BY <1>1, <1>2 DEF Numbers

\* Where the loop goes after a report; its number and its request stay.
LEMMA AfterAttemptFacts ==
    ASSUME IInv, At("attempt")
    PROVE  /\ AfterAttempt \in Loop
           /\ AfterAttempt.run = loop.run /\ AfterAttempt.request = loop.request
           /\ \/ /\ AfterAttempt.at = "progress" /\ loop.kind \in RuntimeFailures
                 /\ AfterAttempt.kind = loop.kind /\ AfterAttempt.attempt = loop.attempt
              \/ /\ AfterAttempt.at = "result" /\ loop.kind = "repair_accepted"
                 /\ AfterAttempt.kind = loop.kind /\ AfterAttempt.attempt = loop.attempt
              \/ /\ AfterAttempt.at = "support" /\ loop.kind # "repair_accepted"
                 /\ AfterAttempt.kind = loop.kind /\ AfterAttempt.attempt = loop.attempt
              \/ /\ AfterAttempt.at = "invoke" /\ AfterAttempt.attempt = loop.attempt + 1
                 /\ loop.attempt < Wanted.budget
<1>1. /\ loop \in Loop /\ Wanted.budget \in Nat /\ loop.attempt \in Nat
      /\ target \in Contents \cup Absent
  BY Typed DEF At, Ended, Absent
<1>2. CASE loop.kind \in RuntimeFailures
  <2>1. AfterAttempt = [loop EXCEPT !.at = "progress"]
    BY <1>2 DEF AfterAttempt
  <2> QED
    BY <1>1, <1>2, <2>1 DEF Loop, Steps
<1>3. CASE loop.kind = "repair_accepted"
  <2>1. AfterAttempt = [loop EXCEPT !.at = "result"]
    BY <1>3 DEF AfterAttempt, RuntimeFailures
  <2> QED
    BY <1>1, <1>3, <2>1 DEF Loop, Steps
<1>4. CASE loop.kind \notin RuntimeFailures \cup {"repair_accepted"} /\ Last
  <2>1. AfterAttempt = [loop EXCEPT !.at = "support"]
    BY <1>4 DEF AfterAttempt
  <2> QED
    BY <1>1, <1>4, <2>1 DEF Loop, Steps
<1>5. CASE loop.kind \notin RuntimeFailures \cup {"repair_accepted"} /\ ~Last
  <2>1. AfterAttempt = Ask(loop, target)
    BY <1>5 DEF AfterAttempt
  <2>2. loop.attempt < Wanted.budget
    BY <1>1, <1>5 DEF Last
  <2> QED
    BY <1>1, <2>1, <2>2, AskFacts
<1> QED
  BY <1>2, <1>3, <1>4, <1>5

LEMMA WriteAttemptStep == ASSUME IInv, WriteAttempt PROVE IInv'
<1> DEFINE report == [run |-> loop.run, kind |-> loop.kind, applied |-> Applied(loop.kind),
                      budget |-> IF Last /\ ~Applied(loop.kind) THEN "exhausted" ELSE "within_budget"]
<1>1. /\ loop.at = "attempt" /\ loop \in Loop /\ loop.run \in Nat /\ loop.attempt \in Nat
      /\ loop.attempt > 0 /\ loop.attempt <= Wanted.budget /\ Wanted \in Requests
      /\ Wanted.budget \in Nat /\ Wanted.execute /\ loop.kind \in Kinds /\ disk \in Disk
      /\ loop.attempt \in Numbers
  BY Typed, AttemptNumbered DEF WriteAttempt, At, Ended, IInv, InHand, Attempting, Trying
<1>2. /\ disk' = [disk EXCEPT !.attempts[loop.attempt] = report]
      /\ loop' = AfterAttempt /\ UNCHANGED <<target, touched, used>>
  BY DEF WriteAttempt
<1>3. report \in AttemptReport /\ report \notin Absent /\ report.run = loop.run
  <2>1. report \in AttemptReport
    BY <1>1 DEF AttemptReport, Applied
  <2> QED
    BY <2>1, RepairAssumption
<1> HIDE DEF report
<1>4. /\ disk' \in Disk /\ disk'.plan = disk.plan /\ disk'.result = disk.result
      /\ disk'.support = disk.support
      /\ disk'.attempts = [disk.attempts EXCEPT ![loop.attempt] = report]
  BY <1>1, <1>2, <1>3 DEF Disk
<1>5. /\ loop' \in Loop /\ loop'.run = loop.run /\ loop'.request = loop.request
      /\ \/ /\ loop'.at = "progress" /\ loop.kind \in RuntimeFailures
            /\ loop'.kind = loop.kind /\ loop'.attempt = loop.attempt
         \/ /\ loop'.at = "result" /\ loop.kind = "repair_accepted"
            /\ loop'.kind = loop.kind /\ loop'.attempt = loop.attempt
         \/ /\ loop'.at = "support" /\ loop.kind # "repair_accepted"
            /\ loop'.kind = loop.kind /\ loop'.attempt = loop.attempt
         \/ loop'.at = "invoke" /\ loop'.attempt = loop.attempt + 1 /\ loop.attempt < Wanted.budget
  BY <1>2, AfterAttemptFacts DEF WriteAttempt
<1>6. TypeOK'
  BY <1>2, <1>4, <1>5 DEF IInv, TypeOK
<1>7. RunsInOrder'
  BY <1>1, <1>2, <1>4, <1>5 DEF IInv, RunsInOrder, At
<1>8. InHand'
  BY <1>1, <1>5 DEF InHand, At, Wanted, Ended, Attempting, Trying
<1>9. Own'
  BY <1>1, <1>4, <1>5 DEF IInv, Own, At, Wanted, Ended, Trying, Disk, ResultReport
<1>10. Reported'
  <2> SUFFICES ASSUME NEW n \in Nat, 0 < n, n <= loop'.attempt,
                      n = loop'.attempt => loop'.at \notin Trying
               PROVE  disk'.attempts[n] \notin Absent /\ disk'.attempts[n].run = loop'.run
    BY DEF Reported
  <2>1. CASE n = loop.attempt
    BY <1>1, <1>3, <1>4, <1>5, <2>1 DEF Disk
  <2>2. CASE n # loop.attempt
    <3>1. n < loop.attempt
      BY <1>1, <1>5, <2>2 DEF Trying
    <3>2. disk.attempts[n] \notin Absent /\ disk.attempts[n].run = loop.run
      BY <1>1, <3>1 DEF IInv, Reported, Ended
    <3>3. disk.attempts \in [Numbers -> Absent \cup AttemptReport] /\ n \in Numbers
      <4>1. n \in 1..Wanted.budget
        BY <1>1, <3>1
      <4> QED
        BY <1>1, <4>1 DEF Disk, Numbers
    <3> QED
      BY <1>4, <1>5, <2>2, <3>2, <3>3
  <2> QED
    BY <2>1, <2>2
<1>11. Found'
  BY <1>1, <1>2, <1>5 DEF IInv, Found, At, Wanted
<1>12. loop'.at \notin Ended \cup {"plan"}
  BY <1>5 DEF Ended
<1> QED
  BY <1>6, <1>7, <1>8, <1>9, <1>10, <1>11, <1>12, UnderWay DEF IInv

LEMMA WriteProgressStep == ASSUME IInv, WriteProgress PROVE IInv'
<1> DEFINE result == ResultOf(loop.kind, FALSE)
<1>1. /\ loop.at = "progress" /\ loop \in Loop /\ loop.run \in Nat /\ loop.attempt \in Nat
      /\ loop.attempt > 0 /\ loop.attempt <= Wanted.budget /\ Wanted \in Requests
      /\ Wanted.budget \in Nat /\ Wanted.execute /\ loop.kind \in RuntimeFailures
      /\ disk \in Disk /\ loop.prompt \in Contents \cup Absent
  BY Typed DEF WriteProgress, At, Ended, IInv, InHand, Attempting
<1>2. /\ disk' = [disk EXCEPT !.result = result]
      /\ loop' = IF Last THEN [loop EXCEPT !.at = "support"] ELSE Ask(loop, loop.prompt)
      /\ UNCHANGED <<target, touched, used>>
  BY DEF WriteProgress
<1>3. /\ result \in ResultReport /\ result.run = loop.run /\ result.status \in RuntimeFailures
      /\ ~result.support /\ result.attempts = loop.attempt
  BY <1>1 DEF ResultOf, ResultReport, Applied
<1> HIDE DEF result
<1>4. /\ disk' \in Disk /\ disk'.plan = disk.plan /\ disk'.result = result
      /\ disk'.support = disk.support /\ disk'.attempts = disk.attempts
  BY <1>1, <1>2, <1>3 DEF Disk
<1>5. /\ loop' \in Loop /\ loop'.run = loop.run /\ loop'.request = loop.request
      /\ \/ loop'.at = "support" /\ loop'.kind = loop.kind /\ loop'.attempt = loop.attempt
         \/ loop'.at = "invoke" /\ loop'.attempt = loop.attempt + 1 /\ loop.attempt < Wanted.budget
  <2>1. CASE Last
    BY <1>1, <1>2, <2>1 DEF Loop, Steps
  <2>2. CASE ~Last
    <3>1. loop' = Ask(loop, loop.prompt) /\ loop.attempt < Wanted.budget
      BY <1>1, <1>2, <2>2 DEF Last
    <3> QED
      BY <1>1, <3>1, AskFacts
  <2> QED
    BY <2>1, <2>2
<1>6. TypeOK'
  BY <1>2, <1>4, <1>5 DEF IInv, TypeOK
<1>7. RunsInOrder'
  BY <1>1, <1>2, <1>3, <1>4, <1>5 DEF IInv, RunsInOrder, At
<1>8. InHand'
  BY <1>1, <1>5 DEF InHand, At, Wanted, Ended, Attempting, Trying, RuntimeFailures
<1>9. Own'
  BY <1>1, <1>3, <1>4, <1>5 DEF IInv, Own, At, Wanted, Ended, Trying
<1>10. Reported'
  BY <1>1, <1>4, <1>5 DEF IInv, Reported, Trying, Ended
<1>11. Found'
  BY <1>5 DEF Found, At
<1>12. loop'.at \notin Ended \cup {"plan"}
  BY <1>5 DEF Ended
<1> QED
  BY <1>6, <1>7, <1>8, <1>9, <1>10, <1>11, <1>12, UnderWay DEF IInv

LEMMA WriteSupportStep == ASSUME IInv, WriteSupport PROVE IInv'
<1>1. /\ loop.at = "support" /\ loop \in Loop /\ loop.run \in Nat /\ loop.attempt \in Nat
      /\ loop.attempt > 0 /\ loop.attempt <= Wanted.budget /\ Wanted \in Requests
      /\ Wanted.execute /\ disk \in Disk /\ loop.kind # "repair_accepted"
  BY Typed DEF WriteSupport, At, Ended, IInv, InHand, Attempting
<1>2. /\ disk' = [disk EXCEPT !.support = [run |-> loop.run, attempts |-> loop.attempt]]
      /\ loop' = [loop EXCEPT !.at = "result"] /\ UNCHANGED <<target, touched, used>>
  BY DEF WriteSupport
<1>3. /\ disk' \in Disk /\ disk'.plan = disk.plan /\ disk'.result = disk.result
      /\ disk'.attempts = disk.attempts
      /\ disk'.support = [run |-> loop.run, attempts |-> loop.attempt]
  BY <1>1, <1>2 DEF Disk, SupportReport
<1>4. /\ loop' \in Loop /\ loop'.at = "result" /\ loop'.run = loop.run
      /\ loop'.request = loop.request /\ loop'.attempt = loop.attempt /\ loop'.kind = loop.kind
  BY <1>1, <1>2 DEF Loop, Steps
<1>5. TypeOK'
  BY <1>2, <1>3, <1>4 DEF IInv, TypeOK
<1>6. RunsInOrder' /\ InHand' /\ Own' /\ Reported'
  BY <1>1, <1>2, <1>3, <1>4
     DEF IInv, RunsInOrder, InHand, Own, Reported, At, Wanted, Ended, Attempting, Trying
<1>7. Found'
  BY <1>1, <1>3, <1>4 DEF Found, At
<1>8. loop'.at \notin Ended \cup {"plan"}
  BY <1>4 DEF Ended
<1> QED
  BY <1>5, <1>6, <1>7, <1>8, UnderWay DEF IInv

LEMMA WriteResultStep == ASSUME IInv, WriteResult PROVE IInv'
<1> DEFINE escalated == Wanted.execute /\ loop.attempt > 0 /\ loop.kind # "repair_accepted"
           status == IF Wanted.execute THEN ResultStatus(loop.kind) ELSE "dry_run"
           result == ResultOf(status, escalated)
<1>1. /\ loop.at = "result" /\ loop \in Loop /\ loop.run \in Nat /\ loop.attempt \in Nat
      /\ Wanted \in Requests /\ Wanted.execute \in BOOLEAN /\ disk \in Disk
      /\ loop.kind \in Kinds \cup {None}
  BY Typed DEF WriteResult, At, Ended
<1>2. /\ disk' = [disk EXCEPT !.result = result]
      /\ loop' = [loop EXCEPT !.at = "idle", !.prompt = None, !.text = None, !.kind = None]
      /\ UNCHANGED <<target, touched, used>>
  BY DEF WriteResult
<1>3. /\ status \in RuntimeFailures \cup {"dry_run", "completed", "budget_exceeded"}
      /\ status = "completed" <=> Wanted.execute /\ loop.kind = "repair_accepted"
  BY <1>1 DEF ResultStatus, RuntimeFailures
<1>4. escalated \in BOOLEAN
  BY <1>1
<1> HIDE DEF status
<1>5. /\ result \in ResultReport /\ result.run = loop.run /\ result.status = status
      /\ result.attempts = loop.attempt /\ result.support = escalated
  BY <1>1, <1>3, <1>4 DEF ResultOf, ResultReport, Applied
<1> HIDE DEF result
<1>6. /\ disk' \in Disk /\ disk'.plan = disk.plan /\ disk'.result = result
      /\ disk'.support = disk.support /\ disk'.attempts = disk.attempts
  BY <1>1, <1>2, <1>5 DEF Disk
<1>7. /\ loop' \in Loop /\ loop'.at = "idle" /\ loop'.run = loop.run
      /\ loop'.request = loop.request /\ loop'.attempt = loop.attempt
  BY <1>1, <1>2 DEF Loop, Steps, Absent
<1>8. disk.plan = [run |-> loop.run, request |-> Wanted]
  BY <1>1 DEF IInv, Own, Ended
<1>9. TypeOK'
  BY <1>2, <1>6, <1>7 DEF IInv, TypeOK
<1>10. RunsInOrder'
  BY <1>1, <1>2, <1>5, <1>6, <1>7 DEF IInv, RunsInOrder, At
<1>11. InHand' /\ Own' /\ Reported' /\ Found'
  BY <1>7 DEF InHand, Own, Reported, Found, At, Ended, Attempting, Trying
<1>12. RepairVerified'
  BY <1>1, <1>2, <1>3, <1>5, <1>6, <1>8 DEF IInv, Found, At, RepairVerified
<1>13. ASSUME NEW n \in 1..result.attempts
       PROVE  disk.attempts[n] \notin Absent /\ disk.attempts[n].run = loop.run
  <2>1. n \in Nat /\ 0 < n /\ n <= loop.attempt
    BY <1>1, <1>5
  <2> QED
    BY <1>1, <2>1 DEF IInv, Reported, Trying, Ended
<1>14. escalated => disk.support = [run |-> loop.run, attempts |-> loop.attempt]
  BY <1>1 DEF IInv, Found, At
<1>15. Wanted.execute /\ Wanted.budget > 0 => escalated = (status # "completed")
  BY <1>1, <1>3 DEF IInv, InHand, At
<1> HIDE DEF escalated
<1>16. EvidenceComplete'
  BY <1>5, <1>6, <1>8, <1>13, <1>14, <1>15 DEF EvidenceComplete
<1> QED
  BY <1>9, <1>10, <1>11, <1>12, <1>16 DEF IInv

-----------------------------------------------------------------------------
(* The developer, and a run that dies *)

LEMMA EditStep == ASSUME IInv, NEW content \in Contents, Edit(content) PROVE IInv'
<1>1. /\ target' = content /\ touched' = loop.run /\ UNCHANGED <<disk, loop>>
      /\ used.edits < MaxEdits /\ used' = [used EXCEPT !.edits = @ + 1]
  BY DEF Edit
<1>2. /\ loop.run \in Nat /\ disk \in Disk /\ loop \in Loop
      /\ used \in [edits : 0..MaxEdits, crashes : 0..MaxCrashes]
  BY DEF IInv, TypeOK, Loop
<1>3. TypeOK'
  BY <1>1, <1>2, RepairAssumption DEF TypeOK
<1>4. RunsInOrder'
  BY <1>1, <1>2 DEF IInv, RunsInOrder, At
<1>5. InHand' /\ Own' /\ Reported'
  BY <1>1 DEF IInv, InHand, Own, Reported, At, Wanted
<1>6. Found'
  BY <1>1, <1>2 DEF IInv, Found, At, Wanted
<1>7. RepairVerified'
  <2>1. disk.result \notin Absent => disk.result.run \in Nat /\ disk.result.run <= loop.run
    BY <1>2 DEF IInv, RunsInOrder, At, Disk, ResultReport
  <2> QED
    BY <1>1, <1>2, <2>1 DEF RepairVerified, SameRun
<1>8. EvidenceComplete'
  BY <1>1 DEF IInv, EvidenceComplete, SameRun, At
<1> QED
  BY <1>3, <1>4, <1>5, <1>6, <1>7, <1>8 DEF IInv

\* What a crash may leave of the reports.
LEMMA TornFacts ==
    ASSUME IInv, loop.at \notin Ended
    PROVE  /\ TornDisk \in Disk
           /\ TornDisk.plan = disk.plan \/ (TornDisk.plan = Torn /\ At("plan"))
           /\ TornDisk.result = disk.result \/ TornDisk.result = Torn
           /\ TornDisk.support = disk.support \/ At("support")
           /\ \/ TornDisk.attempts = disk.attempts
              \/ At("attempt") /\ TornDisk.attempts = [disk.attempts EXCEPT ![loop.attempt] = Torn]
<1>1. disk \in Disk
  BY Typed
<1>2. CASE At("plan")
  BY <1>1, <1>2 DEF TornDisk, Disk, Absent, At
<1>3. CASE At("attempt")
  BY <1>1, <1>3 DEF TornDisk, Disk, Absent, At
<1>4. CASE At("support")
  BY <1>1, <1>4 DEF TornDisk, Disk, Absent, At
<1>5. CASE loop.at \in {"progress", "result"}
  BY <1>1, <1>5 DEF TornDisk, Disk, Absent, At
<1>6. CASE loop.at \notin {"plan", "attempt", "support", "progress", "result"}
  BY <1>1, <1>6 DEF TornDisk, At
<1> QED
  BY <1>2, <1>3, <1>4, <1>5, <1>6 DEF At

LEMMA CrashStep == ASSUME IInv, Crash PROVE IInv'
<1>1. /\ loop.at \notin Ended /\ loop \in Loop /\ loop.run \in Nat /\ loop.attempt \in Nat
      /\ disk \in Disk /\ target \in Contents \cup {Torn}
      /\ used \in [edits : 0..MaxEdits, crashes : 0..MaxCrashes] /\ MaxCrashes \in Nat
      /\ used.crashes < MaxCrashes /\ used' = [used EXCEPT !.crashes = @ + 1]
      /\ loop' = [loop EXCEPT !.at = "dead", !.prompt = None, !.text = None, !.kind = None]
      /\ touched' = touched
  BY Typed, RepairAssumption DEF Crash, Ended, IInv, TypeOK
<1>2. /\ disk' \in Disk
      /\ disk'.plan = disk.plan \/ (disk'.plan = Torn /\ At("plan"))
      /\ disk'.result = disk.result \/ disk'.result = Torn
      /\ disk'.support = disk.support \/ At("support")
      /\ \/ disk'.attempts = disk.attempts
         \/ At("attempt") /\ disk'.attempts = [disk.attempts EXCEPT ![loop.attempt] = Torn]
      /\ target' = target \/ (target' = Torn /\ At("apply"))
  BY <1>1, TornFacts DEF Crash
<1>3. /\ loop' \in Loop /\ loop'.at = "dead" /\ loop'.run = loop.run
  BY <1>1 DEF Loop, Steps, Absent
<1>4. TypeOK'
  <2>1. used' \in [edits : 0..MaxEdits, crashes : 0..MaxCrashes]
    BY <1>1
  <2> QED
    BY <1>1, <1>2, <1>3, <2>1 DEF IInv, TypeOK
<1>5. RunsInOrder'
  BY <1>1, <1>2, <1>3 DEF IInv, RunsInOrder, At, Absent, Disk, PlanReport, ResultReport
<1>6. InHand' /\ Own' /\ Reported' /\ Found'
  BY <1>3 DEF InHand, Own, Reported, Found, At, Ended, Attempting, Trying
<1>7. ASSUME SameRun'
      PROVE  /\ SameRun /\ disk'.plan = disk.plan /\ disk'.result = disk.result
             /\ ~At("plan") => disk.result.run = loop.run
  BY <1>1, <1>2, <1>7 DEF SameRun, Absent, IInv, Own, Ended, At
<1>8. RepairVerified'
  <2> SUFFICES ASSUME SameRun', disk'.result.status = "completed", touched' < disk'.result.run
               PROVE  /\ target' \in Contents
                      /\ disk'.plan.request.python => target' \in Clean
                      /\ disk'.plan.request.tests => target' \in Correct
    BY DEF RepairVerified
  <2>1. ~At("apply")
    BY <1>7 DEF At, IInv, Own, Ended, SameRun, RuntimeFailures
  <2> QED
    BY <1>1, <1>2, <1>7, <2>1 DEF IInv, RepairVerified
<1>9. EvidenceComplete'
  <2> SUFFICES ASSUME SameRun'
               PROVE  /\ \A n \in 1..disk.result.attempts :
                            disk'.attempts[n] \notin Absent /\ disk'.attempts[n].run = disk.result.run
                      /\ disk.result.support =>
                            disk'.support = [run |-> disk.result.run, attempts |-> disk.result.attempts]
    BY <1>3, <1>7 DEF EvidenceComplete, At
  <2>1. /\ \A n \in 1..disk.result.attempts :
              disk.attempts[n] \notin Absent /\ disk.attempts[n].run = disk.result.run
        /\ disk.result.support =>
              disk.support = [run |-> disk.result.run, attempts |-> disk.result.attempts]
    BY <1>7 DEF IInv, EvidenceComplete
  <2>2. ASSUME At("attempt"), NEW n \in 1..disk.result.attempts
        PROVE  [disk.attempts EXCEPT ![loop.attempt] = Torn][n] = disk.attempts[n]
    <3>1. disk.result.attempts \in Nat /\ disk.result.attempts < loop.attempt
      BY <1>1, <1>7, <2>2 DEF Disk, ResultReport, SameRun, IInv, Own, Ended, Trying, At
    <3>2. n # loop.attempt /\ disk.attempts \in [Numbers -> Absent \cup AttemptReport]
      BY <1>1, <3>1 DEF Disk
    <3>3. n \in Numbers
      <4>1. Wanted \in Requests /\ Wanted.budget \in Nat /\ loop.attempt <= Wanted.budget
        BY <1>1, Typed DEF IInv, InHand
      <4>2. n \in 1..Wanted.budget
        BY <1>1, <3>1, <4>1
      <4> QED
        BY <4>1, <4>2 DEF Numbers
    <3> QED
      BY <3>2, <3>3
  <2>3. At("support") => ~disk.result.support
    BY <1>7 DEF At, IInv, Own, Ended, SameRun
  <2> QED
    BY <1>2, <2>1, <2>2, <2>3
<1> QED
  BY <1>4, <1>5, <1>6, <1>8, <1>9 DEF IInv

-----------------------------------------------------------------------------
(* The theorems *)

LEMMA StepHolds == ASSUME IInv, [Next]_vars PROVE IInv'
<1>1. CASE UNCHANGED vars
  BY <1>1 DEF vars, IInv, TypeOK, RunsInOrder, InHand, Own, Reported, Found, RepairVerified,
              EvidenceComplete, SameRun, At, Wanted
<1>2. CASE Progress
  BY <1>2, WritePlanStep, ModelFailsStep, ModelAnswersStep, ApplyStep, CheckStep, WriteAttemptStep,
     WriteProgressStep, WriteSupportStep, WriteResultStep DEF Progress
<1> QED
  BY <1>1, <1>2, BeginStep, EditStep, CrashStep DEF Next

LEMMA Invariance == Spec => []IInv
<1> QED
  BY InitHolds, StepHolds, PTL DEF Spec

\* TypeCorrect: every report is absent, torn or what its writer writes, at every step of
\* every run (the writers of local_repair_loop.py).
THEOREM TypeCorrect == Spec => []TypeOK
<1>1. IInv => TypeOK
  BY DEF IInv
<1> QED
  BY <1>1, Invariance, PTL

\* Verified: whatever earlier and later runs did or died of, a result that says
\* "completed" next to the plan of its run means that the target passes the checks the
\* plan asked for, until the developer writes it.
THEOREM Verified == Spec => []RepairVerified
<1>1. IInv => RepairVerified
  BY DEF IInv
<1> QED
  BY <1>1, Invariance, PTL

\* Evidence: a result counts only attempts whose reports are on disk and of its own run,
\* and says "support report written" exactly of a report of its own.
THEOREM Evidence == Spec => []EvidenceComplete
<1>1. IInv => EvidenceComplete
  BY DEF IInv
<1> QED
  BY <1>1, Invariance, PTL
=============================================================================
