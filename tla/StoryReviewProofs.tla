-------------------------- MODULE StoryReviewProofs --------------------------
(***************************************************************************)
(* What the review of a story promises, for any repository, outputs,       *)
(* hosts, decisions and number of commands, commits, edits and crashes.    *)
(*                                                                         *)
(* A command decides what it writes before it writes it, one file after    *)
(* the other.  So the argument is about files and pending writes alike:    *)
(* each is backed (Backed) by what happened before it was decided, and     *)
(* what happened is never undone.                                          *)
(***************************************************************************)
EXTENDS StoryReviewProps, SequenceTheorems, TLAPS

Files == Visible \cup Hidden \cup Bundle
Value == UNION {Values(f) : f \in Files}
Steps == [do : {"write", "replace", "capture", "test", "layers", "gate", "judge", "settle",
                "pack", "report"},
          file : Files \cup {None}, value : Value \cup {None}]
Job == [flow : Phases \cup {None}, cmds : Seq(DOMAIN Script), ops : Seq(Steps),
        shot : Snapshot \cup {None}, evidence : Final \cup {None}, gate : BOOLEAN, ok : BOOLEAN]
Past == [tested : SUBSET [of : Snapshot, tests : Outputs], decided : SUBSET Record,
         ready : SUBSET Record, approved : BOOLEAN, unchecked : BOOLEAN]

\* A record of a tree without real changes and of passing outputs, of this very tree.
Earned(r, p) ==
    /\ r \in Record
    /\ Classification(r.of.changes) \in AcceptableCleanliness
    /\ r.tests \in Passing
    /\ ~p.unchecked => [of |-> r.of, tests |-> r.tests] \in p.tested

\* What must have happened (p), or be on disk (d), for a file to have a value.
Backed(f, v, d, p) ==
    /\ f \in Files /\ v \in Values(f)
    /\ f = "record" => Earned(v, p)
    /\ f = "checksums" => [of |-> v.manifest, tests |-> v.tests] \in p.tested
    /\ f = "decision" => /\ d.record # None
                         /\ v.verdict = "ready_for_review" => v.record \in p.decided
    /\ f = "gate" => (v = TRUE => d.record # None)
    /\ f = "final" => (v.ready => v.record \in p.ready)
    /\ f = "packet" => v \in p.ready
    /\ f = "cloud" => (v # "REQUEST_CHANGES" => p.approved)
    /\ f = "merge" => (v # "REQUEST_CHANGES" => p.ready # {} /\ p.approved)
    /\ f = "status" => (v.said = "ready_for_human_merge_decision" => p.ready # {} /\ p.approved)

Writing(o) == o.do \in {"write", "replace"}
SoundSteps(d, p) == {o \in Steps : Writing(o) => Backed(o.file, o.value, d, p)}
Writes == {o \in Steps : o.do = "write"}
NoRecord == {o \in Steps : ~(Writing(o) /\ o.file = "record")}
NoSettle == {o \in Steps : o.do # "settle"}

\* The evidence that finalize-story has judged: nothing declares a story without a record
\* ready but a record that somebody else writes meanwhile.
Judged(e, d, p) ==
    /\ e \in Final
    /\ e.ready => IF e.record = None THEN d.record = None
                  ELSE Earned(e.record, p) /\ e.record \in p.decided

JobSound(j, d, p) ==
    /\ j \in Job
    /\ j.ops \in Seq(SoundSteps(d, p))
    /\ j.ops \in Seq(Writes) \/ j.ops \in Seq(NoRecord)
    /\ j.ops \in Seq(NoSettle) \/ Judged(j.evidence, d, p)
    /\ j.gate => d.record # None

\* Tests follow the capture of the tree they are run on.
Paired(s) == \A i \in 1..Len(s) : s[i].do = "test" => i > 1 /\ s[i - 1].do = "capture"
Captured(j) == j.shot \in Snapshot \/ Paired(j.ops)

DiskSound(d, p) ==
    /\ DOMAIN d = Files
    /\ \A f \in Files : d[f] \in Absent \/ Backed(f, d[f], d, p)
    /\ d.status # None
    /\ d.decision # None => d.record # None
    /\ d.packet # None => p.ready # {}

PastSound(p) == p \in Past /\ \A r \in p.ready : r \in p.decided /\ Earned(r, p)

IInv ==
    /\ repo.head \in Nat /\ repo.edits \subseteq Kinds
    /\ DiskSound(disk, past)
    /\ JobSound(job, disk, past) /\ Captured(job)
    /\ PastSound(past)

-----------------------------------------------------------------------------
(* The properties follow *)

LEMMA InvariantSuffices ==
    ASSUME IInv
    PROVE  ReadinessEarned /\ PacketOfReadyRecord /\ NoLegacyReadiness /\ HumanAskedInTime
<1> USE ReviewAssumption, AbsenceAssumption
<1>1. ReadinessEarned
  BY DEF IInv, PastSound, ReadinessEarned, Earned
<1>2. PacketOfReadyRecord
  BY DEF IInv, DiskSound, Backed, PacketOfReadyRecord, Files, Hidden
<1>3. NoLegacyReadiness
  <2>1. disk.gate = TRUE => Backed("gate", disk.gate, disk, past)
    BY DEF IInv, DiskSound, Files, Hidden
  <2> QED
    BY <2>1 DEF IInv, DiskSound, Backed, NoLegacyReadiness
<1>4. HumanAskedInTime
  <2>1. "status" \in Files /\ "cloud" \in Files
    BY DEF Files, Visible
  <2>2. disk.status # Torn => Backed("status", disk.status, disk, past)
    BY <2>1 DEF IInv, DiskSound, Absent
  <2>3. Advice = "human review" =>
            disk.packet # None /\ disk.cloud # None /\ disk.cloud # "REQUEST_CHANGES"
    BY DEF Advice, BadResult
  <2>4. disk.cloud \in Absent \/ Backed("cloud", disk.cloud, disk, past)
    BY <2>1 DEF IInv, DiskSound
  <2>5. Advice = "human review" => past.ready # {}
    BY <2>3 DEF IInv, DiskSound
  <2>6. Advice = "human review" => past.approved \/ disk.cloud = Torn
    BY <2>3, <2>4 DEF Backed, Absent
  <2> QED
    BY <2>2, <2>5, <2>6 DEF Backed, HumanAskedInTime
<1> QED
  BY <1>1, <1>2, <1>3, <1>4

-----------------------------------------------------------------------------
(* Sequences of steps *)

LEMMA PairedEmpty == Paired(<<>>)
  BY DEF Paired

LEMMA PairedConcat ==
    ASSUME NEW S, NEW s \in Seq(S), NEW t \in Seq(S), Paired(s), Paired(t)
    PROVE  Paired(s \o t)
<1> SUFFICES ASSUME NEW i \in 1..Len(s \o t), (s \o t)[i].do = "test"
             PROVE  i > 1 /\ (s \o t)[i - 1].do = "capture"
  BY DEF Paired
<1>1. Len(s) \in Nat /\ Len(t) \in Nat /\ Len(s \o t) = Len(s) + Len(t)
      /\ \A k \in 1..Len(s) + Len(t) : (s \o t)[k] = IF k <= Len(s) THEN s[k] ELSE t[k - Len(s)]
  BY ConcatProperties, LenProperties
<1>2. CASE i <= Len(s)
  <2>1. i \in 1..Len(s) /\ s[i].do = "test"
    BY <1>1, <1>2
  <2>2. i > 1 /\ s[i - 1].do = "capture"
    BY <2>1 DEF Paired
  <2> QED
    BY <1>1, <2>1, <2>2
<1>3. CASE ~(i <= Len(s))
  <2> DEFINE k == i - Len(s)
  <2>1. k \in 1..Len(t) /\ t[k].do = "test"
    BY <1>1, <1>3
  <2>2. k > 1 /\ t[k - 1].do = "capture"
    BY <2>1 DEF Paired
  <2>3. i - 1 \in 1..Len(s) + Len(t) /\ ~(i - 1 <= Len(s)) /\ (i - 1) - Len(s) = k - 1
    BY <1>1, <2>1, <2>2
  <2>4. (s \o t)[i - 1] = t[k - 1]
    BY <1>1, <2>3
  <2> QED
    BY <1>1, <2>1, <2>2, <2>4
<1> QED
  BY <1>2, <1>3

LEMMA PairedTail ==
    ASSUME NEW S, NEW s \in Seq(S), s # <<>>, Paired(s), Head(s).do # "capture"
    PROVE  Paired(Tail(s))
<1> SUFFICES ASSUME NEW i \in 1..Len(Tail(s)), Tail(s)[i].do = "test"
             PROVE  i > 1 /\ Tail(s)[i - 1].do = "capture"
  BY DEF Paired
<1>1. /\ Len(s) \in Nat /\ Len(Tail(s)) = Len(s) - 1
      /\ \A k \in 1..Len(Tail(s)) : Tail(s)[k] = s[k + 1]
      /\ Head(s) = s[1]
  BY HeadTailProperties, LenProperties
<1>2. i + 1 \in 1..Len(s) /\ s[i + 1].do = "test"
  BY <1>1
<1>3. s[i].do = "capture"
  BY <1>2 DEF Paired
<1>4. i # 1
  BY <1>1, <1>3
<1> QED
  BY <1>1, <1>3, <1>4

\* The steps that a command sets out with.
LEMMA ScriptSound ==
    ASSUME NEW c \in DOMAIN Script, NEW d, NEW p
    PROVE  /\ Script[c] \in Seq(SoundSteps(d, p)) /\ Script[c] \in Seq(NoRecord)
           /\ Script[c] \in Seq(NoSettle) /\ Paired(Script[c])
<1> DEFINE Plain == {"capture", "test", "layers", "gate", "judge", "pack", "report"}
<1>1. \A do \in Plain : Op(do) \in SoundSteps(d, p) \cap NoRecord \cap NoSettle
  BY DEF Op, SoundSteps, NoRecord, NoSettle, Steps, Writing
<1>2. c \in {"review-bundle", "test-layers", "quality-gate", "finalize-story",
             "cloud-review-packet", "report"}
  BY DEF Script
<1>3. CASE c = "review-bundle"
  <2>1. Script[c] = <<Op("capture"), Op("test")>>
    BY <1>3 DEF Script
  <2>2. Paired(Script[c])
    BY <2>1 DEF Paired, Op
  <2> QED
    BY <1>1, <2>1, <2>2
<1>4. CASE c # "review-bundle"
  <2>1. PICK do \in Plain \ {"test"} : Script[c] = <<Op(do)>>
    BY <1>2, <1>4 DEF Script
  <2>2. Paired(Script[c])
    BY <2>1 DEF Paired, Op
  <2> QED
    BY <1>1, <2>1, <2>2
<1> QED
  BY <1>3, <1>4

LEMMA IdleSound == ASSUME NEW d, NEW p PROVE JobSound(Idle, d, p) /\ Captured(Idle)
<1>1. Idle \in Job
  BY DEF Idle, Job
<1> QED
  BY <1>1, PairedEmpty DEF Idle, JobSound, Captured

\* A command that is done makes room for the next one of its workflow.
LEMMA ContinueSound ==
    ASSUME NEW j, NEW d, NEW p, JobSound(j, d, p), Captured(j)
    PROVE  JobSound(Continue(j), d, p) /\ Captured(Continue(j))
<1>1. CASE j.ops # <<>> \/ j.cmds = <<>>
  BY <1>1, IdleSound DEF Continue
<1>2. CASE j.ops = <<>> /\ j.cmds # <<>>
  <2> DEFINE c == Head(j.cmds)
  <2>1. j \in Job /\ j.cmds \in Seq(DOMAIN Script)
    BY DEF JobSound, Job
  <2>2. c \in DOMAIN Script /\ Tail(j.cmds) \in Seq(DOMAIN Script)
    BY <1>2, <2>1, HeadTailProperties
  <2>3. /\ Script[c] \in Seq(SoundSteps(d, p)) /\ Script[c] \in Seq(NoRecord)
        /\ Script[c] \in Seq(NoSettle) /\ Paired(Script[c])
    BY <2>2, ScriptSound
  <2>4. Script[c] \in Seq(Steps)
    BY <2>3, SeqMonotonic DEF SoundSteps
  <2>5. Continue(j) = [j EXCEPT !.ops = Script[c], !.cmds = Tail(j.cmds)]
    BY <1>2, <2>1 DEF Continue, Job
  <2>6. /\ Continue(j) \in Job /\ Continue(j).ops = Script[c] /\ Continue(j).gate = j.gate
        /\ Continue(j).shot = j.shot
    BY <2>1, <2>2, <2>4, <2>5 DEF Job
  <2> QED
    BY <2>3, <2>6 DEF JobSound, Captured
<1> QED
  BY <1>1, <1>2

\* What happened is not undone, and a record that is there stays.
Grown(p, q) ==
    /\ p.tested \subseteq q.tested /\ p.decided \subseteq q.decided /\ p.ready \subseteq q.ready
    /\ p.approved => q.approved
    /\ p.unchecked => q.unchecked

LEMMA StaysEarned ==
    ASSUME NEW p, NEW q, Grown(p, q), NEW r, Earned(r, p)
    PROVE  Earned(r, q)
  BY DEF Grown, Earned

LEMMA StaysBacked ==
    ASSUME NEW p, NEW q, Grown(p, q), NEW d, NEW e, d.record # None => e.record # None,
           NEW f, NEW v, Backed(f, v, d, p)
    PROVE  Backed(f, v, e, q)
<1>1. f = "record" => Earned(v, q)
  BY StaysEarned DEF Backed
<1> QED
  BY <1>1 DEF Backed, Grown

LEMMA StaysSound ==
    ASSUME NEW p, NEW q, Grown(p, q), NEW d, NEW e, d.record # None => e.record # None,
           NEW j, JobSound(j, d, p), e.record = d.record \/ j.ops \in Seq(NoSettle)
    PROVE  JobSound(j, e, q)
<1>1. SoundSteps(d, p) \subseteq SoundSteps(e, q)
  BY StaysBacked DEF SoundSteps
<1>2. j.ops \in Seq(SoundSteps(e, q))
  BY <1>1, SeqMonotonic DEF JobSound
<1>3. j.ops \in Seq(NoSettle) \/ Judged(j.evidence, e, q)
  <2> SUFFICES ASSUME j.ops \notin Seq(NoSettle) PROVE Judged(j.evidence, e, q)
    OBVIOUS
  <2>1. Judged(j.evidence, d, p) /\ e.record = d.record
    BY DEF JobSound
  <2> QED
    BY <2>1, StaysEarned DEF Judged, Grown
<1> QED
  BY <1>2, <1>3 DEF JobSound

\* The history of a file on disk.
LEMMA DiskStaysSound ==
    ASSUME NEW p, NEW q, Grown(p, q), NEW d, DiskSound(d, p)
    PROVE  DiskSound(d, q)
<1>1. \A f \in Files : d[f] \in Absent \/ Backed(f, d[f], d, q)
  BY StaysBacked DEF DiskSound
<1> QED
  BY <1>1 DEF DiskSound, Grown

-----------------------------------------------------------------------------
(* Steps of the running command *)

\* A step is done, and others take its place.
LEMMA Advanced ==
    ASSUME NEW j, NEW d, NEW p, JobSound(j, d, p), j.ops # <<>>,
           NEW new \in Seq(SoundSteps(d, p)), Paired(new),
           \/ j.ops \in Seq(Writes) /\ new = <<>>
           \/ j.ops \in Seq(NoRecord) /\ new \in Seq(NoRecord),
           NEW k, k \in Job, k.ops = new \o Tail(j.ops),
           k.gate => d.record # None,
           \/ Judged(k.evidence, d, p)
           \/ k.evidence = j.evidence /\ new \in Seq(NoSettle),
           \/ k.shot \in Snapshot
           \/ k.shot = j.shot /\ Captured(j) /\ Head(j.ops).do # "capture"
    PROVE  JobSound(k, d, p) /\ Captured(k)
<1>1. Tail(j.ops) \in Seq(SoundSteps(d, p)) /\ <<>> \in Seq(NoRecord) /\ <<>> \in Seq(NoSettle)
  BY HeadTailProperties DEF JobSound
<1>2. k.ops \in Seq(SoundSteps(d, p))
  BY <1>1, ConcatProperties
<1>3. k.ops \in Seq(Writes) \/ k.ops \in Seq(NoRecord)
  <2>1. CASE j.ops \in Seq(Writes) /\ new = <<>>
    BY <1>1, <2>1, HeadTailProperties, ConcatEmptySeq
  <2>2. CASE j.ops \in Seq(NoRecord) /\ new \in Seq(NoRecord)
    <3>1. Tail(j.ops) \in Seq(NoRecord)
      BY <2>2, HeadTailProperties
    <3> QED
      BY <2>2, <3>1, ConcatProperties
  <2> QED
    BY <2>1, <2>2
<1>4. k.ops \in Seq(NoSettle) \/ Judged(k.evidence, d, p)
  <2>1. CASE Judged(k.evidence, d, p)
    BY <2>1
  <2>2. CASE k.evidence = j.evidence /\ new \in Seq(NoSettle) /\ j.ops \in Seq(NoSettle)
    <3>1. Tail(j.ops) \in Seq(NoSettle)
      BY <2>2, HeadTailProperties
    <3> QED
      BY <2>2, <3>1, ConcatProperties
  <2>3. CASE k.evidence = j.evidence /\ j.ops \notin Seq(NoSettle)
    BY <2>3 DEF JobSound
  <2> QED
    BY <2>1, <2>2, <2>3
<1>5. Captured(k)
  <2>1. CASE k.shot \in Snapshot
    BY <2>1 DEF Captured
  <2>2. CASE k.shot \notin Snapshot
    <3>1. Paired(j.ops) /\ Head(j.ops).do # "capture"
      BY <2>2 DEF Captured
    <3>2. Paired(Tail(j.ops))
      BY <3>1, PairedTail DEF JobSound
    <3> QED
      BY <1>1, <3>2, PairedConcat DEF Captured
  <2> QED
    BY <2>1, <2>2
<1> QED
  BY <1>2, <1>3, <1>4, <1>5 DEF JobSound

\* The step that is next.
LEMMA HeadSound ==
    ASSUME IInv, job.ops # <<>>
    PROVE  /\ Head(job.ops) \in SoundSteps(disk, past)
           /\ Tail(job.ops) \in Seq(SoundSteps(disk, past)) /\ Tail(job.ops) \in Seq(Steps)
           /\ Head(job.ops).do # "write" => job.ops \in Seq(NoRecord)
           /\ Head(job.ops).do = "settle" => Judged(job.evidence, disk, past)
           /\ Head(job.ops).do = "test" => job.shot \in Snapshot
<1>1. /\ job.ops \in Seq(SoundSteps(disk, past))
      /\ job.ops \in Seq(Writes) \/ job.ops \in Seq(NoRecord)
      /\ job.ops \in Seq(NoSettle) \/ Judged(job.evidence, disk, past)
      /\ Captured(job)
  BY DEF IInv, JobSound
<1>2. Head(job.ops) \in SoundSteps(disk, past) /\ Tail(job.ops) \in Seq(SoundSteps(disk, past))
  BY <1>1, HeadTailProperties
<1>3. Tail(job.ops) \in Seq(Steps)
  BY <1>2, SeqMonotonic DEF SoundSteps
<1>4. Head(job.ops).do # "write" => job.ops \in Seq(NoRecord)
  BY <1>1, HeadTailProperties DEF Writes
<1>5. Head(job.ops).do = "settle" => Judged(job.evidence, disk, past)
  BY <1>1, HeadTailProperties DEF NoSettle
<1>6. Head(job.ops).do = "test" => job.shot \in Snapshot
  <2>1. Head(job.ops) = job.ops[1] /\ 1 \in 1..Len(job.ops)
    BY <1>1, EmptySeq
  <2> QED
    BY <1>1, <2>1 DEF Captured, Paired
<1> QED
  BY <1>2, <1>3, <1>4, <1>5, <1>6

\* Steps that neither write a record nor test, judge or settle anything.
NoTest == {o \in Steps : o.do # "test"}
Simple(d, p) == SoundSteps(d, p) \cap NoRecord \cap NoSettle \cap NoTest

LEMMA SimpleSteps ==
    ASSUME NEW d, NEW p, NEW s \in Seq(Simple(d, p))
    PROVE  s \in Seq(SoundSteps(d, p)) /\ s \in Seq(NoRecord) /\ s \in Seq(NoSettle) /\ Paired(s)
<1>1. /\ Simple(d, p) \subseteq SoundSteps(d, p) /\ Simple(d, p) \subseteq NoRecord
      /\ Simple(d, p) \subseteq NoSettle /\ Simple(d, p) \subseteq NoTest
  BY DEF Simple
<1>2. \A i \in 1..Len(s) : s[i].do # "test"
  BY <1>1, ElementOfSeq DEF NoTest
<1> QED
  BY <1>1, <1>2, SeqMonotonic DEF Paired

LEMMA WriteSimple ==
    ASSUME NEW f, NEW v, NEW d, NEW p, Backed(f, v, d, p)
    PROVE  /\ Write(f, v) \in SoundSteps(d, p) \cap Writes \cap NoSettle \cap NoTest
           /\ f # "record" => Write(f, v) \in Simple(d, p) /\ Replace(f, v) \in Simple(d, p)
<1>1. f \in Files /\ v \in Value
  BY DEF Backed, Value
<1> QED
  BY <1>1 DEF Write, Replace, SoundSteps, Writes, Simple, NoRecord, NoSettle, NoTest, Steps, Writing

\* Next1, where something is left to do.
LEMMA NextOne ==
    ASSUME IInv, job.ops # <<>>, NEW new \in Seq(Steps), new # <<>>
    PROVE  /\ Next1(new) = [job EXCEPT !.ops = new \o Tail(job.ops)]
           /\ Next1(new) \in Job
<1>1. job \in Job /\ job.ops \in Seq(Steps) /\ Tail(job.ops) \in Seq(Steps)
  BY HeadSound DEF IInv, JobSound, Job
<1>2. new \o Tail(job.ops) \in Seq(Steps) /\ new \o Tail(job.ops) # <<>>
  BY <1>1, ConcatProperties, ConcatEqualIffEmpty
<1> DEFINE k == [job EXCEPT !.ops = new \o Tail(job.ops)]
<1>3. k \in Job /\ k.ops # <<>>
  BY <1>1, <1>2 DEF Job
<1>4. Next1(new) = Continue(k)
  BY <1>1 DEF Next1, Job
<1> HIDE DEF k
<1>5. Next1(new) = k
  BY <1>3, <1>4 DEF Continue
<1> QED
  BY <1>3, <1>5 DEF k

\* The files that a command reads.
LEMMA OnDisk ==
    ASSUME IInv, NEW f \in Files, disk[f] \notin Absent
    PROVE  Backed(f, disk[f], disk, past)
  BY DEF IInv, DiskSound

LEMMA PerformStep == ASSUME IInv, Perform PROVE IInv'
<1> USE ReviewAssumption, AbsenceAssumption
<1> DEFINE o == Head(job.ops)
<1>1. /\ job.ops # <<>> /\ Writing(o)
      /\ disk' = [disk EXCEPT ![o.file] = o.value] /\ UNCHANGED <<repo, past>>
      /\ job' = Next1(<<>>)
  BY DEF Perform, Doing, Writing
<1>2. o \in SoundSteps(disk, past) /\ Backed(o.file, o.value, disk, past) /\ o.file \in Files
  BY <1>1, HeadSound DEF SoundSteps, Backed
<1>3. o.file = "record" => job.ops \in Seq(NoSettle)
  <2>1. o.file = "record" => job.ops \notin Seq(NoRecord)
    BY <1>1, HeadTailProperties DEF NoRecord
  <2>2. Writes \subseteq NoSettle
    BY DEF Writes, NoSettle
  <2> QED
    BY <2>1, <2>2, SeqMonotonic DEF IInv, JobSound
<1>4. job.ops \in Seq(Writes) \/ job.ops \in Seq(NoRecord)
  BY DEF IInv, JobSound
<1>5. o.do \notin {"capture"}
  BY <1>1 DEF Writing
<1> HIDE DEF o
<1>6. DOMAIN disk' = Files
      /\ \A f \in Files : disk'[f] = IF f = o.file THEN o.value ELSE disk[f]
  BY <1>1, <1>2 DEF IInv, DiskSound
<1>7. {"record", "status", "decision", "packet"} \subseteq Files
  BY DEF Files, Hidden, Visible
<1>8. /\ o.file = "record" => o.value # None
      /\ o.file = "status" => o.value # None
      /\ o.file = "decision" => disk.record # None
      /\ o.file = "packet" => past.ready # {}
  BY <1>2 DEF Backed, Earned, Values, Absent
<1>9. disk.record # None => disk'.record # None
  BY <1>6, <1>7, <1>8
<1>10. Grown(past, past)
  BY DEF Grown
<1>11. DiskSound(disk', past')
  <2>1. \A f \in Files : disk'[f] \in Absent \/ Backed(f, disk'[f], disk', past)
    BY <1>2, <1>6, <1>9, <1>10, StaysBacked DEF IInv, DiskSound
  <2> QED
    BY <1>1, <1>6, <1>7, <1>8, <2>1 DEF IInv, DiskSound
<1>12. disk'.record = disk.record \/ job.ops \in Seq(NoSettle)
  BY <1>3, <1>6, <1>7
<1>13. JobSound(job, disk', past)
  BY <1>9, <1>10, <1>12, StaysSound DEF IInv
<1> DEFINE k == [job EXCEPT !.ops = <<>> \o Tail(job.ops)]
<1>14. job \in Job /\ Tail(job.ops) \in Seq(Steps) /\ <<>> \o Tail(job.ops) = Tail(job.ops)
  BY <1>1, HeadSound, ConcatEmptySeq DEF IInv, JobSound
<1>15. /\ k \in Job /\ k.ops = <<>> \o Tail(job.ops) /\ k.gate = job.gate
       /\ k.evidence = job.evidence /\ k.shot = job.shot
  BY <1>14 DEF Job
<1>16. Next1(<<>>) = Continue(k)
  BY <1>14 DEF Next1, Job
<1> HIDE DEF k
<1>17. JobSound(k, disk', past) /\ Captured(k)
  <2>1. job.gate => disk'.record # None
    BY <1>13 DEF JobSound
  <2>2. <<>> \in Seq(SoundSteps(disk', past)) /\ <<>> \in Seq(NoRecord) /\ <<>> \in Seq(NoSettle)
        /\ Paired(<<>>)
    BY PairedEmpty
  <2>3. Head(job.ops).do # "capture" /\ Captured(job)
    BY <1>5 DEF o, IInv
  <2> QED
    BY <1>1, <1>4, <1>13, <1>15, <2>1, <2>2, <2>3, Advanced
<1>18. JobSound(job', disk', past') /\ Captured(job')
  BY <1>1, <1>16, <1>17, ContinueSound
<1> QED
  BY <1>1, <1>11, <1>18 DEF IInv

\* A step that decides what to write, and leaves the files alone.
LEMMA Decides ==
    ASSUME IInv, job.ops # <<>>, job.ops \in Seq(NoRecord), UNCHANGED <<repo, disk>>,
           PastSound(past'), Grown(past, past'),
           NEW new \in Seq(SoundSteps(disk, past')), new \in Seq(NoRecord), Paired(new),
           job' \in Job, job'.ops = new \o Tail(job.ops),
           job'.gate => disk.record # None,
           \/ Judged(job'.evidence, disk, past')
           \/ job'.evidence = job.evidence /\ new \in Seq(NoSettle),
           \/ job'.shot \in Snapshot
           \/ job'.shot = job.shot /\ Head(job.ops).do # "capture"
    PROVE  IInv'
<1>1. JobSound(job, disk, past') /\ DiskSound(disk, past')
  BY StaysSound, DiskStaysSound DEF IInv
<1>2. Captured(job)
  BY DEF IInv
<1>3. JobSound(job', disk, past') /\ Captured(job')
  BY <1>1, <1>2, Advanced
<1> QED
  BY <1>1, <1>3 DEF IInv

LEMMA TreeTyped == ASSUME IInv, NEW host \in Hosts
    PROVE  [head |-> repo.head, changes |-> Changes, ignored |-> Ignored, host |-> Parity(host)] \in Snapshot
<1>1. Changes \in SUBSET (Kinds \cup {"untracked", "content"})
  BY DEF IInv, Changes
<1>2. Ignored \in SUBSET Hidden
  BY DEF Ignored
<1>3. Parity(host) \in {"not_checked", "passed", "failed"}
  BY DEF Parity
<1> QED
  BY <1>1, <1>2, <1>3 DEF Snapshot, IInv

LEMMA OpsTaken ==
    ASSUME NEW k \in Job, NEW ops \in Seq(Steps), NEW m, m = [k EXCEPT !.ops = ops]
    PROVE  /\ m \in Job /\ m.ops = ops /\ m.gate = k.gate /\ m.evidence = k.evidence
           /\ m.shot = k.shot /\ m.cmds = k.cmds /\ m.ok = k.ok
  BY DEF Job

LEMMA ShotTaken ==
    ASSUME NEW k \in Job, NEW shot \in Snapshot, NEW m, m = [k EXCEPT !.shot = shot]
    PROVE  /\ m \in Job /\ m.ops = k.ops /\ m.gate = k.gate /\ m.evidence = k.evidence
           /\ m.shot = shot /\ k.cmds = m.cmds
  BY DEF Job

\* Updates of different fields commute.
LEMMA Commute ==
    ASSUME NEW k \in Job, NEW a, NEW b, NEW c
    PROVE  [[k EXCEPT !.ops = a, !.cmds = b] EXCEPT !.shot = c] =
           [[k EXCEPT !.shot = c] EXCEPT !.ops = a, !.cmds = b]
  BY DEF Job

LEMMA CaptureStep == ASSUME IInv, Capture PROVE IInv'
<1>1. PICK host \in Hosts :
          job' = [Next1(<<>>) EXCEPT !.shot = [head |-> repo.head, changes |-> Changes,
                                               ignored |-> Ignored, host |-> Parity(host)]]
  BY DEF Capture
<1> DEFINE shot == [head |-> repo.head, changes |-> Changes, ignored |-> Ignored, host |-> Parity(host)]
           k == [job EXCEPT !.ops = <<>> \o Tail(job.ops)]
           m == [k EXCEPT !.shot = shot]
<1>2. /\ job.ops # <<>> /\ Head(job.ops).do = "capture" /\ UNCHANGED <<repo, disk, past>>
      /\ shot \in Snapshot /\ job' = [Next1(<<>>) EXCEPT !.shot = shot]
  BY <1>1, TreeTyped DEF Capture, Doing
<1> HIDE DEF shot
<1>3. /\ job \in Job /\ job.ops \in Seq(NoRecord) /\ Tail(job.ops) \in Seq(Steps)
      /\ <<>> \o Tail(job.ops) = Tail(job.ops) /\ job.gate => disk.record # None
  BY <1>2, HeadSound, ConcatEmptySeq DEF IInv, JobSound
<1>4. /\ k \in Job /\ Next1(<<>>) = Continue(k)
      /\ m \in Job /\ m.ops = <<>> \o Tail(job.ops) /\ m.gate = job.gate
      /\ m.evidence = job.evidence /\ m.shot = shot /\ k.ops = m.ops /\ k.cmds = m.cmds
  <2>1. /\ k \in Job /\ k.ops = <<>> \o Tail(job.ops) /\ k.gate = job.gate
        /\ k.evidence = job.evidence
    <3>1. job \in Job /\ <<>> \o Tail(job.ops) \in Seq(Steps)
      BY <1>3
    <3> QED
      BY <3>1, OpsTaken
  <2>2. Next1(<<>>) = Continue(k)
    BY <1>3 DEF Next1, Job
  <2> HIDE DEF k
  <2>3. shot \in Snapshot
    BY <1>2
  <2>4. m \in Job /\ m.ops = k.ops /\ m.gate = k.gate /\ m.evidence = k.evidence
        /\ m.shot = shot /\ k.cmds = m.cmds
    BY <2>1, <2>3, ShotTaken
  <2> QED
    BY <2>1, <2>2, <2>4
<1>5. JobSound(m, disk, past) /\ Captured(m)
  <2>1. /\ <<>> \in Seq(SoundSteps(disk, past)) /\ <<>> \in Seq(NoRecord) /\ <<>> \in Seq(NoSettle)
        /\ Paired(<<>>) /\ JobSound(job, disk, past)
    BY PairedEmpty DEF IInv
  <2>2. m.shot \in Snapshot /\ (m.gate => disk.record # None)
    BY <1>2, <1>3, <1>4
  <2> HIDE DEF m, k
  <2> QED
    BY <1>2, <1>3, <1>4, <2>1, <2>2, Advanced
<1>6. JobSound(job', disk, past) /\ Captured(job')
  <2>1. CASE m.ops = <<>> /\ m.cmds = <<>>
    <3>1. job' = [Idle EXCEPT !.shot = shot]
      BY <1>2, <1>4, <2>1 DEF Continue
    <3>2. Idle \in Job /\ JobSound(Idle, disk, past)
      BY IdleSound DEF JobSound
    <3>3. job' \in Job /\ job'.ops = Idle.ops /\ job'.evidence = Idle.evidence
          /\ job'.gate = Idle.gate /\ job'.shot = shot
      BY <1>2, <3>1, <3>2 DEF Job
    <3> QED
      BY <1>2, <3>2, <3>3 DEF JobSound, Captured
  <2>2. CASE m.ops # <<>>
    <3>1. job' = m
      BY <1>2, <1>4, <2>2 DEF Continue
    <3> QED
      BY <1>5, <3>1
  <2>3. CASE m.ops = <<>> /\ m.cmds # <<>>
    <3>1. /\ Continue(k) = [k EXCEPT !.ops = Script[Head(k.cmds)], !.cmds = Tail(k.cmds)]
          /\ Continue(m) = [m EXCEPT !.ops = Script[Head(m.cmds)], !.cmds = Tail(m.cmds)]
      BY <1>4, <2>3 DEF Continue
    <3>2. job' = Continue(m)
      <4>1. job' = [[k EXCEPT !.ops = Script[Head(m.cmds)], !.cmds = Tail(m.cmds)]
                      EXCEPT !.shot = shot]
        BY <1>2, <1>4, <3>1
      <4>2. Continue(m) = [[k EXCEPT !.shot = shot]
                             EXCEPT !.ops = Script[Head(m.cmds)], !.cmds = Tail(m.cmds)]
        BY <3>1
      <4> QED
        BY <1>4, <4>1, <4>2, Commute
    <3> QED
      BY <1>5, <3>2, ContinueSound
  <2> QED
    BY <2>1, <2>2, <2>3
<1> QED
  BY <1>2, <1>6 DEF IInv

LEMMA TestStep == ASSUME IInv, Test PROVE IInv'
<1>1. PICK output \in Outputs :
          /\ past' = [past EXCEPT !.tested = @ \cup {[of |-> job.shot, tests |-> output]}]
          /\ job' = [Next1(BundleWrites(job.shot, output)) EXCEPT !.ok = @ /\ output \in Passing]
  BY DEF Test
<1>2. /\ job.ops # <<>> /\ Head(job.ops).do = "test" /\ UNCHANGED <<repo, disk>>
      /\ job.shot \in Snapshot /\ past \in Past /\ job \in Job /\ job.ops \in Seq(NoRecord)
  BY HeadSound DEF Test, Doing, IInv, PastSound, JobSound
<1>3. /\ past' \in Past /\ Grown(past, past') /\ past'.ready = past.ready
      /\ [of |-> job.shot, tests |-> output] \in past'.tested
  BY <1>1, <1>2 DEF Past, Grown
<1>4. PastSound(past')
  BY <1>3, StaysEarned DEF IInv, PastSound, Grown
<1> DEFINE new == BundleWrites(job.shot, output)
<1>5. new \in Seq(Simple(disk, past')) /\ new # <<>>
  <2>1. {"manifest", "evidence", "tests", "checksums", "legacy"} \subseteq Files
    BY DEF Files, Bundle
  <2>2. /\ Backed("manifest", job.shot, disk, past') /\ Backed("evidence", job.shot, disk, past')
        /\ Backed("tests", output, disk, past') /\ Backed("legacy", output, disk, past')
        /\ Backed("checksums", [manifest |-> job.shot, tests |-> output], disk, past')
    BY <1>2, <1>3, <2>1 DEF Backed, Values
  <2>3. /\ Write("manifest", job.shot) \in Simple(disk, past')
        /\ Write("evidence", job.shot) \in Simple(disk, past')
        /\ Write("tests", output) \in Simple(disk, past')
        /\ Write("checksums", [manifest |-> job.shot, tests |-> output]) \in Simple(disk, past')
        /\ Write("legacy", output) \in Simple(disk, past')
    BY <2>2, WriteSimple
  <2> QED
    BY <2>3 DEF BundleWrites
<1>6. /\ new \in Seq(SoundSteps(disk, past')) /\ new \in Seq(NoRecord) /\ new \in Seq(NoSettle)
      /\ Paired(new)
  BY <1>5, SimpleSteps
<1> HIDE DEF new
<1>7. new \in Seq(Steps)
  BY <1>6, SeqMonotonic DEF SoundSteps
<1>8. Next1(new) = [job EXCEPT !.ops = new \o Tail(job.ops)] /\ Next1(new) \in Job
  BY <1>2, <1>5, <1>7, NextOne
<1>9. job' = [Next1(new) EXCEPT !.ok = @ /\ output \in Passing]
  BY <1>1 DEF new
<1>10. /\ job' \in Job /\ job'.ops = new \o Tail(job.ops) /\ job'.gate = job.gate
       /\ job'.evidence = job.evidence /\ job'.shot = job.shot
  BY <1>2, <1>8, <1>9 DEF Job
<1>11. job'.gate => disk.record # None
  BY <1>10 DEF IInv, JobSound
<1> QED
  BY <1>2, <1>3, <1>4, <1>6, <1>10, <1>11, Decides

LEMMA OkTaken ==
    ASSUME NEW k \in Job, NEW ok \in BOOLEAN, NEW m, m = [k EXCEPT !.ok = ok]
    PROVE  /\ m \in Job /\ m.ops = k.ops /\ m.gate = k.gate /\ m.evidence = k.evidence
           /\ m.shot = k.shot
  BY DEF Job

\* A step that only decides what to write and whether all is well.
LEMMA DecidesWrites ==
    ASSUME IInv, job.ops # <<>>, UNCHANGED <<repo, disk>>,
           PastSound(past'), Grown(past, past'), Head(job.ops).do \notin {"write", "capture"},
           NEW new \in Seq(Simple(disk, past')), new # <<>>, NEW ok \in BOOLEAN,
           job' = [Next1(new) EXCEPT !.ok = ok]
    PROVE  IInv'
<1>1. /\ new \in Seq(SoundSteps(disk, past')) /\ new \in Seq(NoRecord) /\ new \in Seq(NoSettle)
      /\ Paired(new)
  BY SimpleSteps
<1>2. new \in Seq(Steps)
  BY <1>1, SeqMonotonic DEF SoundSteps
<1>3. job \in Job /\ Tail(job.ops) \in Seq(Steps) /\ job.ops \in Seq(NoRecord)
  BY HeadSound DEF IInv, JobSound
<1> DEFINE ops == new \o Tail(job.ops)
<1>4. ops \in Seq(Steps)
  BY <1>2, <1>3, ConcatProperties
<1>5. Next1(new) = [job EXCEPT !.ops = ops]
  BY <1>2, NextOne
<1> HIDE DEF ops
<1>6. /\ Next1(new) \in Job /\ Next1(new).ops = ops
      /\ Next1(new).gate = job.gate /\ Next1(new).evidence = job.evidence
      /\ Next1(new).shot = job.shot
  BY <1>3, <1>4, <1>5 DEF Job
<1> USE DEF ops
<1>7. /\ job' \in Job /\ job'.ops = new \o Tail(job.ops) /\ job'.gate = job.gate
      /\ job'.evidence = job.evidence /\ job'.shot = job.shot
  BY <1>6, OkTaken
<1>8. job'.gate => disk.record # None
  BY <1>7 DEF IInv, JobSound
<1> QED
  BY <1>1, <1>3, <1>7, <1>8, Decides

\* The history is as it was.
LEMMA NothingHappened ==
    ASSUME IInv, UNCHANGED past
    PROVE  PastSound(past') /\ Grown(past, past')
  BY DEF IInv, Grown

LEMMA TestLayersStep == ASSUME IInv, TestLayers PROVE IInv'
<1>1. PICK result \in IF Layered THEN {"PASSED", "FAILED"} ELSE {"LEGACY_FORMAT"} :
          job' = [Next1(<<Write("layers", result)>>) EXCEPT !.ok = @ /\ result = "PASSED"]
  BY DEF TestLayers
<1>2. /\ job.ops # <<>> /\ Head(job.ops).do = "layers" /\ UNCHANGED <<repo, disk, past>>
  BY DEF TestLayers, Doing
<1> DEFINE new == <<Write("layers", result)>>
<1>3. new \in Seq(Simple(disk, past')) /\ new # <<>>
  <2>1. Backed("layers", result, disk, past')
    BY DEF Backed, Values, Files, Visible
  <2>2. Write("layers", result) \in Simple(disk, past')
    BY <2>1, WriteSimple
  <2> QED
    BY <2>2
<1>4. Next1(new).ok \in BOOLEAN
  <2>1. new \in Seq(Steps)
    BY <1>3, SeqMonotonic DEF Simple, SoundSteps
  <2> QED
    BY <1>2, <1>3, <2>1, NextOne DEF Job
<1> HIDE DEF new
<1>5. job' = [Next1(new) EXCEPT !.ok = Next1(new).ok /\ result = "PASSED"]
  BY <1>1 DEF new
<1>6. (Next1(new).ok /\ result = "PASSED") \in BOOLEAN
  BY <1>4
<1> QED
  BY <1>2, <1>3, <1>5, <1>6, NothingHappened, DecidesWrites

\* A failed step, or one that needs nothing else, changes only whether all is well.
LEMMA FailStep ==
    ASSUME IInv, job' = Fail, UNCHANGED <<repo, disk, past>>
    PROVE  IInv'
<1> DEFINE k == [job EXCEPT !.ops = <<>>, !.ok = FALSE]
<1>1. JobSound(job, disk, past) /\ job \in Job
  BY DEF IInv, JobSound
<1>2. k \in Job /\ k.ops = <<>> /\ k.gate = job.gate
  <2>1. job \in Job /\ <<>> \in Seq(Steps)
    BY <1>1
  <2> QED
    BY <2>1 DEF Job
<1>3. JobSound(k, disk, past) /\ Captured(k)
  BY <1>1, <1>2, PairedEmpty DEF JobSound, Captured
<1>4. job' = Continue(k)
  BY DEF Fail
<1> HIDE DEF k
<1>5. JobSound(job', disk, past) /\ Captured(job')
  BY <1>3, <1>4, ContinueSound
<1> QED
  BY <1>5 DEF IInv

LEMMA PacketBacked ==
    ASSUME IInv, PacketReady
    PROVE  Backed("packet", disk.record, disk, past)
<1> USE ReviewAssumption, AbsenceAssumption
<1>1. {"gate", "final", "record", "packet"} \subseteq Files
  BY DEF Files, Hidden
<1>2. disk.record # None
  BY <1>1, OnDisk DEF PacketReady, Backed
<1>3. disk.record # Torn
  BY <1>2 DEF PacketReady, EvidenceReady, RecordValid
<1>4. Backed("record", disk.record, disk, past) /\ Backed("final", disk.final, disk, past)
  BY <1>1, <1>2, <1>3, OnDisk DEF Absent, PacketReady
<1>5. disk.record \in Record /\ disk.record \in past.ready
  BY <1>2, <1>4 DEF Backed, Earned, PacketReady
<1> QED
  BY <1>1, <1>5 DEF Backed, Values

LEMMA PackStep == ASSUME IInv, Pack PROVE IInv'
<1>1. /\ job.ops # <<>> /\ Head(job.ops).do = "pack" /\ UNCHANGED <<repo, disk, past>>
  BY DEF Pack, Doing
<1>2. CASE ~PacketReady
  BY <1>1, <1>2, FailStep DEF Pack
<1>3. CASE PacketReady
  <2> DEFINE new == <<Write("packet", disk.record)>>
  <2>1. new \in Seq(Simple(disk, past')) /\ new # <<>>
    <3>1. Write("packet", disk.record) \in Simple(disk, past')
      BY <1>1, <1>3, PacketBacked, WriteSimple
    <3> QED
      BY <3>1
  <2>2. new \in Seq(Steps)
    BY <2>1, SeqMonotonic DEF Simple, SoundSteps
  <2>3. Next1(new) \in Job /\ job' = Next1(new)
    BY <1>1, <1>3, <2>1, <2>2, NextOne DEF Pack
  <2> HIDE DEF new
  <2>4. job' = [Next1(new) EXCEPT !.ok = Next1(new).ok] /\ Next1(new).ok \in BOOLEAN
    BY <2>3 DEF Job
  <2> QED
    BY <1>1, <2>1, <2>4, NothingHappened, DecidesWrites
<1> QED
  BY <1>2, <1>3

LEMMA ReportStep == ASSUME IInv, Report PROVE IInv'
<1> DEFINE status == IF job.ok THEN "completed" ELSE "failed"
           new == <<Write("workflow", [phase |-> job.flow, status |-> status])>>
<1>1. /\ job.ops # <<>> /\ Head(job.ops).do = "report" /\ UNCHANGED <<repo, disk, past>>
      /\ job' = Next1(new) /\ job \in Job
  BY DEF Report, Doing, IInv, JobSound
<1>2. new \in Seq(Simple(disk, past')) /\ new # <<>>
  <2>1. Backed("workflow", [phase |-> job.flow, status |-> status], disk, past')
    BY <1>1 DEF Backed, Values, Files, Visible, Job
  <2>2. Write("workflow", [phase |-> job.flow, status |-> status]) \in Simple(disk, past')
    BY <2>1, WriteSimple
  <2> QED
    BY <2>2
<1>3. new \in Seq(Steps)
  BY <1>2, SeqMonotonic DEF Simple, SoundSteps
<1> HIDE DEF new
<1>4. Next1(new) \in Job
  BY <1>1, <1>2, <1>3, NextOne
<1>5. job' = [Next1(new) EXCEPT !.ok = Next1(new).ok] /\ Next1(new).ok \in BOOLEAN
  BY <1>1, <1>4 DEF Job
<1> QED
  BY <1>1, <1>2, <1>5, NothingHappened, DecidesWrites

\* Nothing passes the gate without a record: a decision is only written next to one.
LEMMA GateNeedsRecord ==
    ASSUME IInv, GateReady
    PROVE  disk.record # None
  BY DEF IInv, DiskSound, GateReady, Absent

LEMMA QualityGateStep == ASSUME IInv, QualityGate PROVE IInv'
<1> DEFINE new == <<Write("gate", GateReady)>>
           ops == new \o Tail(job.ops)
<1>1. /\ job.ops # <<>> /\ Head(job.ops).do = "gate" /\ UNCHANGED <<repo, disk, past>>
      /\ job' = [Next1(new) EXCEPT !.gate = GateReady]
  BY DEF QualityGate, Doing
<1>2. GateReady \in BOOLEAN
  BY DEF GateReady
<1>3. new \in Seq(Simple(disk, past')) /\ new # <<>>
  <2>1. Backed("gate", GateReady, disk, past')
    BY <1>2, GateNeedsRecord DEF Backed, Values, Files, Hidden
  <2>2. Write("gate", GateReady) \in Simple(disk, past')
    BY <2>1, WriteSimple
  <2> QED
    BY <2>2
<1>4. /\ new \in Seq(SoundSteps(disk, past')) /\ new \in Seq(NoRecord) /\ new \in Seq(NoSettle)
      /\ Paired(new)
  BY <1>3, SimpleSteps
<1> HIDE DEF new
<1>5. new \in Seq(Steps)
  BY <1>4, SeqMonotonic DEF SoundSteps
<1>6. job \in Job /\ job.ops \in Seq(NoRecord) /\ Tail(job.ops) \in Seq(Steps)
  BY <1>1, HeadSound DEF IInv, JobSound
<1>7. Next1(new) = [job EXCEPT !.ops = ops] /\ ops \in Seq(Steps)
  BY <1>1, <1>3, <1>5, <1>6, NextOne, ConcatProperties
<1> HIDE DEF ops
<1>8. job' = [[job EXCEPT !.ops = ops] EXCEPT !.gate = GateReady]
  BY <1>1, <1>7
<1>9. /\ job' \in Job /\ job'.ops = ops /\ job'.gate = GateReady
      /\ job'.evidence = job.evidence /\ job'.shot = job.shot
  BY <1>2, <1>6, <1>7, <1>8 DEF Job
<1> QED
  BY <1>1, <1>4, <1>6, <1>9, NothingHappened, GateNeedsRecord, Decides DEF ops

\* What finalize-story finds: without a record the story is "legacy" and the evidence is
\* taken for ready; a record is earned, and decided if the evidence is ready.
LEMMA JudgeStep == ASSUME IInv, Judge PROVE IInv'
<1> USE ReviewAssumption, AbsenceAssumption
<1>1. /\ job.ops # <<>> /\ Head(job.ops).do = "judge" /\ UNCHANGED <<repo, disk, past>>
      /\ job \in Job /\ job.ops \in Seq(NoRecord) /\ Tail(job.ops) \in Seq(Steps)
      /\ job.gate => disk.record # None
  BY HeadSound DEF Judge, Doing, IInv, JobSound
<1> DEFINE plain == SoundSteps(disk, past') \cap NoRecord
<1>2. \A do \in {"capture", "test", "layers", "gate", "settle"} : Op(do) \in plain
  BY DEF Op, SoundSteps, NoRecord, Steps, Writing
\* The evidence is replaced together with the steps.
<1>3. ASSUME NEW new \in Seq(plain), new # <<>>, Paired(new), NEW e, Judged(e, disk, past'),
             job' = [Next1(new) EXCEPT !.evidence = e]
      PROVE  IInv'
  <2> DEFINE ops == new \o Tail(job.ops)
  <2>1. new \in Seq(SoundSteps(disk, past')) /\ new \in Seq(NoRecord)
    BY <1>3, SeqMonotonic
  <2>2. new \in Seq(Steps)
    BY <2>1, SeqMonotonic DEF SoundSteps
  <2>3. Next1(new) = [job EXCEPT !.ops = ops] /\ ops \in Seq(Steps)
    BY <1>1, <1>3, <2>2, NextOne, ConcatProperties
  <2> HIDE DEF ops
  <2>4. job' = [[job EXCEPT !.ops = ops] EXCEPT !.evidence = e] /\ e \in Final
    BY <1>3, <2>3 DEF Judged
  <2>5. /\ job' \in Job /\ job'.ops = ops /\ job'.gate = job.gate
        /\ job'.evidence = e /\ job'.shot = job.shot
    BY <1>1, <2>3, <2>4 DEF Job
  <2> QED
    BY <1>1, <1>3, <2>1, <2>5, NothingHappened, Decides DEF ops
<1>4. CASE disk.record = None
  <2> DEFINE e == [ready |-> TRUE, record |-> None, verdict |-> None]
             before == <<Op("capture"), Op("test")>>
             layers == IF Layered THEN <<Op("layers")>> ELSE <<>>
             after == <<Op("gate"), Op("settle"), Op("capture"), Op("test")>>
  <2>1. job' = [Next1(before \o layers \o after) EXCEPT !.evidence = e]
    BY <1>4 DEF Judge
  <2>2. Judged(e, disk, past')
    BY <1>4 DEF Judged, Final
  <2>3. before \in Seq(plain) /\ layers \in Seq(plain) /\ after \in Seq(plain)
    <3> HIDE DEF plain
    <3>1. before \in Seq(plain)
      BY <1>2
    <3>2. layers \in Seq(plain)
      BY <1>2
    <3>3. after \in Seq(plain)
      BY <1>2
    <3> QED
      BY <3>1, <3>2, <3>3
  <2>4. Paired(before) /\ Paired(layers) /\ Paired(after)
    <3>1. Paired(before)
      BY DEF Paired, Op
    <3>2. Paired(layers)
      BY PairedEmpty DEF Paired, Op
    <3>3. Paired(after)
      <4>1. Len(after) = 4 /\ after[1].do = "gate" /\ after[2].do = "settle"
            /\ after[3].do = "capture" /\ after[4].do = "test"
        BY DEF Op
      <4> HIDE DEF after
      <4> QED
        BY <4>1 DEF Paired
    <3> QED
      BY <3>1, <3>2, <3>3
  <2>5. after # <<>>
    OBVIOUS
  <2> HIDE DEF before, layers, after, plain, e
  <2>6. before \o layers \in Seq(plain) /\ before \o layers \o after \in Seq(plain)
    BY <2>3, ConcatProperties
  <2>7. Paired(before \o layers \o after)
    BY <2>3, <2>4, <2>6, PairedConcat
  <2>8. before \o layers \o after # <<>>
    BY <2>3, <2>5, <2>6, ConcatEqualIffEmpty
  <2> QED
    BY <1>3, <2>1, <2>2, <2>6, <2>7, <2>8
<1>5. CASE disk.record # None /\ ~RecordValid
  BY <1>1, <1>5, FailStep DEF Judge
<1>6. CASE disk.record # None /\ RecordValid
  <2> DEFINE e == [ready |-> EvidenceReady, record |-> disk.record,
                   verdict |-> IF DecisionBound THEN disk.decision.verdict ELSE "pending"]
             new == <<Op("gate"), Op("settle")>>
  <2>1. job' = [Next1(new) EXCEPT !.evidence = e]
    BY <1>6 DEF Judge
  <2>2. "record" \in Files /\ "decision" \in Files
    BY DEF Files, Hidden
  <2>3. Earned(disk.record, past)
    <3>1. disk.record \notin Absent
      BY <1>6 DEF RecordValid, Absent
    <3> QED
      BY <2>2, <3>1, OnDisk DEF Backed
  <2>4. DecisionBound => /\ Backed("decision", disk.decision, disk, past)
                         /\ disk.decision.record = disk.record /\ disk.decision \in Decision
    BY <2>2, OnDisk DEF DecisionBound, Backed, Values
  <2>5. EvidenceReady => disk.record \in past.decided
    BY <2>4 DEF EvidenceReady, Backed
  <2>6. EvidenceReady \in BOOLEAN
    BY DEF EvidenceReady
  <2>7. e \in Final
    <3>1. disk.record \in Record
      BY <2>3 DEF Earned
    <3>2. (IF DecisionBound THEN disk.decision.verdict ELSE "pending") \in Verdicts
      BY <2>4 DEF Decision, Verdicts
    <3> QED
      BY <2>6, <3>1, <3>2 DEF Final
  <2>8. Judged(e, disk, past')
    BY <1>1, <1>6, <2>3, <2>5, <2>7 DEF Judged
  <2>9. new \in Seq(plain) /\ new # <<>>
    BY <1>2
  <2>10. Paired(new)
    BY DEF Paired, Op
  <2> QED
    BY <1>3, <2>1, <2>8, <2>9, <2>10
<1> QED
  BY <1>4, <1>5, <1>6

\* status.yaml in the hands of a command.
LEMMA SayingTyped ==
    ASSUME IInv, NEW said \in ReadyStatuses \cup {"planned", "prepared", "request_changes",
                                                  "remote_dev_failed", "remote_dev_not_run"}
    PROVE  Saying(said) \in Status /\ Saying(said).said = said
<1>1. "status" \in Files
  BY DEF Files, Visible
<1>2. disk.status = Torn \/ disk.status \in Status
  BY <1>1, OnDisk DEF IInv, DiskSound, Absent, Backed, Values
<1>3. (IF disk.status = Torn THEN None ELSE disk.status.merge) \in MergeStatuses \cup {None}
  BY <1>2 DEF Status
<1> QED
  BY <1>3 DEF Saying, Status

LEMMA SettleStep == ASSUME IInv, Settle PROVE IInv'
<1> DEFINE ready == job.gate /\ job.evidence.ready
           status == Saying(IF ready THEN "ready_for_review" ELSE "request_changes")
           final == [job.evidence EXCEPT !.ready = ready]
           new == <<Write("status", status), Write("final", final)>>
<1>1. /\ job.ops # <<>> /\ Head(job.ops).do = "settle" /\ UNCHANGED <<repo, disk>>
      /\ job' = [Next1(new) EXCEPT !.ok = @ /\ ready]
      /\ past' = IF ready THEN [past EXCEPT !.ready = @ \cup {job.evidence.record}] ELSE past
  BY DEF Settle, Doing
<1>2. /\ Judged(job.evidence, disk, past) /\ job.evidence \in Final /\ past \in Past
      /\ job.gate \in BOOLEAN /\ (job.gate => disk.record # None)
  BY <1>1, HeadSound DEF Judged, IInv, JobSound, PastSound, Job
<1>3. ready \in BOOLEAN
  BY <1>2 DEF Final
<1>4. ready => /\ Earned(job.evidence.record, past) /\ job.evidence.record \in past.decided
               /\ job.evidence.record \in Record
  BY <1>2 DEF Judged, Earned
<1>5. /\ final \in Final /\ final.ready = ready /\ final.record = job.evidence.record
  BY <1>2, <1>3 DEF Final
<1> HIDE DEF final
<1>6. status \in Status /\ status.said # "ready_for_human_merge_decision"
  BY SayingTyped DEF ReadyStatuses
<1> HIDE DEF status, ready
<1>7. /\ past' \in Past /\ Grown(past, past')
      /\ past'.ready = IF ready THEN past.ready \cup {job.evidence.record} ELSE past.ready
      /\ past'.decided = past.decided
  BY <1>1, <1>2, <1>4 DEF Past, Grown
<1>8. PastSound(past')
  <2> SUFFICES ASSUME NEW r \in past'.ready PROVE r \in past'.decided /\ Earned(r, past')
    BY <1>7 DEF PastSound
  <2>1. r \in past.decided /\ Earned(r, past)
    BY <1>4, <1>7 DEF IInv, PastSound
  <2> QED
    BY <1>7, <2>1, StaysEarned
<1>9. new \in Seq(Simple(disk, past')) /\ new # <<>>
  <2>1. "status" \in Files /\ "final" \in Files
    BY DEF Files, Visible, Hidden
  <2>2. Backed("status", status, disk, past')
    BY <1>6, <2>1 DEF Backed, Values
  <2>3. Backed("final", final, disk, past')
    BY <1>5, <1>7, <2>1 DEF Backed, Values
  <2>4. Write("status", status) \in Simple(disk, past') /\ Write("final", final) \in Simple(disk, past')
    BY <2>2, <2>3, WriteSimple
  <2> QED
    BY <2>4
<1>10. new \in Seq(Steps)
  BY <1>9, SeqMonotonic DEF Simple, SoundSteps
<1> HIDE DEF new
<1>11. Next1(new) \in Job
  BY <1>1, <1>9, <1>10, NextOne
<1>12. job' = [Next1(new) EXCEPT !.ok = Next1(new).ok /\ ready]
       /\ (Next1(new).ok /\ ready) \in BOOLEAN
  BY <1>1, <1>3, <1>11 DEF Job
<1> QED
  BY <1>1, <1>7, <1>8, <1>9, <1>12, DecidesWrites

-----------------------------------------------------------------------------
(* The commands *)

\* A command that is started with its first steps.
LEMMA Issued ==
    ASSUME IInv, UNCHANGED <<repo, disk>>, PastSound(past'), Grown(past, past'),
           NEW ops, ops \in Seq(SoundSteps(disk, past')),
           ops \in Seq(Writes) \/ ops \in Seq(NoRecord), ops \in Seq(NoSettle), Paired(ops),
           job' = Continue([Idle EXCEPT !.ops = ops])
    PROVE  IInv'
<1> DEFINE k == [Idle EXCEPT !.ops = ops]
<1>1. ops \in Seq(Steps)
  BY SeqMonotonic DEF SoundSteps
<1>2. k \in Job /\ k.ops = ops /\ k.gate = FALSE
  <2>1. Idle \in Job /\ Idle.gate = FALSE
    BY IdleSound DEF JobSound, Idle
  <2> QED
    BY <1>1, <2>1 DEF Job
<1>3. JobSound(k, disk, past') /\ Captured(k)
  BY <1>2 DEF JobSound, Captured
<1> HIDE DEF k
<1>4. JobSound(job', disk, past') /\ Captured(job')
  BY <1>3, ContinueSound DEF k
<1> QED
  BY <1>4, DiskStaysSound DEF IInv

LEMMA IssuedSimple ==
    ASSUME IInv, UNCHANGED <<repo, disk>>, PastSound(past'), Grown(past, past'),
           NEW ops \in Seq(Simple(disk, past')), job' = Continue([Idle EXCEPT !.ops = ops])
    PROVE  IInv'
  BY SimpleSteps, Issued

LEMMA RunScriptStep ==
    ASSUME IInv, NEW command \in DOMAIN Script, NEW name, Issue(name, Script[command]),
           UNCHANGED <<repo, disk, past>>
    PROVE  IInv'
  BY ScriptSound, NothingHappened, Issued DEF Issue, Start

LEMMA RecordExecutionStep ==
    ASSUME IInv, NEW by \in Executors, NEW force \in BOOLEAN, RecordExecution(by, force)
    PROVE  IInv'
<1> USE ReviewAssumption, AbsenceAssumption
<1> DEFINE record == RecordBy(by)
           new == <<Write("record", record), Write("views", record)>>
<1>1. /\ BundleValid /\ Classification(disk.manifest.changes) \in AcceptableCleanliness
      /\ disk.tests \in Passing /\ UNCHANGED <<repo, disk>>
      /\ past' = [past EXCEPT !.unchecked = @ \/ disk.checksums = Torn]
      /\ job' = Continue([Idle EXCEPT !.ops = new])
  BY DEF RecordExecution, RolesCovered, Issue, Start, RecordWrites
<1>2. {"manifest", "tests", "checksums", "record", "views"} \subseteq Files
  BY DEF Files, Hidden, Visible, Bundle
<1>3. past \in Past
  BY DEF IInv, PastSound
<1>4. /\ past' \in Past /\ Grown(past, past') /\ past'.tested = past.tested
      /\ past'.ready = past.ready /\ past'.decided = past.decided
      /\ past'.unchecked = (past.unchecked \/ disk.checksums = Torn)
  BY <1>1, <1>3 DEF Past, Grown
<1>5. PastSound(past')
  BY <1>4, StaysEarned DEF IInv, PastSound
<1>6. Earned(record, past')
  <2>1. disk.manifest \in Snapshot
    BY <1>1, <1>2, OnDisk DEF BundleValid, Backed, Values
  <2>2. record \in Record /\ record.of = disk.manifest /\ record.tests = disk.tests
    BY <1>1, <2>1 DEF RecordBy, Record
  <2>3. ~past'.unchecked => [of |-> disk.manifest, tests |-> disk.tests] \in past'.tested
    <3> SUFFICES ASSUME ~past'.unchecked
                 PROVE  [of |-> disk.manifest, tests |-> disk.tests] \in past'.tested
      OBVIOUS
    <3>1. disk.checksums \notin Absent
      BY <1>1, <1>4 DEF BundleValid, Absent
    <3>2. [of |-> disk.checksums.manifest, tests |-> disk.checksums.tests] \in past.tested
      BY <1>2, <3>1, OnDisk DEF Backed
    <3>3. disk.checksums.manifest = disk.manifest /\ disk.tests = disk.checksums.tests
      BY <1>1, <3>1 DEF BundleValid, EvidenceIntact, Absent
    <3> QED
      BY <1>4, <3>2, <3>3
  <2> QED
    BY <1>1, <2>2, <2>3 DEF Earned
<1> HIDE DEF record
<1>7. Backed("record", record, disk, past') /\ Backed("views", record, disk, past')
  BY <1>2, <1>6 DEF Backed, Values, Earned
<1>8. Write("record", record) \in SoundSteps(disk, past') \cap Writes \cap NoSettle \cap NoTest
      /\ Write("views", record) \in SoundSteps(disk, past') \cap Writes \cap NoSettle \cap NoTest
  BY <1>7, WriteSimple
<1>9. /\ new \in Seq(SoundSteps(disk, past')) /\ new \in Seq(Writes) /\ new \in Seq(NoSettle)
      /\ Paired(new)
  <2>1. new \in Seq(SoundSteps(disk, past') \cap Writes \cap NoSettle \cap NoTest)
    BY <1>8
  <2>2. new \in Seq(SoundSteps(disk, past')) /\ new \in Seq(Writes) /\ new \in Seq(NoSettle)
        /\ new \in Seq(NoTest)
    BY <2>1, SeqMonotonic
  <2> HIDE DEF new
  <2>3. Paired(new)
    BY <2>2, ElementOfSeq DEF Paired, NoTest
  <2> QED
    BY <2>2, <2>3
<1> HIDE DEF new
<1> QED
  BY <1>1, <1>4, <1>5, <1>9, Issued

LEMMA RecordReviewStep ==
    ASSUME IInv, NEW verdict \in Verdicts, NEW force \in BOOLEAN, NEW dry \in BOOLEAN,
           RecordReview(verdict, force, dry)
    PROVE  IInv'
<1> USE ReviewAssumption, AbsenceAssumption
<1> DEFINE decision == [record |-> disk.record, verdict |-> verdict]
           decides == ~dry /\ verdict = "ready_for_review"
<1>1. /\ disk.record \notin Absent /\ UNCHANGED <<repo, disk>>
      /\ past' = IF decides THEN [past EXCEPT !.decided = @ \cup {disk.record}] ELSE past
      /\ job' = Continue([Idle EXCEPT !.ops = ReviewWrites(decision, dry)])
  BY DEF RecordReview, Issue, Start
<1>2. disk.record \in Record /\ disk.record # None
  BY <1>1, OnDisk DEF Files, Hidden, Backed, Values, Absent
<1>3. past \in Past
  BY DEF IInv, PastSound
<1>4. /\ past' \in Past /\ Grown(past, past') /\ past'.ready = past.ready
      /\ decides => disk.record \in past'.decided
  <2>1. CASE decides
    <3>1. past' = [past EXCEPT !.decided = past.decided \cup {disk.record}]
      BY <1>1, <2>1
    <3> QED
      BY <1>2, <1>3, <3>1 DEF Past, Grown
  <2>2. CASE ~decides
    <3>1. past' = past
      BY <1>1, <2>2
    <3> QED
      BY <1>3, <2>2, <3>1 DEF Grown
  <2> QED
    BY <2>1, <2>2
<1>5. PastSound(past')
  BY <1>4, StaysEarned DEF IInv, PastSound, Grown
<1>6. ReviewWrites(decision, dry) \in Seq(Simple(disk, past'))
  <2> DEFINE report == Write("review_report", TRUE)
  <2>1. "decision" \in Files /\ "review_report" \in Files
    BY DEF Files, Hidden
  <2>2. Backed("review_report", TRUE, disk, past')
    BY <2>1 DEF Backed, Values
  <2>3. report \in Simple(disk, past')
    BY <2>2, WriteSimple
  <2> DEFINE S == Simple(disk, past')
             first == Write("decision", decision)
  <2>4. report \in S
    BY <2>3
  <2>5. ~dry => first \in S
    <3> SUFFICES ASSUME ~dry PROVE first \in S
      OBVIOUS
    <3>1. Backed("decision", decision, disk, past')
      BY <1>2, <1>4, <2>1 DEF Backed, Values, Decision
    <3> QED
      BY <3>1, WriteSimple
  <2>6. ReviewWrites(decision, dry) = (IF dry THEN <<>> ELSE <<first>>) \o <<report>>
    BY DEF ReviewWrites
  <2> HIDE DEF S, first, report
  <2>7. (IF dry THEN <<>> ELSE <<first>>) \in Seq(S) /\ <<report>> \in Seq(S)
    BY <2>4, <2>5
  <2>8. ReviewWrites(decision, dry) \in Seq(S)
    BY <2>6, <2>7, ConcatProperties
  <2> QED
    BY <2>8 DEF S
<1> QED
  BY <1>1, <1>4, <1>5, <1>6, IssuedSimple

LEMMA RecordCloudReviewStep ==
    ASSUME IInv, NEW decision \in CloudDecisions, RecordCloudReview(decision)
    PROVE  IInv'
<1> USE ReviewAssumption
<1> DEFINE status == Saying(SaidOf(decision))
<1>1. /\ UNCHANGED <<repo, disk>>
      /\ past' = [past EXCEPT !.approved = @ \/ decision # "REQUEST_CHANGES"]
      /\ job' = Continue([Idle EXCEPT !.ops = <<Write("cloud", decision), Write("status", status)>>])
  BY DEF RecordCloudReview, Issue, Start
<1>2. past \in Past
  BY DEF IInv, PastSound
<1>3. /\ past' \in Past /\ Grown(past, past') /\ past'.ready = past.ready
      /\ decision # "REQUEST_CHANGES" => past'.approved
  BY <1>1, <1>2 DEF Past, Grown
<1>4. PastSound(past')
  BY <1>3, StaysEarned DEF IInv, PastSound, Grown
<1>5. status \in Status /\ status.said # "ready_for_human_merge_decision"
  <2>1. SaidOf(decision) \in {"cloud_review_approved", "request_changes"}
    BY DEF SaidOf, MergeStatuses
  <2> QED
    BY <2>1, SayingTyped DEF ReadyStatuses
<1> HIDE DEF status
<1>6. Backed("cloud", decision, disk, past') /\ Backed("status", status, disk, past')
  BY <1>3, <1>5 DEF Backed, Values, Files, Visible
<1>7. Write("cloud", decision) \in Simple(disk, past') /\ Write("status", status) \in Simple(disk, past')
  BY <1>6, WriteSimple
<1>8. <<Write("cloud", decision), Write("status", status)>> \in Seq(Simple(disk, past'))
  BY <1>7
<1> QED
  BY <1>1, <1>3, <1>4, <1>8, IssuedSimple

LEMMA RecordRemoteStep ==
    ASSUME IInv, NEW result \in RemoteStatuses, RecordRemote(result)
    PROVE  IInv'
<1> USE ReviewAssumption
<1> DEFINE status == Saying(SaidOf(result))
<1>1. /\ UNCHANGED <<repo, disk, past>>
      /\ job' = Continue([Idle EXCEPT !.ops = <<Write("remote", result), Replace("status", status)>>])
  BY DEF RecordRemote, Issue, Start
<1>2. status \in Status /\ status.said # "ready_for_human_merge_decision"
  <2>1. SaidOf(result) \in {"remote_dev_validated", "remote_dev_failed", "remote_dev_not_run"}
    BY DEF SaidOf, MergeStatuses
  <2> QED
    BY <2>1, SayingTyped DEF ReadyStatuses
<1> HIDE DEF status
<1>3. Backed("remote", result, disk, past') /\ Backed("status", status, disk, past')
  BY <1>2 DEF Backed, Values, Files, Visible
<1>4. Write("remote", result) \in Simple(disk, past') /\ Replace("status", status) \in Simple(disk, past')
  BY <1>3, WriteSimple
<1>5. <<Write("remote", result), Replace("status", status)>> \in Seq(Simple(disk, past'))
  BY <1>4
<1> QED
  BY <1>1, <1>5, NothingHappened, IssuedSimple

\* The gates that merge-readiness reads were passed at some time.
LEMMA GatesWerePassed ==
    ASSUME IInv, LocalGatesPass
    PROVE  past.ready # {} /\ past.approved
<1> USE ReviewAssumption, AbsenceAssumption
<1>1. "final" \in Files /\ "cloud" \in Files
  BY DEF Files, Visible, Hidden
<1>2. disk.final.record \in past.ready
  BY <1>1, OnDisk DEF LocalGatesPass, Backed
<1>3. disk.cloud \notin Absent /\ disk.cloud # "REQUEST_CHANGES"
  BY DEF LocalGatesPass
<1>4. past.approved
  BY <1>1, <1>3, OnDisk DEF Backed
<1> QED
  BY <1>2, <1>4

LEMMA MergeReadinessStep == ASSUME IInv, MergeReadiness PROVE IInv'
<1> DEFINE status == [said |-> SaidOf(MergeDecision), merge |-> MergeDecision]
<1>1. /\ UNCHANGED <<repo, disk, past>>
      /\ job' = Continue([Idle EXCEPT !.ops =
                            <<Write("merge", MergeDecision), Replace("status", status)>>])
  BY DEF MergeReadiness, Issue, Start
<1>2. /\ MergeDecision \in MergeStatuses
      /\ MergeDecision # "REQUEST_CHANGES" => past.ready # {} /\ past.approved
  BY GatesWerePassed DEF MergeDecision, MergeStatuses
<1>3. /\ status \in Status
      /\ status.said = "ready_for_human_merge_decision" => MergeDecision # "REQUEST_CHANGES"
  <2>1. /\ SaidOf(MergeDecision) \in {"ready_for_human_merge_decision", "request_changes"}
        /\ MergeDecision = "REQUEST_CHANGES" => SaidOf(MergeDecision) = "request_changes"
    BY <1>2 DEF SaidOf, MergeStatuses
  <2> QED
    BY <1>2, <2>1 DEF Status, ReadyStatuses
<1> HIDE DEF status
<1>4. Backed("merge", MergeDecision, disk, past') /\ Backed("status", status, disk, past')
  BY <1>1, <1>2, <1>3 DEF Backed, Values, Files, Visible
<1>5. Write("merge", MergeDecision) \in Simple(disk, past')
      /\ Replace("status", status) \in Simple(disk, past')
  BY <1>4, WriteSimple
<1>6. <<Write("merge", MergeDecision), Replace("status", status)>> \in Seq(Simple(disk, past'))
  BY <1>5
<1> QED
  BY <1>1, <1>6, NothingHappened, IssuedSimple

LEMMA CloudReviewPacketStep ==
    ASSUME IInv, NEW force \in BOOLEAN, CloudReviewPacket(force)
    PROVE  IInv'
<1>1. /\ PacketReady /\ UNCHANGED <<repo, disk, past>>
      /\ job' = Continue([Idle EXCEPT !.ops = <<Write("packet", disk.record)>>])
  BY DEF CloudReviewPacket, Issue, Start
<1>2. Write("packet", disk.record) \in Simple(disk, past')
  BY <1>1, PacketBacked, WriteSimple
<1>3. <<Write("packet", disk.record)>> \in Seq(Simple(disk, past'))
  BY <1>2
<1> QED
  BY <1>1, <1>3, NothingHappened, IssuedSimple

\* A workflow starts as a command of which nothing has run.
LEMMA FlowTaken ==
    ASSUME NEW phase \in Phases, NEW cmds \in Seq(DOMAIN Script)
    PROVE  LET k == [Idle EXCEPT !.flow = phase, !.cmds = cmds]
           IN  k \in Job /\ k.ops = <<>> /\ k.gate = FALSE
<1>1. Idle \in Job /\ Idle.ops = <<>> /\ Idle.gate = FALSE
  BY IdleSound DEF JobSound, Idle
<1> QED
  BY <1>1 DEF Job

LEMMA WorkflowStep ==
    ASSUME IInv, NEW phase \in Phases, NEW commands \in Seq(DOMAIN Script), Workflow(phase, commands)
    PROVE  IInv'
<1> DEFINE cmds == Append(commands, "report")
           k == [Idle EXCEPT !.flow = phase, !.cmds = cmds]
<1>1. UNCHANGED <<repo, disk, past>> /\ job' = Continue(k)
  BY DEF Workflow, Start
<1>2. cmds \in Seq(DOMAIN Script)
  <2>1. "report" \in DOMAIN Script
    BY DEF Script
  <2> QED
    BY <2>1, AppendProperties
<1> HIDE DEF cmds
<1>3. k \in Job /\ k.ops = <<>> /\ k.gate = FALSE
  BY <1>2, FlowTaken
<1> HIDE DEF k
<1>4. JobSound(k, disk, past) /\ Captured(k)
  <2>1. \A S : k.ops \in Seq(S)
    BY <1>3
  <2> QED
    BY <1>3, <2>1, PairedEmpty DEF JobSound, Captured
<1>5. JobSound(job', disk, past) /\ Captured(job')
  BY <1>1, <1>4, ContinueSound
<1> QED
  BY <1>1, <1>5 DEF IInv

LEMMA RunStoryStep == ASSUME IInv, RunStory PROVE IInv'
<1> DEFINE write == Write("status", Saying("prepared"))
           ops == Prepare \o IF ReportsMissing THEN <<>> ELSE <<Op("judge"), Op("gate")>>
<1>1. UNCHANGED <<repo, disk, past>> /\ job' = Continue([Idle EXCEPT !.ops = ops])
  BY DEF RunStory, Issue, Start
<1>2. Saying("prepared") \in Status /\ Saying("prepared").said = "prepared"
  BY SayingTyped
<1>3. Backed("status", Saying("prepared"), disk, past')
  BY <1>2 DEF Backed, Values, Files, Visible
<1>4. write \in Simple(disk, past')
  BY <1>3, WriteSimple
<1>5. Op("judge") \in Simple(disk, past') /\ Op("gate") \in Simple(disk, past')
  BY DEF Op, Simple, SoundSteps, NoRecord, NoSettle, NoTest, Steps, Writing
<1> HIDE DEF write
<1>6. <<write>> \in Seq(Simple(disk, past')) /\ <<>> \in Seq(Simple(disk, past'))
      /\ <<Op("judge"), Op("gate")>> \in Seq(Simple(disk, past'))
  BY <1>4, <1>5
<1>7. ops \in Seq(Simple(disk, past'))
  <2>1. Prepare = <<write>>
    BY DEF Prepare, write
  <2> QED
    BY <1>6, <2>1, ConcatProperties
<1> HIDE DEF ops
<1> QED
  BY <1>1, <1>7, NothingHappened, IssuedSimple

LEMMA RefuseStep == ASSUME IInv, RefuseCloudReviewPrep PROVE IInv'
<1> DEFINE result == [phase |-> "cloud-review-prep", status |-> "REQUEST_CHANGES"]
<1>1. /\ UNCHANGED <<repo, disk, past>>
      /\ job' = Continue([Idle EXCEPT !.ops = <<Write("workflow", result)>>])
  BY DEF RefuseCloudReviewPrep, Issue, Start
<1>2. Backed("workflow", result, disk, past')
  BY DEF Backed, Values, Files, Visible, Phases
<1>3. Write("workflow", result) \in Simple(disk, past')
  BY <1>2, WriteSimple
<1>4. <<Write("workflow", result)>> \in Seq(Simple(disk, past'))
  BY <1>3
<1> QED
  BY <1>1, <1>4, NothingHappened, IssuedSimple

-----------------------------------------------------------------------------
(* The developer, crashes, and the start *)

LEMMA RepositoryStep ==
    ASSUME IInv, UNCHANGED <<disk, job, past>>, repo'.head \in Nat, repo'.edits \subseteq Kinds
    PROVE  IInv'
  BY DEF IInv

LEMMA CrashStep == ASSUME IInv, Crash PROVE IInv'
<1> USE ReviewAssumption, AbsenceAssumption
<1>1. job' = Idle /\ UNCHANGED <<repo, past>>
      /\ \/ UNCHANGED disk
         \/ Doing("write") /\ disk' = [disk EXCEPT ![Head(job.ops).file] = Torn]
  BY DEF Crash
<1>2. CASE UNCHANGED disk
  BY <1>1, <1>2, IdleSound DEF IInv
<1>3. CASE Doing("write") /\ disk' = [disk EXCEPT ![Head(job.ops).file] = Torn]
  <2> DEFINE o == Head(job.ops)
  <2>1. job.ops # <<>> /\ Writing(o)
    BY <1>3 DEF Doing, Writing
  <2>2. Backed(o.file, o.value, disk, past) /\ o.file \in Files
    BY <2>1, HeadSound DEF SoundSteps, Backed
  <2> HIDE DEF o
  <2>3. DOMAIN disk' = Files
        /\ \A f \in Files : disk'[f] = IF f = o.file THEN Torn ELSE disk[f]
    BY <1>3, <2>2 DEF IInv, DiskSound, o
  <2>4. {"record", "status", "decision", "packet"} \subseteq Files
    BY DEF Files, Hidden, Visible
  <2>5. /\ o.file = "decision" => disk.record # None
        /\ o.file = "packet" => past.ready # {}
    BY <2>2 DEF Backed
  <2>6. disk.record # None => disk'.record # None
    BY <2>3, <2>4
  <2>7. Grown(past, past)
    BY DEF Grown
  <2>8. \A f \in Files : disk'[f] \in Absent \/ Backed(f, disk'[f], disk', past)
    BY <2>3, <2>6, <2>7, StaysBacked DEF IInv, DiskSound, Absent
  <2>9. DiskSound(disk', past)
    BY <2>3, <2>4, <2>5, <2>6, <2>8 DEF IInv, DiskSound
  <2> QED
    BY <1>1, <2>9, IdleSound DEF IInv
<1> QED
  BY <1>1, <1>2, <1>3

LEMMA InitHolds == ASSUME Init PROVE IInv
<1> USE ReviewAssumption, AbsenceAssumption
<1> DEFINE planned == [said |-> "planned", merge |-> None]
<1>1. /\ disk = [f \in Files |-> IF f = "status" THEN planned ELSE None]
      /\ job = Idle /\ repo.head = 1 /\ repo.edits = {}
      /\ past = [tested |-> {}, decided |-> {}, ready |-> {}, approved |-> FALSE, unchecked |-> FALSE]
  BY DEF Init, Files
<1>2. planned \in Status
  BY DEF Status
<1>3. {"record", "status", "decision", "packet"} \subseteq Files
  BY DEF Files, Hidden, Visible
<1>4. \A f \in Files : disk[f] \in Absent \/ Backed(f, disk[f], disk, past)
  <2> SUFFICES ASSUME NEW f \in Files PROVE disk[f] \in Absent \/ Backed(f, disk[f], disk, past)
    OBVIOUS
  <2>1. CASE f = "status"
    BY <1>1, <1>2, <2>1 DEF Backed, Values
  <2>2. CASE f # "status"
    BY <1>1, <2>2 DEF Absent
  <2> QED
    BY <2>1, <2>2
<1>5. DiskSound(disk, past)
  BY <1>1, <1>2, <1>3, <1>4 DEF DiskSound, Absent
<1>6. PastSound(past)
  BY <1>1 DEF PastSound, Past
<1> QED
  BY <1>1, <1>5, <1>6, IdleSound DEF IInv

-----------------------------------------------------------------------------
(* The theorems *)

LEMMA DeveloperStep == ASSUME IInv, Developer PROVE IInv'
<1>1. ASSUME NEW edits \in SUBSET Kinds, Edit(edits) PROVE IInv'
  <2>1. repo' = [repo EXCEPT !.edits = edits] /\ UNCHANGED <<disk, job, past>>
    BY <1>1 DEF Edit
  <2>2. repo'.head \in Nat /\ repo'.edits \subseteq Kinds
    BY <2>1 DEF IInv
  <2> QED
    BY <2>1, <2>2, RepositoryStep
<1>2. ASSUME Commit PROVE IInv'
  <2>1. repo'.head = repo.head + 1 /\ repo'.edits = {} /\ UNCHANGED <<disk, job, past>>
    BY <1>2 DEF Commit
  <2> QED
    BY <2>1, RepositoryStep DEF IInv
<1>3. ASSUME ReviewBundle PROVE IInv'
  BY <1>3, RunScriptStep DEF ReviewBundle, Script
<1>4. ASSUME NEW command \in {"test-layers", "quality-gate", "finalize-story"}, RunScript(command)
      PROVE  IInv'
  BY <1>4, RunScriptStep DEF RunScript, Script
<1>5. ASSUME LocalFinalize \/ CloudReviewPrep PROVE IInv'
  <2>1. <<"test-layers", "finalize-story", "review-bundle">> \in Seq(DOMAIN Script)
        /\ <<"cloud-review-packet">> \in Seq(DOMAIN Script)
    BY DEF Script
  <2> QED
    BY <1>5, <2>1, WorkflowStep DEF LocalFinalize, CloudReviewPrep, Phases
<1> QED
  BY <1>1, <1>2, <1>3, <1>4, <1>5, RecordExecutionStep, RecordReviewStep, RecordCloudReviewStep,
     RecordRemoteStep, MergeReadinessStep, CloudReviewPacketStep, RefuseStep,
     RunStoryStep DEF Developer

LEMMA StepHolds == ASSUME IInv, [Next]_vars PROVE IInv'
<1>1. CASE UNCHANGED vars
  BY <1>1 DEF vars, IInv
<1>2. CASE Progress
  BY <1>2, PerformStep, CaptureStep, TestStep, TestLayersStep, JudgeStep, QualityGateStep,
     SettleStep, PackStep, ReportStep DEF Progress
<1> QED
  BY <1>1, <1>2, DeveloperStep, CrashStep DEF Next

LEMMA Invariance == Spec => []IInv
<1> QED
  BY InitHolds, StepHolds, PTL DEF Spec

\* Earnt: however often bundles, records and decisions are made anew, forced, torn or
\* overtaken by commits, finalize_story declares only a record ready that a reviewer
\* decided ready, of a tree without real changes and of passing tests of that tree.
THEOREM Earnt == Spec => []ReadinessEarned
<1> QED
  BY InvariantSuffices, Invariance, PTL

\* Packed: a cloud review packet is about a record that was declared ready
\* (create_cloud_review_packet).
THEOREM Packed == Spec => []PacketOfReadyRecord
<1> QED
  BY InvariantSuffices, Invariance, PTL

\* NoLegacy: nothing gets past run_pre_merge_quality_gate without an execution record.
THEOREM NoLegacy == Spec => []NoLegacyReadiness
<1> QED
  BY InvariantSuffices, Invariance, PTL

\* AskedInTime: the owner is asked for the merge decision (run_merge_readiness,
\* choose_recommendation) only after a record was ready and a cloud review approved.
THEOREM AskedInTime == Spec => []HumanAskedInTime
<1> QED
  BY InvariantSuffices, Invariance, PTL
=============================================================================
