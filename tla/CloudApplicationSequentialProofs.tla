------------------ MODULE CloudApplicationSequentialProofs ------------------
(***************************************************************************)
(* What holds of the application service while one command runs at a       *)
(* time, each dying anywhere: the records agree with the plan in effect,   *)
(* the journal is never ahead of the files, a resumed application is       *)
(* published in full, and apply and rollback push and pop a stack.         *)
(*                                                                         *)
(* A crash leaves an application half-way, and the next command finds it   *)
(* so.  AppInv says which half-way states there are, by whether the        *)
(* revision is in effect and by what the journals say; CommandInv says of  *)
(* the running command, at each label, which of them it is about to        *)
(* leave.  Nobody else writes in between: what it read is still so.        *)
(*                                                                         *)
(* The plan in effect is defined by recursion over parents.  A parent is   *)
(* older than its revision (WellParented), so such a function is defined   *)
(* on all revisions (DefinedOnRevisions), and a step that rewrites no      *)
(* revision leaves it alone: there is no least revision on which it        *)
(* changes (LineageKept).                                                  *)
(***************************************************************************)
EXTENDS CloudApplicationProofs, WellFoundedInduction

\* The commands run one after the other.
OneAtATime == \A v, w \in Workers : v = w

-----------------------------------------------------------------------------
(* The revisions in effect *)

\* Every revision was derived from an older one.
WellParented ==
    \A r \in Revs : revs[r].parent = NoRev \/ (revs[r].parent \in Revs /\ revs[r].parent < r)

LineageIs ==
    \A r \in Revs :
        /\ revs[r].parent = NoRev => Lineage[r] = {r}
        /\ revs[r].parent # NoRev => Lineage[r] = {r} \cup Lineage[revs[r].parent]

ChainIs ==
    \A r \in Revs :
        /\ revs[r].parent = NoRev => Chain[r] = <<r>>
        /\ revs[r].parent # NoRev => Chain[r] = Append(Chain[revs[r].parent], r)

\* A set of numbers has a least one.
LEMMA LeastOne ==
    ASSUME NEW S \in SUBSET Nat, S # {}
    PROVE  \E n \in S : \A m \in S : n <= m
<1> DEFINE R == OpToRel(<, Nat)
<1>1. \E x \in S : \A y \in S : ~ (<<y, x>> \in R)
  <2>1. IsWellFoundedOn(R, Nat)
    BY NatLessThanWellFounded
  <2> HIDE DEF R
  <2> QED
    BY <2>1, WFMin
<1>2. \A x, y \in Nat : x < y => <<x, y>> \in R
  BY DEF OpToRel
<1>3. PICK x \in S : \A y \in S : ~ (<<y, x>> \in R)
  BY <1>1
<1>4. \A y \in S : ~(y < x)
  BY <1>2, <1>3
<1> HIDE DEF R
<1> QED
  BY <1>4

LEMMA RevsAre == MaxApps \in Nat /\ Revs = 0..MaxApps /\ NoRev = -1 /\ NoRev \notin Revs
BY BoundsAssumption DEF Revs, NoRev

\* What is defined of a revision from its parent, is defined: of one revision after the
\* other, from the oldest on.
FromParent(f, parent, base, step) ==
    \A r \in Revs : f[r] = IF parent[r] = NoRev THEN base[r] ELSE step[<<r, f[parent[r]]>>]

LEMMA DefinedOnRevisions ==
    ASSUME NEW V, NEW parent, NEW base \in [Revs -> V], NEW step \in [Revs \X V -> V],
           \A r \in Revs : parent[r] = NoRev \/ (parent[r] \in Revs /\ parent[r] < r)
    PROVE  \E f \in [Revs -> V] : FromParent(f, parent, base, step)
<1> DEFINE Good(n, f) ==
       /\ f \in [0..n -> V]
       /\ \A r \in 0..n : f[r] = IF parent[r] = NoRev THEN base[r] ELSE step[<<r, f[parent[r]]>>]
    Bad == {n \in Revs : ~ \E f : Good(n, f)}
<1>1. \A n \in Revs : n \notin Bad => \E f : Good(n, f)
  OBVIOUS
<1>2. Bad = {}
  <2> SUFFICES ASSUME Bad # {} PROVE FALSE
    OBVIOUS
  <2>1. Bad \subseteq Nat /\ Bad \subseteq Revs
    BY RevsAre
  <2>2. PICK n \in Bad : \A m \in Bad : n <= m
    BY <2>1, LeastOne
  <2>3. n \in Nat /\ n \in Revs /\ 0..n \subseteq Revs
    BY <2>1, RevsAre
  <2>4. ~ \E f : Good(n, f)
    OBVIOUS
  <2>5. CASE n = 0
    <3> DEFINE f == [r \in 0..0 |-> base[0]]
    <3>1. parent[0] = NoRev
      BY <2>3, <2>5, RevsAre
    <3>2. Good(0, f)
      BY <2>3, <2>5, <3>1
    <3> QED
      BY <2>4, <2>5, <3>2
  <2>6. CASE n > 0
    <3>1. n - 1 \in Revs /\ n - 1 \notin Bad
      <4> HIDE DEF Bad
      <4> QED
        BY <2>2, <2>3, <2>6, RevsAre
    <3>2. PICK f : Good(n - 1, f)
      BY <1>1, <3>1
    <3> DEFINE last == IF parent[n] = NoRev THEN base[n] ELSE step[<<n, f[parent[n]]>>]
               g == [r \in 0..n |-> IF r = n THEN last ELSE f[r]]
    <3>3. parent[n] # NoRev => parent[n] \in 0..(n - 1)
      BY <2>3, RevsAre
    <3>4. last \in V
      BY <2>3, <3>2, <3>3
    <3>5. g \in [0..n -> V]
      <4> HIDE DEF last
      <4>1. \A r \in 0..n : r # n => r \in 0..(n - 1)
        BY <2>3
      <4> QED
        BY <3>2, <3>4, <4>1
    <3>6. ASSUME NEW r \in 0..n
          PROVE  g[r] = IF parent[r] = NoRev THEN base[r] ELSE step[<<r, g[parent[r]]>>]
      <4>1. CASE r = n
        BY <2>3, <3>3, <4>1
      <4>2. CASE r # n
        <5>1. r \in 0..(n - 1) /\ r \in Revs
          BY <2>3, <4>2
        <5>2. parent[r] # NoRev => parent[r] \in 0..(n - 1)
          BY <2>3, <5>1, RevsAre
        <5>3. parent[r] # NoRev => parent[r] \in 0..n /\ parent[r] # n
          BY <2>3, <5>2
        <5> QED
          BY <3>2, <4>2, <5>1, <5>3
      <4> QED
        BY <4>1, <4>2
    <3>7. Good(n, g)
      BY <3>5, <3>6
    <3> QED
      BY <2>4, <3>7
  <2> QED
    BY <2>3, <2>5, <2>6
<1>3. PICK f : Good(MaxApps, f)
  <2> HIDE DEF Good, Bad
  <2> QED
    BY <1>1, <1>2, RevsAre
<1> QED
  BY <1>3, RevsAre DEF FromParent

LEMMA LineageDefined == WellParented => LineageIs
<1> SUFFICES ASSUME WellParented PROVE LineageIs
  OBVIOUS
<1> DEFINE parent == [r \in Revs |-> revs[r].parent]
           base == [r \in Revs |-> {r}]
           step == [p \in Revs \X SUBSET Revs |-> {p[1]} \cup p[2]]
<1>1. /\ \A r \in Revs : parent[r] = revs[r].parent
      /\ \A r \in Revs : parent[r] = NoRev \/ (parent[r] \in Revs /\ parent[r] < r)
  BY DEF WellParented
<1>2. base \in [Revs -> SUBSET Revs] /\ step \in [Revs \X SUBSET Revs -> SUBSET Revs]
  OBVIOUS
<1>3. \A r \in Revs : base[r] = {r} /\ \A s \in SUBSET Revs : step[<<r, s>>] = {r} \cup s
  OBVIOUS
<1> HIDE DEF parent, base, step
<1>4. PICK f \in [Revs -> SUBSET Revs] : FromParent(f, parent, base, step)
  BY <1>1, <1>2, DefinedOnRevisions
<1>5. ASSUME NEW r \in Revs
      PROVE  f[r] = {r} \cup (IF revs[r].parent = NoRev THEN {} ELSE f[revs[r].parent])
  <2>1. f[r] = IF parent[r] = NoRev THEN base[r] ELSE step[<<r, f[parent[r]]>>]
    BY <1>4 DEF FromParent
  <2>2. parent[r] # NoRev => f[parent[r]] \in SUBSET Revs
    BY <1>1
  <2> QED
    BY <1>1, <1>3, <2>1, <2>2
<1>6. f = [r \in Revs |-> {r} \cup (IF revs[r].parent = NoRev THEN {} ELSE f[revs[r].parent])]
  BY <1>5
<1>7. Lineage = [r \in Revs |-> {r} \cup (IF revs[r].parent = NoRev THEN {} ELSE Lineage[revs[r].parent])]
  BY <1>6 DEF Lineage
<1> QED
  BY <1>7 DEF LineageIs

LEMMA ChainDefined == WellParented => ChainIs
<1> SUFFICES ASSUME WellParented PROVE ChainIs
  OBVIOUS
<1> DEFINE parent == [r \in Revs |-> revs[r].parent]
           base == [r \in Revs |-> <<r>>]
           step == [p \in Revs \X Seq(Revs) |-> Append(p[2], p[1])]
           Def(f) == [r \in Revs |-> IF revs[r].parent = NoRev THEN <<r>>
                                     ELSE Append(f[revs[r].parent], r)]
<1>1. /\ \A r \in Revs : parent[r] = revs[r].parent
      /\ \A r \in Revs : parent[r] = NoRev \/ (parent[r] \in Revs /\ parent[r] < r)
  BY DEF WellParented
<1>2. base \in [Revs -> Seq(Revs)] /\ step \in [Revs \X Seq(Revs) -> Seq(Revs)]
  OBVIOUS
<1>3. \A r \in Revs : base[r] = <<r>> /\ \A s \in Seq(Revs) : step[<<r, s>>] = Append(s, r)
  OBVIOUS
<1> HIDE DEF parent, base, step
<1>4. PICK f \in [Revs -> Seq(Revs)] : FromParent(f, parent, base, step)
  BY <1>1, <1>2, DefinedOnRevisions
<1>5. ASSUME NEW r \in Revs
      PROVE  f[r] = IF revs[r].parent = NoRev THEN <<r>> ELSE Append(f[revs[r].parent], r)
  <2>1. f[r] = IF parent[r] = NoRev THEN base[r] ELSE step[<<r, f[parent[r]]>>]
    BY <1>4 DEF FromParent
  <2>2. parent[r] # NoRev => f[parent[r]] \in Seq(Revs)
    BY <1>1
  <2> QED
    BY <1>1, <1>3, <2>1, <2>2
<1>6. f = Def(f)
  BY <1>5
<1>7. Chain = Def(Chain)
  BY <1>6 DEF Chain
<1> QED
  BY <1>7 DEF ChainIs

\* A revision that was not written has no parent, so the store has no cycle.
Unwritten == \A r \in Revs \ published : revs[r] = NoRevision

LEMMA StoreParented ==
    RevisionStoreSound /\ Unwritten /\ published \subseteq Revs => WellParented
<1> SUFFICES ASSUME RevisionStoreSound, Unwritten, published \subseteq Revs, NEW r \in Revs
             PROVE  revs[r].parent = NoRev \/ (revs[r].parent \in Revs /\ revs[r].parent < r)
  BY DEF WellParented
<1>1. CASE r \notin published
  BY <1>1 DEF Unwritten, NoRevision
<1>2. CASE r \in published
  BY <1>2 DEF RevisionStoreSound
<1> QED
  BY <1>1, <1>2

\* What holds of a published revision if it holds of its parent, holds of them all.
LEMMA LeastPublished ==
    ASSUME RevisionStoreSound, published \subseteq Revs, NEW S \in SUBSET published, S # {}
    PROVE  \E r \in S : revs[r].parent = NoRev \/ (revs[r].parent \in published \ S /\ revs[r].parent < r)
<1>1. S \subseteq Nat
  BY RevsAre
<1>2. PICK r \in S : \A s \in S : r <= s
  BY <1>1, LeastOne
<1>3. CASE r = Root
  BY <1>3 DEF RevisionStoreSound
<1>4. CASE r # Root
  <2>1. revs[r].parent \in published /\ revs[r].parent < r
    BY <1>4 DEF RevisionStoreSound
  <2> DEFINE up == revs[r].parent
  <2>2. up < r
    BY <2>1
  <2> HIDE DEF up
  <2>3. ASSUME up \in S PROVE FALSE
    <3>1. r <= up /\ r \in Nat /\ up \in Nat
      BY <1>1, <1>2, <2>3
    <3> QED
      BY <2>2, <3>1
  <2> QED
    BY <2>1, <2>3 DEF up
<1> QED
  BY <1>3, <1>4

\* The lineage of a published revision is made of published revisions that are not younger.
LEMMA LineageSound ==
    ASSUME RevisionStoreSound, Unwritten, published \subseteq Revs, NEW r \in published
    PROVE  /\ Lineage[r] \subseteq published /\ r \in Lineage[r]
           /\ \A s \in Lineage[r] : s <= r
<1> DEFINE Fine(s) == /\ Lineage[s] \subseteq published /\ s \in Lineage[s]
                      /\ \A x \in Lineage[s] : x <= s
           Bad == {s \in published : ~Fine(s)}
<1>1. LineageIs
  BY StoreParented, LineageDefined
<1>2. Bad = {}
  <2> SUFFICES ASSUME Bad # {} PROVE FALSE
    OBVIOUS
  <2>1. Bad \in SUBSET published
    OBVIOUS
  <2>2. PICK s \in Bad : revs[s].parent = NoRev \/ (revs[s].parent \in published \ Bad /\ revs[s].parent < s)
    <3> HIDE DEF Bad
    <3> QED
      BY <2>1, LeastPublished
  <2>3. s \in published /\ s \in Revs /\ ~Fine(s)
    OBVIOUS
  <2>4. revs[s].parent # NoRev => Fine(revs[s].parent) /\ revs[s].parent \in published
    BY <2>2
  <2>5. published \subseteq Int
    BY RevsAre
  <2>6. CASE revs[s].parent = NoRev
    BY <1>1, <2>3, <2>5, <2>6 DEF LineageIs
  <2>7. CASE revs[s].parent # NoRev
    <3> DEFINE up == revs[s].parent
    <3>1. Lineage[s] = {s} \cup Lineage[up]
      BY <1>1, <2>3, <2>7 DEF LineageIs
    <3>2. Fine(up) /\ up < s /\ up \in published
      BY <2>2, <2>4, <2>7
    <3> HIDE DEF up
    <3>3. ASSUME NEW x \in Lineage[up] PROVE x \in published /\ x <= s
      <4>1. x \in published /\ x <= up
        BY <3>2
      <4>2. x \in Int /\ up \in Int /\ s \in Int
        BY <2>3, <2>5, <3>2, <4>1
      <4> HIDE DEF Bad, Fine
      <4> QED
        BY <3>2, <4>1, <4>2
    <3> QED
      BY <2>3, <2>5, <3>1, <3>3
  <2> QED
    BY <2>6, <2>7
<1> QED
  BY <1>2

\* The chain of a published revision is a sequence that is not empty.
LEMMA ChainSound ==
    ASSUME RevisionStoreSound, Unwritten, published \subseteq Revs, NEW r \in published
    PROVE  Chain[r] \in Seq(Revs) /\ Len(Chain[r]) > 0
<1> DEFINE Fine(s) == Chain[s] \in Seq(Revs) /\ Len(Chain[s]) > 0
           Bad == {s \in published : ~Fine(s)}
<1>1. ChainIs
  BY StoreParented, ChainDefined
<1>2. Bad = {}
  <2> SUFFICES ASSUME Bad # {} PROVE FALSE
    OBVIOUS
  <2>1. Bad \in SUBSET published
    OBVIOUS
  <2>2. PICK s \in Bad : revs[s].parent = NoRev \/ (revs[s].parent \in published \ Bad /\ revs[s].parent < s)
    <3> HIDE DEF Bad
    <3> QED
      BY <2>1, LeastPublished
  <2>3. s \in published /\ s \in Revs /\ ~Fine(s)
    OBVIOUS
  <2>4. CASE revs[s].parent = NoRev
    <3>1. Chain[s] = <<s>>
      BY <1>1, <2>3, <2>4 DEF ChainIs
    <3>2. <<s>> \in Seq(Revs) /\ Len(<<s>>) > 0
      BY <2>3
    <3> QED
      BY <2>3, <3>1, <3>2
  <2>5. CASE revs[s].parent # NoRev
    <3> DEFINE below == Chain[revs[s].parent]
    <3>1. Chain[s] = Append(below, s)
      BY <1>1, <2>3, <2>5 DEF ChainIs
    <3>2. below \in Seq(Revs)
      BY <2>2, <2>5
    <3> HIDE DEF below
    <3>3. Append(below, s) \in Seq(Revs) /\ Len(Append(below, s)) > 0
      BY <2>3, <3>2
    <3> QED
      BY <2>3, <3>1, <3>3
  <2> QED
    BY <2>4, <2>5
<1> QED
  BY <1>2

\* A revision file keeps its lineage and its chain for good.
LEMMA LineageKept ==
    ASSUME RevisionStoreSound, Unwritten, published \subseteq Revs,
           RevisionStoreSound', Unwritten', (published \subseteq Revs)',
           \A r \in published : revs'[r] = revs[r],
           NEW r \in published
    PROVE  Lineage'[r] = Lineage[r] /\ Chain'[r] = Chain[r]
<1> DEFINE Fine(s) == Lineage'[s] = Lineage[s] /\ Chain'[s] = Chain[s]
           Bad == {s \in published : ~Fine(s)}
<1>1. LineageIs /\ ChainIs
  BY StoreParented, LineageDefined, ChainDefined
<1>2. WellParented'
  BY StoreParented, PTL
<1>3. LineageIs' /\ ChainIs'
  BY <1>2, LineageDefined, ChainDefined, PTL
<1>4. Bad = {}
  <2> SUFFICES ASSUME Bad # {} PROVE FALSE
    OBVIOUS
  <2>1. Bad \in SUBSET published
    OBVIOUS
  <2>2. PICK s \in Bad : revs[s].parent = NoRev \/ (revs[s].parent \in published \ Bad /\ revs[s].parent < s)
    <3> HIDE DEF Bad
    <3> QED
      BY <2>1, LeastPublished
  <2>3. s \in published /\ s \in Revs /\ ~Fine(s)
    OBVIOUS
  <2>4. revs'[s] = revs[s]
    BY <2>3
  <2>5. CASE revs[s].parent = NoRev
    BY <1>1, <1>3, <2>3, <2>4, <2>5 DEF LineageIs, ChainIs
  <2>6. CASE revs[s].parent # NoRev
    <3>1. Fine(revs[s].parent)
      BY <2>2, <2>6
    <3> DEFINE up == revs[s].parent
    <3>2. /\ Lineage[s] = {s} \cup Lineage[up] /\ Chain[s] = Append(Chain[up], s)
      BY <1>1, <2>3, <2>6 DEF LineageIs, ChainIs
    <3>3. /\ Lineage'[s] = {s} \cup Lineage'[revs'[s].parent]
          /\ Chain'[s] = Append(Chain'[revs'[s].parent], s)
      BY <1>3, <2>3, <2>4, <2>6 DEF LineageIs, ChainIs
    <3> QED
      BY <2>3, <2>4, <3>1, <3>2, <3>3
  <2> QED
    BY <2>5, <2>6
<1> QED
  BY <1>4

-----------------------------------------------------------------------------
(* The invariant of commands that run one at a time *)

AppliedStatuses == {"applied", "resume_pending", "resuming", "resumed", "resume_failed"}
LeftStatuses == {"rolling_back", "rolled_back"}
NotYetStatuses == {"none", "application_planned", "application_validation_failed", "ready_to_apply"}

\* One application: its record, its journals, and whether its revision is in effect.
AppInv(a) ==
    /\ apps[a].status \in NotYetStatuses \cup {"applying"} \cup AppliedStatuses \cup LeftStatuses
    /\ apps[a].status \in AppliedStatuses => a \in InEffect
    /\ a \in InEffect =>
          /\ apps[a].status \in {"applying", "rolling_back"} \cup AppliedStatuses
          /\ txn[a].phase \in Published
    /\ apps[a].status \in NotYetStatuses => txn[a].phase \notin Pointed
    /\ apps[a].status \in AppliedStatuses \cup LeftStatuses => txn[a].phase \in Pointed
    /\ txn[a].phase \in Pointed => a \in InEffect \/ undo[a] # "none"
    /\ txn[a].phase \in Recorded => apps[a].rev # NoRev
    /\ undo[a] = "rolled_back" => a \notin InEffect
    /\ undo[a] # "none" => apps[a].status \in AppliedStatuses \cup LeftStatuses
    /\ apps[a].status # "rolled_back" => apps[a].rev \in {NoRev, a}
    /\ txn[a].planSum => txn[a].phase = "prepared"

\* The labels of _apply_plan up to the pointer, and from the pointer on.
BelowLabels == {"ready", "open_txn", "applying", "prepared", "written", "validate", "publish",
                "published", "check_pointer", "set_pointer"}
AboveLabels == {"pointed", "applied", "finalize", "updated", "audited", "pending", "commit"}

\* What the command knows of the record in its memory.
RecordKnown(w) ==
    /\ wk[w].pc \in {"save_plan", "ready"} => wk[w].rec.status = "application_planned"
    /\ wk[w].pc = "save_plan" => wk[w].rec.rev = NoRev
    /\ wk[w].pc \in {"open_txn", "applying"} => wk[w].rec.status = "ready_to_apply"
    /\ wk[w].pc \in (BelowLabels \ {"ready", "open_txn", "applying"}) \cup {"pointed", "applied"} =>
          wk[w].rec.status = "applying"
    /\ wk[w].pc \in {"finalize", "updated", "audited", "pending"} => wk[w].rec.status = "applied"
    /\ wk[w].pc \in {"updated", "audited", "pending", "commit"} => wk[w].rec.rev # NoRev
    /\ wk[w].pc = "commit" => wk[w].rec.status \in {"applied", "resume_pending"}
    /\ wk[w].pc = "begin_resume" => wk[w].rec.status = "resume_pending"
    /\ wk[w].pc \in ResumeLabels \ {"begin_resume"} => wk[w].rec.status = "resuming"
    /\ wk[w].pc \in {"rollback", "open_undo", "rolling_back"} =>
          wk[w].rec.status \in {"applied", "resume_pending", "resumed"} /\ wk[w].rec.rev # NoRev
    /\ wk[w].pc \in {"stale_leases", "restore", "undo_done", "rolled_back"} =>
          wk[w].rec.status = "rolling_back"
    /\ wk[w].pc = "retarget" => wk[w].rec.status = "rolled_back"

\* What the command knows of the plan in effect and of the journals.
PlanKnown(w) ==
    /\ wk[w].pc \in {"save_plan"} \cup BelowLabels => active = wk[w].src
    /\ wk[w].pc \in {"published", "check_pointer", "set_pointer"} =>
          revs[wk[w].app].parent = wk[w].src
    /\ wk[w].pc \in AboveLabels => active = wk[w].app
    /\ wk[w].pc \in BelowLabels \cup {"pointed"} => txn[wk[w].app].phase \notin Pointed
    /\ wk[w].pc \in {"check_pointer", "set_pointer", "pointed"} =>
          txn[wk[w].app].phase = "revision_published"
    /\ wk[w].pc \in {"applied", "finalize", "updated", "audited", "pending", "commit"} =>
          txn[wk[w].app].phase \in Pointed
    /\ wk[w].pc \in ResumeLabels \cup {"open_undo", "rolling_back", "stale_leases", "restore"} =>
          active = wk[w].app /\ wk[w].rec.rev = active
    /\ wk[w].pc \in {"rolling_back", "stale_leases", "restore", "undo_done"} => undo[wk[w].app] # "none"
    /\ wk[w].pc \in {"undo_done", "rolled_back", "retarget"} =>
          wk[w].app \notin InEffect /\ undo[wk[w].app] # "none"

CommandInv(w) ==
    /\ wk[w].pc \notin {"undo_failed", "rollback_failed"}
    /\ wk[w].pc \notin {"idle", "save_plan", "recover"} =>
          wk[w].app \in Apps /\ apps[wk[w].app] = wk[w].rec
    /\ RecordKnown(w)
    /\ PlanKnown(w)
    /\ wk[w].pc = "recover" => \A f \in wk[w].fix : f.kind = "fail" /\ Interrupted(f.app)

PlanInv ==
    /\ Unwritten
    /\ \A a \in Apps : AppInv(a)
    /\ \A w \in Workers : CommandInv(w)

-----------------------------------------------------------------------------
(* The revisions in effect, step by step *)

LEMMA EffectIs ==
    ASSUME IInv, Unwritten
    PROVE  /\ \A a \in InEffect : a \in published /\ a \in Apps /\ a <= active
           /\ active # Root => active \in InEffect
<1>1. published \subseteq Revs /\ RevisionStoreSound /\ active \in published
  BY DEF IInv, TypeOK, RevisionStoreSound
<1> QED
  BY <1>1, LineageSound, RevsAndApps DEF InEffect

\* The files a step leaves behind.
Grown ==
    /\ IInv /\ Unwritten /\ IInv' /\ Unwritten'
    /\ \A r \in published : revs'[r] = revs[r]

LEMMA LineageStays ==
    ASSUME Grown, NEW r \in published
    PROVE  Lineage'[r] = Lineage[r] /\ Chain'[r] = Chain[r]
<1>1. /\ published \subseteq Revs /\ RevisionStoreSound
      /\ (published \subseteq Revs)' /\ RevisionStoreSound'
  BY DEF Grown, IInv, TypeOK
<1> QED
  BY <1>1, LineageKept DEF Grown

LEMMA EffectKept ==
    ASSUME Grown, active' = active
    PROVE  InEffect' = InEffect /\ Chain'[active'] = Chain[active] /\ Lineage'[active'] = Lineage[active]
<1>1. active \in published
  BY DEF Grown, IInv, RevisionStoreSound
<1>2. Lineage'[active] = Lineage[active] /\ Chain'[active] = Chain[active]
  BY <1>1, LineageStays
<1> QED
  BY <1>2 DEF InEffect

\* Where the pointer goes to a revision built on the active one.
LEMMA EffectPushed ==
    ASSUME Grown, NEW a \in Apps, a \in published, revs[a].parent = active, active' = a
    PROVE  /\ InEffect' = InEffect \cup {a} /\ a \notin InEffect
           /\ Lineage'[active'] = Lineage[active] \cup {a}
           /\ Chain'[active'] = Append(Chain[active], a)
<1>1. /\ active \in published /\ published \subseteq Revs /\ RevisionStoreSound
      /\ a # Root /\ a \in Revs /\ active # NoRev /\ active < a
  BY RevsAndApps DEF Grown, IInv, TypeOK, RevisionStoreSound
<1>2. LineageIs /\ ChainIs
  BY <1>1, StoreParented, LineageDefined, ChainDefined DEF Grown
<1>3. Lineage[a] = Lineage[active] \cup {a} /\ Chain[a] = Append(Chain[active], a)
  BY <1>1, <1>2 DEF LineageIs, ChainIs
<1>4. Lineage'[a] = Lineage[a] /\ Chain'[a] = Chain[a]
  BY LineageStays
<1>5. a \notin InEffect
  <2>1. \A b \in InEffect : b <= active /\ b \in Int
    BY EffectIs, RevsAndApps DEF Grown
  <2> QED
    BY <1>1, <2>1, RevsAndApps
<1> QED
  BY <1>1, <1>3, <1>4, <1>5 DEF InEffect

\* Where it goes back to the parent of the active one.
LEMMA EffectPopped ==
    ASSUME Grown, active # Root, active' = revs[active].parent
    PROVE  /\ InEffect' = InEffect \ {active}
           /\ Lineage[active] = Lineage'[active'] \cup {active}
           /\ Chain[active] = Append(Chain'[active'], active)
<1> DEFINE up == revs[active].parent
<1>1. /\ active \in published /\ published \subseteq Revs /\ RevisionStoreSound
      /\ up \in published /\ up < active
  BY DEF Grown, IInv, TypeOK, RevisionStoreSound
<1>2. LineageIs /\ ChainIs
  BY <1>1, StoreParented, LineageDefined, ChainDefined DEF Grown
<1>3. active \in Revs /\ up # NoRev /\ up \in Int /\ active \in Int
  BY <1>1, RevsAndApps
<1>4. Lineage[active] = Lineage[up] \cup {active} /\ Chain[active] = Append(Chain[up], active)
  BY <1>2, <1>3 DEF LineageIs, ChainIs
<1>5. Lineage'[up] = Lineage[up] /\ Chain'[up] = Chain[up]
  BY <1>1, LineageStays
<1> HIDE DEF up
<1>6. active \notin Lineage[up]
  <2>1. \A b \in Lineage[up] : b <= up
    BY <1>1, LineageSound DEF Grown
  <2> QED
    BY <1>1, <1>3, <2>1
<1>7. active' = up
  BY DEF up
<1> QED
  BY <1>4, <1>5, <1>6, <1>7 DEF InEffect

-----------------------------------------------------------------------------
(* The steps of plan_apply *)

LEMMA ApplyQuiet ==
    ASSUME NEW w \in Workers, Apply(w), ~PublishRevision(w)
    PROVE  UNCHANGED <<published, revs>>
BY DEF Apply, PlanApply, SavePlan, ReadyToApply, OpenTransaction, BeginApplying,
   JournalPrepared, JournalWritten, GraphAccepted, GraphRejected, JournalPublished, PointerUnchanged,
   PointerMoved, SetPointer, JournalPointer, MarkApplied, FinalizeRecord, JournalUpdated, JournalAudited,
   OfferResume, Commit, Journal, planVars

\* A revision file is written once.
LEMMA StoreGrows ==
    ASSUME IInv, OrderInv, Unwritten, [Next]_vars
    PROVE  Unwritten' /\ \A r \in published : revs'[r] = revs[r]
<1>1. TypeOK
  BY DEF IInv
<1>2. CASE UNCHANGED <<published, revs>>
  BY <1>2 DEF Unwritten
<1>3. ASSUME NEW w \in Workers, PublishRevision(w)
      PROVE  Unwritten' /\ \A r \in published : revs'[r] = revs[r]
  <2>1. wk[w].app \notin published /\ published' = published \cup {wk[w].app}
    BY <1>3 DEF PublishRevision, At, OrderInv, UnwrittenLabels, PlannedLabels, OnDiskLabels
  <2>2. \A r \in Revs \ {wk[w].app} : revs'[r] = revs[r]
    BY <1>1, <1>3 DEF PublishRevision, TypeOK
  <2> QED
    BY <1>1, <2>1, <2>2 DEF TypeOK, Unwritten
<1>4. ASSUME NEW w \in Workers, Apply(w), ~PublishRevision(w) PROVE UNCHANGED <<published, revs>>
  BY <1>4, ApplyQuiet
<1>5. ASSUME NEW w \in Workers, Resume(w) \/ Rollback(w) \/ Recover(w)
      PROVE  UNCHANGED <<published, revs>>
  BY <1>1, <1>5, OutsidePlan
<1>6. ASSUME NEW w \in Workers, (\E q \in Requests : ImportResponse(w, q)) \/ Crash(w) \/ OutOfIds(w)
      PROVE  UNCHANGED <<published, revs>>
  BY <1>6 DEF ImportResponse, Crash, OutOfIds, planVars
<1>7. CASE UNCHANGED vars
  BY <1>2, <1>7 DEF vars
<1> QED
  BY <1>2, <1>3, <1>4, <1>5, <1>6, <1>7 DEF Next

\* A step of the one command that runs.
Alone == OneAtATime /\ Grown /\ PlanInv

LEMMA StepKeeps ==
    ASSUME Alone, NEW w \in Workers, NEW x,
           \A a \in Apps \ {x} : /\ apps'[a] = apps[a] /\ txn'[a] = txn[a] /\ undo'[a] = undo[a]
                                 /\ a \in InEffect' <=> a \in InEffect,
           x \in Apps => AppInv(x)', CommandInv(w)'
    PROVE  PlanInv'
<1>1. ASSUME NEW a \in Apps, a # x PROVE AppInv(a)'
  BY <1>1 DEF Alone, PlanInv, AppInv
<1>2. \A v \in Workers : CommandInv(v)'
  BY DEF Alone, OneAtATime
<1> QED
  BY <1>1, <1>2 DEF PlanInv, Alone, Grown

\* What is known of a command that has an application.
LEMMA Working ==
    ASSUME Alone, NEW w \in Workers, wk[w].pc \notin {"idle", "save_plan", "recover"}
    PROVE  /\ wk[w].app \in Apps /\ apps[wk[w].app] = wk[w].rec /\ wk[w].rec \in AppRecord
           /\ AppInv(wk[w].app) /\ RecordKnown(w) /\ PlanKnown(w) /\ WorkerInv(w)
           /\ TypeOK /\ wk[w] \in Worker
BY DEF Alone, PlanInv, CommandInv, Grown, IInv, TypeOK

\* What a status transition does.
LEMMA TransitionDoes ==
    ASSUME Alone, NEW w \in Workers, wk[w].pc \notin {"idle", "save_plan", "recover"},
           NEW x, x = wk[w].app, NEW st, NEW next, Transition(w, st, next),
           UNCHANGED <<journalVars, planVars>>
    PROVE  /\ InEffect' = InEffect /\ txn' = txn /\ undo' = undo /\ active' = active /\ revs' = revs
           /\ \A a \in Apps \ {x} : apps'[a] = apps[a]
           /\ apps'[x] = wk'[w].rec
           /\ apps'[x].status = st /\ apps'[x].rev = apps[x].rev
           /\ wk'[w].pc = next /\ wk'[w].app = x /\ wk'[w].src = wk[w].src
<1>1. /\ x \in Apps /\ apps[x] = wk[w].rec /\ wk[w].rec \in AppRecord /\ TypeOK
  BY Working
<1>2. wk'[w].pc = next /\ wk'[w].rec = [wk[w].rec EXCEPT !.status = st] /\ Same(w)
  BY <1>1, TransitionIs
<1>3. apps' = [apps EXCEPT ![x] = [wk[w].rec EXCEPT !.status = st]]
  BY DEF Transition, SaveStatus
<1>4. apps \in [Apps -> AppRecord]
  BY <1>1 DEF TypeOK
<1>5. InEffect' = InEffect
  BY EffectKept DEF Alone, planVars
<1> DEFINE new == [wk[w].rec EXCEPT !.status = st]
<1>6. new.status = st /\ new.rev = wk[w].rec.rev
  BY <1>1 DEF AppRecord
<1>7. wk'[w].rec = new /\ apps' = [apps EXCEPT ![x] = new]
  BY <1>2, <1>3
<1> HIDE DEF new
<1>8. apps'[x] = new /\ \A a \in Apps \ {x} : apps'[a] = apps[a]
  BY <1>1, <1>4, <1>7
<1> QED
  BY <1>1, <1>2, <1>5, <1>6, <1>7, <1>8 DEF Same, journalVars, planVars

LEMMA PlanTransitions ==
    ASSUME Alone, NEW w \in Workers,
           ReadyToApply(w) \/ BeginApplying(w) \/ MarkApplied(w) \/ OfferResume(w)
           \/ BeginResume(w) \/ BeginRollback(w) \/ MarkRolledBack(w)
    PROVE  PlanInv'
<1> USE DEF At
<1>0. PICK x : x = wk[w].app
  OBVIOUS
<1>1. wk[w].pc \notin {"idle", "save_plan", "recover"}
  BY DEF ReadyToApply, BeginApplying, MarkApplied, OfferResume, BeginResume, BeginRollback, MarkRolledBack
<1>2. /\ x \in Apps /\ apps[x] = wk[w].rec
      /\ AppInv(x) /\ RecordKnown(w) /\ PlanKnown(w) /\ WorkerInv(w)
  BY <1>0, <1>1, Working
<1> DEFINE Does(st, next) ==
           /\ InEffect' = InEffect /\ txn' = txn /\ undo' = undo /\ active' = active /\ revs' = revs
           /\ \A a \in Apps \ {x} : apps'[a] = apps[a]
           /\ apps'[x] = wk'[w].rec
           /\ apps'[x].status = st /\ apps'[x].rev = apps[x].rev
           /\ wk'[w].pc = next /\ wk'[w].app = x /\ wk'[w].src = wk[w].src
<1>3. ASSUME NEW st, NEW next, Transition(w, st, next), UNCHANGED <<journalVars, planVars>>
      PROVE  Does(st, next)
  BY <1>0, <1>1, <1>3, TransitionDoes
<1>4. ASSUME NEW st, NEW next, Does(st, next), AppInv(x)', CommandInv(w)'
      PROVE  PlanInv'
  BY <1>4, StepKeeps
<1>5. CASE ReadyToApply(w)
  <2>1. Does("ready_to_apply", "open_txn") /\ wk[w].pc = "ready"
    BY <1>3, <1>5 DEF ReadyToApply
  <2>2. AppInv(x)'
    BY <1>0, <1>2, <2>1 DEF AppInv, RecordKnown, PlanKnown, AppliedStatuses, LeftStatuses, NotYetStatuses, BelowLabels
  <2>3. CommandInv(w)'
    BY <1>0, <1>2, <2>1 DEF CommandInv, RecordKnown, PlanKnown, BelowLabels, AboveLabels, ResumeLabels
  <2> QED
    BY <1>4, <2>1, <2>2, <2>3
<1>6. CASE BeginApplying(w)
  <2>1. Does("applying", "prepared") /\ wk[w].pc = "applying"
    BY <1>3, <1>6 DEF BeginApplying
  <2>2. AppInv(x)'
    BY <1>0, <1>2, <2>1 DEF AppInv, RecordKnown, PlanKnown, AppliedStatuses, LeftStatuses, NotYetStatuses, BelowLabels
  <2>3. CommandInv(w)'
    BY <1>0, <1>2, <2>1 DEF CommandInv, RecordKnown, PlanKnown, BelowLabels, AboveLabels, ResumeLabels
  <2> QED
    BY <1>4, <2>1, <2>2, <2>3
<1>7. CASE MarkApplied(w)
  <2>1. Does("applied", "finalize") /\ wk[w].pc = "applied"
    BY <1>3, <1>7 DEF MarkApplied
  <2>2. x \in InEffect
    <3>1. active = x
      BY <1>0, <1>2, <2>1 DEF PlanKnown, AboveLabels
    <3> QED
      BY <1>2, <3>1, EffectIs, RevsAndApps DEF Alone, Grown
  <2>3. AppInv(x)'
    BY <1>0, <1>2, <2>1, <2>2 DEF AppInv, RecordKnown, PlanKnown, AppliedStatuses, LeftStatuses, NotYetStatuses
  <2>4. CommandInv(w)'
    BY <1>0, <1>2, <2>1 DEF CommandInv, RecordKnown, PlanKnown, BelowLabels, AboveLabels, ResumeLabels
  <2> QED
    BY <1>4, <2>1, <2>3, <2>4
<1>8. CASE OfferResume(w)
  <2>1. Does("resume_pending", "commit") /\ wk[w].pc = "pending"
    BY <1>3, <1>8 DEF OfferResume
  <2>2. AppInv(x)'
    BY <1>0, <1>2, <2>1 DEF AppInv, RecordKnown, PlanKnown, AppliedStatuses, LeftStatuses, NotYetStatuses
  <2>3. CommandInv(w)'
    BY <1>0, <1>2, <2>1 DEF CommandInv, RecordKnown, PlanKnown, BelowLabels, AboveLabels, ResumeLabels
  <2> QED
    BY <1>4, <2>1, <2>2, <2>3
<1>9. CASE BeginResume(w)
  <2>1. Does("resuming", "lease") /\ wk[w].pc = "begin_resume"
    BY <1>3, <1>9 DEF BeginResume
  <2>2. AppInv(x)'
    BY <1>0, <1>2, <2>1 DEF AppInv, RecordKnown, PlanKnown, AppliedStatuses, LeftStatuses, NotYetStatuses
  <2>3. CommandInv(w)'
    BY <1>0, <1>2, <2>1 DEF CommandInv, RecordKnown, PlanKnown, BelowLabels, AboveLabels, ResumeLabels
  <2> QED
    BY <1>4, <2>1, <2>2, <2>3
<1>10. CASE BeginRollback(w)
  <2>1. Does("rolling_back", "stale_leases") /\ wk[w].pc = "rolling_back"
    BY <1>3, <1>10 DEF BeginRollback
  <2>2. AppInv(x)'
    BY <1>0, <1>2, <2>1 DEF AppInv, RecordKnown, PlanKnown, AppliedStatuses, LeftStatuses, NotYetStatuses
  <2>3. CommandInv(w)'
    BY <1>0, <1>2, <2>1 DEF CommandInv, RecordKnown, PlanKnown, BelowLabels, AboveLabels, ResumeLabels
  <2> QED
    BY <1>4, <2>1, <2>2, <2>3
<1>11. CASE MarkRolledBack(w)
  <2>1. Does("rolled_back", "retarget") /\ wk[w].pc = "rolled_back"
    BY <1>3, <1>11 DEF MarkRolledBack
  <2>2. AppInv(x)'
    BY <1>0, <1>2, <2>1 DEF AppInv, RecordKnown, PlanKnown, AppliedStatuses, LeftStatuses, NotYetStatuses
  <2>3. CommandInv(w)'
    BY <1>0, <1>2, <2>1 DEF CommandInv, RecordKnown, PlanKnown, BelowLabels, AboveLabels, ResumeLabels
  <2> QED
    BY <1>4, <2>1, <2>2, <2>3
<1> QED
  BY <1>5, <1>6, <1>7, <1>8, <1>9, <1>10, <1>11

\* A step that writes neither a record, nor a journal, nor the plan.
LEMMA QuietKeeps ==
    ASSUME Alone, NEW w \in Workers, UNCHANGED <<apps, journalVars, planVars>>, CommandInv(w)'
    PROVE  PlanInv'
<1>1. InEffect' = InEffect /\ txn' = txn /\ undo' = undo /\ apps' = apps
  BY EffectKept DEF Alone, planVars, journalVars
<1>2. \E x : x \notin Apps
  BY RevsAndApps
<1> QED
  BY <1>1, <1>2, StepKeeps

LEMMA StopKeeps ==
    ASSUME Alone, NEW w \in Workers, Stop(w), UNCHANGED <<apps, journalVars, planVars>>
    PROVE  PlanInv'
<1>1. TypeOK
  BY DEF Alone, Grown, IInv
<1>2. wk'[w].pc = "idle"
  BY <1>1, StopIs DEF IdleWorker
<1>3. CommandInv(w)'
  BY <1>2 DEF CommandInv, RecordKnown, PlanKnown, BelowLabels, AboveLabels, ResumeLabels
<1> QED
  BY <1>3, QuietKeeps

\* What a journal entry of plan_apply does.
LEMMA JournalDoes ==
    ASSUME Alone, NEW w \in Workers, wk[w].pc \notin {"idle", "save_plan", "recover"},
           NEW x, x = wk[w].app, NEW phase, SavePhase(w, phase), UNCHANGED <<apps, undo, planVars>>
    PROVE  /\ InEffect' = InEffect /\ apps' = apps /\ undo' = undo /\ active' = active /\ revs' = revs
           /\ \A a \in Apps \ {x} : txn'[a] = txn[a]
           /\ txn'[x].phase = phase /\ ~txn'[x].planSum
<1>1. x \in Apps /\ TypeOK
  BY Working
<1>2. txn[x] \in Transaction /\ txn \in [Apps -> Transaction]
  BY <1>1 DEF TypeOK
<1>3. txn' = [txn EXCEPT ![x] = [txn[x] EXCEPT !.phase = phase, !.planSum = FALSE]]
  BY <1>1, <1>2 DEF SavePhase
<1>4. \A a \in Apps \ {x} : txn'[a] = txn[a]
  BY <1>1, <1>2, <1>3
<1>5. txn'[x].phase = phase /\ ~txn'[x].planSum
  BY <1>1, <1>2, <1>3 DEF Transaction
<1>6. InEffect' = InEffect
  BY EffectKept DEF Alone, planVars
<1> QED
  BY <1>4, <1>5, <1>6 DEF planVars

LEMMA PlanJournals ==
    ASSUME Alone, NEW w \in Workers,
           JournalPrepared(w) \/ JournalWritten(w) \/ GraphAccepted(w) \/ JournalPublished(w)
           \/ JournalPointer(w) \/ JournalUpdated(w) \/ JournalAudited(w)
    PROVE  PlanInv'
<1> USE DEF At
<1>0. PICK x : x = wk[w].app
  OBVIOUS
<1> DEFINE Before == {"prepared", "written", "validate", "published", "pointed", "updated", "audited"}
<1>1. PICK from, phase, next :
         /\ Journal(w, from, phase, next)
         /\ \/ from = "prepared" /\ phase = "prepared" /\ next = "written"
            \/ from = "written" /\ phase = "revision_written" /\ next = "validate"
            \/ from = "validate" /\ phase = "revision_validated" /\ next = "publish"
            \/ from = "published" /\ phase = "revision_published" /\ next = "check_pointer"
            \/ from = "pointed" /\ phase = "pointer_updated" /\ next = "applied"
            \/ from = "updated" /\ phase = "application_updated" /\ next = "audited"
            \/ from = "audited" /\ phase = "audit_completed" /\ next \in {"pending", "commit"}
  BY DEF JournalPrepared, JournalWritten, GraphAccepted, JournalPublished, JournalPointer, JournalUpdated,
     JournalAudited
<1>2. wk[w].pc = from /\ wk[w].pc \in Before /\ TypeOK
  BY <1>1 DEF Journal, Alone, Grown, IInv
<1>3. /\ x \in Apps /\ apps[x] = wk[w].rec
      /\ AppInv(x) /\ RecordKnown(w) /\ PlanKnown(w) /\ WorkerInv(w)
  BY <1>0, <1>2, Working
<1>4. /\ InEffect' = InEffect /\ apps' = apps /\ undo' = undo /\ active' = active /\ revs' = revs
      /\ \A a \in Apps \ {x} : txn'[a] = txn[a]
      /\ txn'[x].phase = phase /\ ~txn'[x].planSum
  BY <1>0, <1>1, <1>2, JournalDoes DEF Journal
<1>5. wk'[w].pc = next /\ wk'[w].rec = wk[w].rec /\ wk'[w].app = x /\ wk'[w].src = wk[w].src
  BY <1>0, <1>1, <1>2, GotoIs DEF Journal, Same
<1>6. x \in InEffect <=> from \in {"pointed", "updated", "audited"}
  <2>1. CASE from \in {"pointed", "updated", "audited"}
    <3>1. active = x
      BY <1>0, <1>2, <1>3, <2>1 DEF PlanKnown, AboveLabels
    <3> QED
      BY <1>3, <2>1, <3>1, EffectIs, RevsAndApps DEF Alone, Grown
  <2>2. CASE from \notin {"pointed", "updated", "audited"}
    <3>1. active < x /\ active \in Int /\ x \in Int
      <4>1. active = wk[w].src /\ wk[w].src < x
        BY <1>0, <1>2, <1>3, <2>2 DEF PlanKnown, WorkerInv, BelowLabels, PlannedLabels, OnDiskLabels
      <4> QED
        BY <1>2, <1>3, <4>1, RevsAndApps DEF TypeOK
    <3> QED
      BY <2>2, <3>1, EffectIs DEF Alone, Grown
  <2> QED
    BY <2>1, <2>2
<1>7. AppInv(x)'
  <2>1. wk[w].rec.status \in {"applying", "applied"}
    BY <1>2, <1>3 DEF RecordKnown, BelowLabels
  <2>2. from \in {"updated", "audited"} => wk[w].rec.rev # NoRev
    BY <1>2, <1>3 DEF RecordKnown
  <2>3. from \in {"updated", "audited"} <=> wk[w].rec.status = "applied"
    BY <1>2, <1>3 DEF RecordKnown, BelowLabels
  <2> QED
    BY <1>1, <1>3, <1>4, <1>6, <2>1, <2>2, <2>3 DEF AppInv, AppliedStatuses, LeftStatuses, NotYetStatuses,
       Published, Pointed, Recorded
<1>8. CommandInv(w)'
  <2>1. RecordKnown(w)'
    BY <1>1, <1>2, <1>3, <1>5 DEF RecordKnown, BelowLabels, ResumeLabels
  <2>2. PlanKnown(w)'
    BY <1>0, <1>1, <1>2, <1>3, <1>4, <1>5 DEF PlanKnown, BelowLabels, AboveLabels, ResumeLabels, Published, Pointed
  <2> QED
    BY <1>1, <1>3, <1>4, <1>5, <2>1, <2>2 DEF CommandInv
<1> QED
  BY <1>4, <1>7, <1>8, StepKeeps

\* The end of a command that was planned.
LEMMA PlanCommit ==
    ASSUME Alone, NEW w \in Workers, Commit(w)
    PROVE  PlanInv'
<1>0. PICK x : x = wk[w].app
  OBVIOUS
<1>1. wk[w].pc = "commit"
  BY DEF Commit, At
<1>2. /\ x \in Apps /\ apps[x] = wk[w].rec /\ TypeOK
      /\ AppInv(x) /\ RecordKnown(w) /\ PlanKnown(w)
  BY <1>0, <1>1, Working
<1>3. /\ InEffect' = InEffect /\ apps' = apps /\ undo' = undo /\ active' = active
      /\ \A a \in Apps \ {x} : txn'[a] = txn[a]
      /\ txn'[x].phase = "committed" /\ ~txn'[x].planSum
  BY <1>0, <1>1, JournalDoes DEF Commit
<1>4. wk'[w].pc = "idle"
  BY <1>2, StopIs DEF Commit, IdleWorker
<1>5. active = x /\ x \in InEffect
  <2>1. active = x
    BY <1>0, <1>1, <1>2 DEF PlanKnown, AboveLabels
  <2> QED
    BY <1>2, <2>1, EffectIs, RevsAndApps DEF Alone, Grown
<1>6. wk[w].rec.status \in {"applied", "resume_pending"} /\ wk[w].rec.rev # NoRev
  BY <1>1, <1>2 DEF RecordKnown
<1>7. AppInv(x)'
  BY <1>2, <1>3, <1>5, <1>6 DEF AppInv, AppliedStatuses, LeftStatuses, NotYetStatuses,
     Published, Pointed, Recorded
<1>8. CommandInv(w)'
  BY <1>4 DEF CommandInv, RecordKnown, PlanKnown, BelowLabels, AboveLabels, ResumeLabels
<1> QED
  BY <1>3, <1>7, <1>8, StepKeeps

LEMMA PlanOpen ==
    ASSUME Alone, NEW w \in Workers, OpenTransaction(w)
    PROVE  PlanInv'
<1>0. PICK x : x = wk[w].app
  OBVIOUS
<1>1. wk[w].pc = "open_txn"
  BY DEF OpenTransaction, At
<1>2. /\ x \in Apps /\ apps[x] = wk[w].rec /\ TypeOK
      /\ AppInv(x) /\ RecordKnown(w) /\ PlanKnown(w)
  BY <1>0, <1>1, Working
<1>3. InEffect' = InEffect /\ apps' = apps /\ undo' = undo /\ active' = active /\ revs' = revs
  BY EffectKept DEF OpenTransaction, Alone, planVars
<1>4. /\ txn'[x].phase = "prepared"
      /\ \A a \in Apps \ {x} : txn'[a] = txn[a]
  BY <1>0, <1>2 DEF OpenTransaction, TypeOK
<1>5. wk'[w].pc = "applying" /\ wk'[w].rec = wk[w].rec /\ wk'[w].app = x /\ wk'[w].src = wk[w].src
  BY <1>0, <1>2, GotoIs DEF OpenTransaction, Same
<1>6. wk[w].rec.status = "ready_to_apply"
  BY <1>1, <1>2 DEF RecordKnown
<1>7. AppInv(x)'
  BY <1>2, <1>3, <1>4, <1>6 DEF AppInv, AppliedStatuses, LeftStatuses, NotYetStatuses,
     Published, Pointed, Recorded
<1>8. CommandInv(w)'
  BY <1>0, <1>1, <1>2, <1>3, <1>4, <1>5, <1>6 DEF CommandInv, RecordKnown, PlanKnown, BelowLabels, AboveLabels,
     ResumeLabels, Published, Pointed
<1> QED
  BY <1>3, <1>4, <1>7, <1>8, StepKeeps

LEMMA PlanBegins ==
    ASSUME Alone, NEW w \in Workers, NEW q \in Requests, PlanApply(w, q)
    PROVE  PlanInv'
<1> DEFINE rec == [NoApp EXCEPT !.status = "application_planned", !.req = q]
           new == [IdleWorker EXCEPT !.pc = "save_plan", !.src = active, !.rec = rec]
<1>1. wk \in [Workers -> Worker] /\ wk' = [wk EXCEPT ![w] = new] /\ active' = active
  BY DEF PlanApply, Alone, Grown, IInv, TypeOK, planVars
<1>2. rec.status = "application_planned" /\ rec.rev = NoRev
  BY DEF NoApp
<1>3. new.pc = "save_plan" /\ new.src = active /\ new.rec = rec
  BY DEF IdleWorker
<1> HIDE DEF rec, new
<1>4. wk'[w].pc = "save_plan" /\ wk'[w].src = active' /\ wk'[w].rec = rec
  BY <1>1, <1>3
<1>5. CommandInv(w)'
  BY <1>2, <1>4 DEF CommandInv, RecordKnown, PlanKnown, BelowLabels, AboveLabels, ResumeLabels
<1> QED
  BY <1>5, QuietKeeps DEF PlanApply

LEMMA PlanSaves ==
    ASSUME Alone, NEW w \in Workers, SavePlan(w)
    PROVE  PlanInv'
<1>1. wk[w].pc = "save_plan" /\ wk[w] \in Worker /\ wk \in [Workers -> Worker] /\ apps \in [Apps -> AppRecord]
  BY DEF SavePlan, At, Alone, Grown, IInv, TypeOK
<1>2. RecordKnown(w) /\ PlanKnown(w)
  BY DEF Alone, PlanInv, CommandInv
<1>3. /\ wk[w].rec.status = "application_planned" /\ wk[w].rec.rev = NoRev
      /\ active = wk[w].src
  BY <1>1, <1>2 DEF RecordKnown, PlanKnown
<1>4. PICK x \in Apps :
         /\ \A b \in Apps : (apps[b].status = "none") <=> (b >= x)
         /\ apps' = [apps EXCEPT ![x] = wk[w].rec]
         /\ wk' = [wk EXCEPT ![w].pc = "ready", ![w].app = x]
  BY DEF SavePlan
<1>11. apps[x].status = "none"
  <2>1. x >= x
    BY RevsAndApps
  <2> QED
    BY <1>4, <2>1
<1>5. apps'[x] = wk[w].rec /\ \A a \in Apps \ {x} : apps'[a] = apps[a]
  BY <1>1, <1>4
<1>6. wk'[w].pc = "ready" /\ wk'[w].app = x /\ wk'[w].rec = wk[w].rec /\ wk'[w].src = wk[w].src
  BY <1>1, <1>4 DEF Worker
<1>7. InEffect' = InEffect /\ txn' = txn /\ undo' = undo /\ active' = active
  BY EffectKept DEF SavePlan, Alone, planVars, journalVars
<1>8. AppInv(x)
  BY DEF Alone, PlanInv
<1>9. AppInv(x)'
  BY <1>3, <1>5, <1>7, <1>8, <1>11 DEF AppInv, AppliedStatuses, LeftStatuses, NotYetStatuses,
     Published, Pointed, Recorded
<1>10. CommandInv(w)'
  BY <1>3, <1>5, <1>6, <1>7, <1>8, <1>9, <1>11 DEF CommandInv, RecordKnown, PlanKnown, BelowLabels, AboveLabels,
     ResumeLabels, AppInv, NotYetStatuses
<1> QED
  BY <1>5, <1>7, <1>9, <1>10, StepKeeps

LEMMA PlanPublishes ==
    ASSUME Alone, NEW w \in Workers, PublishRevision(w)
    PROVE  PlanInv'
<1>0. PICK x : x = wk[w].app
  OBVIOUS
<1>1. wk[w].pc = "publish"
  BY DEF PublishRevision, At
<1>2. /\ x \in Apps /\ apps[x] = wk[w].rec /\ TypeOK
      /\ AppInv(x) /\ RecordKnown(w) /\ PlanKnown(w)
  BY <1>0, <1>1, Working
<1>3. /\ InEffect' = InEffect /\ apps' = apps /\ undo' = undo /\ active' = active /\ txn' = txn
  BY EffectKept DEF PublishRevision, Alone, journalVars
<1>4. revs'[x].parent = wk[w].src
  BY <1>0, <1>2, RevsAndApps DEF PublishRevision, TypeOK
<1>5. wk'[w].pc = "published" /\ wk'[w].rec = wk[w].rec /\ wk'[w].app = x /\ wk'[w].src = wk[w].src
  BY <1>0, <1>2, GotoIs DEF PublishRevision, Same
<1>6. CommandInv(w)'
  BY <1>0, <1>1, <1>2, <1>3, <1>4, <1>5 DEF CommandInv, RecordKnown, PlanKnown, BelowLabels, AboveLabels,
     ResumeLabels
<1>7. AppInv(x)'
  BY <1>2, <1>3 DEF AppInv
<1> QED
  BY <1>3, <1>6, <1>7, StepKeeps

LEMMA PlanChecks ==
    ASSUME Alone, NEW w \in Workers, PointerUnchanged(w)
    PROVE  PlanInv'
<1>0. PICK x : x = wk[w].app
  OBVIOUS
<1>1. wk[w].pc = "check_pointer" /\ apps' = apps /\ txn' = txn /\ active' = active /\ revs' = revs
  BY DEF PointerUnchanged, At, journalVars, planVars
<1>2. /\ x \in Apps /\ apps[x] = wk[w].rec /\ TypeOK
      /\ RecordKnown(w) /\ PlanKnown(w)
  BY <1>0, <1>1, Working
<1>3. wk'[w].pc = "set_pointer" /\ wk'[w].rec = wk[w].rec /\ wk'[w].app = x /\ wk'[w].src = wk[w].src
  BY <1>0, <1>2, GotoIs DEF PointerUnchanged, Same
<1>4. CommandInv(w)'
  BY <1>0, <1>1, <1>2, <1>3 DEF CommandInv, RecordKnown, PlanKnown, BelowLabels, AboveLabels, ResumeLabels
<1> QED
  BY <1>4, QuietKeeps DEF PointerUnchanged

\* The pointer goes to a revision whose parent is the active one.
LEMMA PointerPushes ==
    ASSUME Alone, NEW w \in Workers, SetPointer(w)
    PROVE  /\ wk[w].app \in Apps /\ wk[w].app \notin InEffect /\ txn[wk[w].app].phase = "revision_published"
           /\ InEffect' = InEffect \cup {wk[w].app}
           /\ Lineage'[active'] = Lineage[active] \cup {wk[w].app}
           /\ Chain'[active'] = Append(Chain[active], wk[w].app)
<1>0. PICK x : x = wk[w].app
  OBVIOUS
<1>1. wk[w].pc = "set_pointer" /\ active' = x
  BY <1>0 DEF SetPointer, At
<1>2. x \in Apps /\ PlanKnown(w) /\ WorkerInv(w)
  BY <1>0, <1>1, Working
<1>3. x \in published /\ revs[x].parent = active /\ txn[x].phase = "revision_published"
  BY <1>0, <1>1, <1>2 DEF PlanKnown, WorkerInv, BelowLabels, OnDiskLabels
<1> QED
  BY <1>0, <1>1, <1>2, <1>3, EffectPushed DEF Alone

LEMMA PlanPoints ==
    ASSUME Alone, NEW w \in Workers, SetPointer(w)
    PROVE  PlanInv'
<1>0. PICK x : x = wk[w].app
  OBVIOUS
<1>1. wk[w].pc = "set_pointer" /\ active' = x /\ apps' = apps /\ txn' = txn /\ undo' = undo
  BY <1>0 DEF SetPointer, At, journalVars
<1>2. /\ x \in Apps /\ apps[x] = wk[w].rec /\ TypeOK
      /\ AppInv(x) /\ RecordKnown(w) /\ PlanKnown(w)
  BY <1>0, <1>1, Working
<1>3. InEffect' = InEffect \cup {x} /\ x \notin InEffect /\ txn[x].phase = "revision_published"
  BY <1>0, PointerPushes
<1>4. wk'[w].pc = "pointed" /\ wk'[w].rec = wk[w].rec /\ wk'[w].app = x
  BY <1>0, <1>2, GotoIs DEF SetPointer, Same
<1>5. wk[w].rec.status = "applying"
  BY <1>1, <1>2 DEF RecordKnown, BelowLabels
<1>6. AppInv(x)'
  BY <1>1, <1>2, <1>3, <1>5 DEF AppInv, AppliedStatuses, LeftStatuses, NotYetStatuses,
     Published, Pointed, Recorded
<1>7. CommandInv(w)'
  BY <1>0, <1>1, <1>2, <1>3, <1>4, <1>5 DEF CommandInv, RecordKnown, PlanKnown, BelowLabels, AboveLabels,
     ResumeLabels, Published, Pointed
<1> QED
  BY <1>1, <1>3, <1>6, <1>7, StepKeeps

LEMMA PlanFinalizes ==
    ASSUME Alone, NEW w \in Workers, FinalizeRecord(w)
    PROVE  PlanInv'
<1>0. PICK x : x = wk[w].app
  OBVIOUS
<1>1. wk[w].pc = "finalize"
  BY DEF FinalizeRecord, At
<1>2. /\ x \in Apps /\ apps[x] = wk[w].rec /\ wk[w].rec \in AppRecord /\ TypeOK /\ wk[w] \in Worker
      /\ AppInv(x) /\ RecordKnown(w) /\ PlanKnown(w)
  BY <1>0, <1>1, Working
<1> DEFINE rec == [wk[w].rec EXCEPT !.rev = x, !.eligible = (revs[x].ready # {})]
           new == [wk[w] EXCEPT !.pc = "updated", !.rec = rec]
<1>3. apps' = [apps EXCEPT ![x] = rec] /\ wk' = [wk EXCEPT ![w] = new]
  BY <1>0 DEF FinalizeRecord
<1>4. rec.status = wk[w].rec.status /\ rec.rev = x
  BY <1>2 DEF AppRecord
<1> HIDE DEF rec
<1>5. new.pc = "updated" /\ new.rec = rec /\ new.app = x
  BY <1>0, <1>2 DEF Worker
<1> HIDE DEF new
<1>6. /\ apps'[x] = rec /\ \A a \in Apps \ {x} : apps'[a] = apps[a]
      /\ wk'[w] = new
  BY <1>2, <1>3 DEF TypeOK
<1>7. InEffect' = InEffect /\ txn' = txn /\ undo' = undo /\ active' = active
  BY EffectKept DEF FinalizeRecord, Alone, planVars, journalVars
<1>8. wk[w].rec.status = "applied" /\ x # NoRev
  BY <1>1, <1>2, RevsAndApps DEF RecordKnown
<1>9. AppInv(x)'
  BY <1>2, <1>4, <1>6, <1>7, <1>8 DEF AppInv, AppliedStatuses, LeftStatuses, NotYetStatuses
<1>10. CommandInv(w)'
  BY <1>0, <1>1, <1>2, <1>4, <1>5, <1>6, <1>7, <1>8 DEF CommandInv, RecordKnown, PlanKnown, BelowLabels,
     AboveLabels, ResumeLabels, Published, Pointed
<1> QED
  BY <1>6, <1>7, <1>9, <1>10, StepKeeps

LEMMA PlanApplies ==
    ASSUME Alone, NEW w \in Workers, Apply(w)
    PROVE  PlanInv'
<1>1. ASSUME GraphRejected(w) \/ PointerMoved(w) PROVE PlanInv'
  BY <1>1, StopKeeps DEF GraphRejected, PointerMoved
<1> QED
  BY <1>1, PlanBegins, PlanSaves, PlanTransitions, PlanOpen, PlanJournals, PlanPublishes, PlanChecks, PlanPoints,
     PlanFinalizes, PlanCommit DEF Apply

-----------------------------------------------------------------------------
(* The steps of resume *)

LEMMA ResumableStatus ==
    ASSUME NEW st \in Statuses, "resuming" \in TransitionMap[st]
    PROVE  st = "resume_pending"
BY StatusesAre DEF TransitionMap

LEMMA ResumeBegins ==
    ASSUME Alone, NEW w \in Workers, NEW q \in Requests, ResumeStart(w, q)
    PROVE  PlanInv'
<1>1. /\ wk \in [Workers -> Worker] /\ apps' = apps /\ active' = active /\ txn' = txn
      /\ apps \in [Apps -> AppRecord]
  BY DEF ResumeStart, Alone, Grown, IInv, TypeOK, planVars, journalVars
<1>2. PICK x \in Apps :
         /\ HasRevision(x) /\ active = apps[x].rev /\ "resuming" \in TransitionMap[apps[x].status]
         /\ apps[x].status # "none"
         /\ wk' = [wk EXCEPT ![w] = [IdleWorker EXCEPT !.pc = "begin_resume", !.app = x,
                       !.rec = apps[x], !.todo = revs[apps[x].rev].ready]]
  BY DEF ResumeStart, Preferred
<1> DEFINE new == [IdleWorker EXCEPT !.pc = "begin_resume", !.app = x,
                       !.rec = apps[x], !.todo = revs[apps[x].rev].ready]
<1>3. new.pc = "begin_resume" /\ new.app = x /\ new.rec = apps[x]
  BY DEF IdleWorker
<1>4. wk' = [wk EXCEPT ![w] = new]
  BY <1>2
<1> HIDE DEF new
<1>5. wk'[w] = new
  BY <1>1, <1>4
<1>6. AppInv(x)
  BY DEF Alone, PlanInv
<1>7. apps[x].status = "resume_pending"
  <2>1. apps[x].status \in Statuses
    BY <1>1, <1>2 DEF AppRecord
  <2> QED
    BY <1>2, <2>1, ResumableStatus
<1>8. apps[x].rev = x
  BY <1>2, <1>6, <1>7 DEF AppInv, HasRevision
<1>9. CommandInv(w)'
  BY <1>1, <1>2, <1>3, <1>5, <1>7, <1>8 DEF CommandInv, RecordKnown, PlanKnown, BelowLabels, AboveLabels, ResumeLabels
<1> QED
  BY <1>9, QuietKeeps DEF ResumeStart

\* A step of resume that keeps its copy of the record.
LEMMA ResumeGoes ==
    ASSUME Alone, NEW w \in Workers, wk[w].pc \in ResumeLabels \ {"begin_resume"},
           UNCHANGED <<apps, journalVars, planVars>>,
           wk'[w].pc \in ResumeLabels \ {"begin_resume"},
           wk'[w].rec = wk[w].rec, wk'[w].app = wk[w].app
    PROVE  PlanInv'
<1>1. /\ wk[w].app \in Apps /\ apps[wk[w].app] = wk[w].rec /\ RecordKnown(w) /\ PlanKnown(w)
  BY Working, LabelsApart DEF ResumeLabels
<1>2. wk[w].rec.status = "resuming" /\ active = wk[w].app /\ wk[w].rec.rev = active
  BY <1>1 DEF RecordKnown, PlanKnown
<1>3. CommandInv(w)'
  BY <1>1, <1>2 DEF CommandInv, RecordKnown, PlanKnown, BelowLabels, AboveLabels, ResumeLabels, planVars
<1> QED
  BY <1>3, QuietKeeps

LEMMA ResumeWorks ==
    ASSUME Alone, NEW w \in Workers,
           CreateLease(w) \/ StartExecution(w) \/ ExecutionCompletes(w) \/ ExecutionFails(w)
           \/ GatePasses(w) \/ GateRejects(w) \/ SavePublication(w) \/ CompleteLease(w) \/ InvalidateLease(w)
    PROVE  PlanInv'
<1>1. wk[w] \in Worker /\ wk \in [Workers -> Worker]
  BY DEF Alone, Grown, IInv, TypeOK
<1>2. /\ wk[w].pc \in ResumeLabels \ {"begin_resume"}
      /\ UNCHANGED <<apps, journalVars, planVars>>
  BY DEF CreateLease, StartExecution, ExecutionCompletes, ExecutionFails, GatePasses, GateRejects,
     SavePublication, CompleteLease, InvalidateLease, At, ResumeLabels
<1>3. \/ wk'[w].pc = wk[w].pc
      \/ wk'[w].pc \in {"execute", "gate", "publication", "complete", "invalidate"}
  <2>1. CASE CreateLease(w)
    BY <1>1, <2>1 DEF CreateLease, Worker
  <2>2. CASE StartExecution(w)
    BY <1>1, <2>2 DEF StartExecution, Worker
  <2>3. CASE ExecutionCompletes(w) \/ SavePublication(w)
    BY <1>1, <2>3 DEF ExecutionCompletes, SavePublication, Goto, Worker
  <2>4. CASE ExecutionFails(w)
    BY <1>1, <2>4 DEF ExecutionFails, Worker
  <2>5. CASE GatePasses(w)
    BY <1>1, <2>5 DEF GatePasses, Worker
  <2>6. CASE GateRejects(w)
    BY <1>1, <2>6 DEF GateRejects, Worker
  <2>7. CASE CompleteLease(w)
    BY <1>1, <2>7 DEF CompleteLease, Worker
  <2>8. CASE InvalidateLease(w)
    BY <1>1, <2>8 DEF InvalidateLease, Worker
  <2> QED
    BY <2>1, <2>2, <2>3, <2>4, <2>5, <2>6, <2>7, <2>8
<1>4. wk'[w].rec = wk[w].rec /\ wk'[w].app = wk[w].app
  <2>1. CASE CreateLease(w)
    BY <1>1, <2>1 DEF CreateLease, Worker
  <2>2. CASE StartExecution(w)
    BY <1>1, <2>2 DEF StartExecution, Worker
  <2>3. CASE ExecutionCompletes(w) \/ SavePublication(w)
    BY <1>1, <2>3 DEF ExecutionCompletes, SavePublication, Goto, Worker
  <2>4. CASE ExecutionFails(w)
    BY <1>1, <2>4 DEF ExecutionFails, Worker
  <2>5. CASE GatePasses(w)
    BY <1>1, <2>5 DEF GatePasses, Worker
  <2>6. CASE GateRejects(w)
    BY <1>1, <2>6 DEF GateRejects, Worker
  <2>7. CASE CompleteLease(w)
    BY <1>1, <2>7 DEF CompleteLease, Worker
  <2>8. CASE InvalidateLease(w)
    BY <1>1, <2>8 DEF InvalidateLease, Worker
  <2> QED
    BY <2>1, <2>2, <2>3, <2>4, <2>5, <2>6, <2>7, <2>8
<1>5. wk'[w].pc \in ResumeLabels \ {"begin_resume"}
  BY <1>2, <1>3 DEF ResumeLabels
<1> QED
  BY <1>2, <1>4, <1>5, ResumeGoes

\* The last status of a resume.
LEMMA ResumeEnds ==
    ASSUME Alone, NEW w \in Workers, ResumeFinish(w) \/ ResumeFailed(w)
    PROVE  PlanInv'
<1>0. PICK x : x = wk[w].app
  OBVIOUS
<1>1. wk[w].pc \in {"gate", "invalidate"} /\ txn' = txn /\ undo' = undo /\ UNCHANGED planVars
  BY DEF ResumeFinish, ResumeFailed, At, journalVars
<1>2. /\ x \in Apps /\ apps[x] = wk[w].rec /\ wk[w].rec \in AppRecord /\ TypeOK
      /\ AppInv(x) /\ RecordKnown(w)
  BY <1>0, <1>1, Working
<1>3. PICK st : /\ st \in {"resumed", "resume_failed"}
                /\ apps' = [apps EXCEPT ![x] = [wk[w].rec EXCEPT !.status = st]]
  BY <1>0 DEF ResumeFinish, ResumeFailed, SaveStatus
<1> DEFINE new == [wk[w].rec EXCEPT !.status = st]
<1>4. new.status = st /\ new.rev = wk[w].rec.rev
  BY <1>2 DEF AppRecord
<1> HIDE DEF new
<1>5. apps'[x] = new /\ \A a \in Apps \ {x} : apps'[a] = apps[a]
  BY <1>2, <1>3 DEF TypeOK, new
<1>6. InEffect' = InEffect
  BY <1>1, EffectKept DEF Alone, planVars
<1>7. wk[w].rec.status = "resuming"
  BY <1>1, <1>2 DEF RecordKnown, ResumeLabels
<1>8. AppInv(x)'
  BY <1>1, <1>2, <1>3, <1>4, <1>5, <1>6, <1>7 DEF AppInv, AppliedStatuses, LeftStatuses, NotYetStatuses
<1>9. wk'[w].pc = "idle"
  BY <1>2, StopIs DEF ResumeFinish, ResumeFailed, IdleWorker
<1>10. CommandInv(w)'
  BY <1>9 DEF CommandInv, RecordKnown, PlanKnown, BelowLabels, AboveLabels, ResumeLabels
<1> QED
  BY <1>1, <1>5, <1>6, <1>8, <1>10, StepKeeps

LEMMA ResumeKeeps ==
    ASSUME Alone, NEW w \in Workers, Resume(w)
    PROVE  PlanInv'
<1>1. ASSUME ResumePointerMoved(w) PROVE PlanInv'
  BY <1>1, StopKeeps DEF ResumePointerMoved
<1> QED
  BY <1>1, ResumeBegins, PlanTransitions, ResumeWorks, ResumeEnds DEF Resume

-----------------------------------------------------------------------------
(* The steps of rollback *)

LEMMA UndoBegins ==
    ASSUME Alone, NEW w \in Workers, NEW x \in Apps, RollbackStart(w, x)
    PROVE  PlanInv'
<1> DEFINE new == [IdleWorker EXCEPT !.pc = "rollback", !.app = x, !.rec = apps[x]]
<1>1. /\ wk \in [Workers -> Worker] /\ apps' = apps /\ HasRevision(x)
      /\ apps[x].status \in RollbackFrom /\ wk' = [wk EXCEPT ![w] = new]
  BY DEF RollbackStart, Alone, Grown, IInv, TypeOK
<1>2. new.pc = "rollback" /\ new.app = x /\ new.rec = apps[x]
  BY DEF IdleWorker
<1> HIDE DEF new
<1>3. wk'[w] = new
  BY <1>1
<1>4. AppInv(x)
  BY DEF Alone, PlanInv
<1>5. apps[x].status \in {"applied", "resume_pending", "resumed"} /\ apps[x].rev # NoRev
  BY <1>1, <1>4 DEF AppInv, RollbackFrom, HasRevision, AppliedStatuses, LeftStatuses, NotYetStatuses
<1>6. CommandInv(w)'
  BY <1>1, <1>2, <1>3, <1>5 DEF CommandInv, RecordKnown, PlanKnown, BelowLabels, AboveLabels, ResumeLabels
<1> QED
  BY <1>6, QuietKeeps DEF RollbackStart

LEMMA UndoReads ==
    ASSUME Alone, NEW w \in Workers, RollbackReads(w) \/ StaleLease(w) \/ RecheckPointer(w)
    PROVE  PlanInv'
<1>0. PICK x : x = wk[w].app
  OBVIOUS
<1>1. /\ wk[w].pc \in {"rollback", "stale_leases"}
      /\ apps' = apps /\ txn' = txn /\ undo' = undo /\ active' = active
  BY DEF RollbackReads, StaleLease, RecheckPointer, At, planVars, journalVars
<1>2. /\ x \in Apps /\ apps[x] = wk[w].rec /\ TypeOK /\ wk[w] \in Worker
      /\ AppInv(x) /\ RecordKnown(w) /\ PlanKnown(w)
  BY <1>0, <1>1, Working
<1>3. wk \in [Workers -> Worker]
  BY <1>2 DEF TypeOK
<1>4. CASE RollbackReads(w)
  <2>1. wk[w].pc = "rollback" /\ active = wk[w].rec.rev
    BY <1>4 DEF RollbackReads, At, Undoable
  <2>2. wk[w].rec.status \in {"applied", "resume_pending", "resumed"} /\ wk[w].rec.rev # NoRev
    BY <1>2, <2>1 DEF RecordKnown
  <2>3. wk[w].rec.rev = x
    BY <1>2, <2>2 DEF AppInv
  <2>4. wk'[w].pc = "open_undo" /\ wk'[w].rec = wk[w].rec /\ wk'[w].app = x
    BY <1>0, <1>2, <1>3, <1>4 DEF RollbackReads, Worker
  <2>5. CommandInv(w)'
    BY <1>0, <1>1, <1>2, <2>1, <2>2, <2>3, <2>4 DEF CommandInv, RecordKnown, PlanKnown, BelowLabels, AboveLabels,
       ResumeLabels
  <2> QED
    BY <1>4, <2>5, QuietKeeps DEF RollbackReads
<1>5. CASE StaleLease(w)
  <2>1. wk[w].pc = "stale_leases"
    BY <1>5 DEF StaleLease, At
  <2>2. wk'[w].pc = "stale_leases" /\ wk'[w].rec = wk[w].rec /\ wk'[w].app = x
    BY <1>0, <1>2, <1>3, <1>5, <2>1 DEF StaleLease, Worker
  <2>3. CommandInv(w)'
    BY <1>0, <1>1, <1>2, <2>1, <2>2 DEF CommandInv, RecordKnown, PlanKnown, BelowLabels, AboveLabels, ResumeLabels
  <2> QED
    BY <1>5, <2>3, QuietKeeps DEF StaleLease
<1>6. CASE RecheckPointer(w)
  <2>1. wk[w].pc = "stale_leases"
    BY <1>6 DEF RecheckPointer, At
  <2>2. active = wk[w].rec.rev
    BY <1>2, <2>1 DEF PlanKnown
  <2>3. Goto(w, "restore")
    BY <1>6, <2>2 DEF RecheckPointer
  <2>4. wk'[w].pc = "restore" /\ wk'[w].rec = wk[w].rec /\ wk'[w].app = x
    BY <1>0, <1>2, <2>3, GotoIs DEF Same
  <2>5. CommandInv(w)'
    BY <1>0, <1>1, <1>2, <2>1, <2>4 DEF CommandInv, RecordKnown, PlanKnown, BelowLabels, AboveLabels, ResumeLabels
  <2> QED
    BY <1>6, <2>5, QuietKeeps DEF RecheckPointer
<1> QED
  BY <1>4, <1>5, <1>6

LEMMA RollbackLegal ==
    ASSUME NEW st \in {"applied", "resume_pending", "resumed"}
    PROVE  "rolling_back" \in TransitionMap[st]
BY DEF TransitionMap

LEMMA UndoJournals ==
    ASSUME Alone, NEW w \in Workers, OpenUndo(w) \/ JournalUndoDone(w)
    PROVE  PlanInv'
<1>0. PICK x : x = wk[w].app
  OBVIOUS
<1>1. /\ wk[w].pc \in {"open_undo", "undo_done"}
      /\ apps' = apps /\ txn' = txn /\ active' = active
  BY DEF OpenUndo, JournalUndoDone, At, planVars
<1>2. /\ x \in Apps /\ apps[x] = wk[w].rec /\ TypeOK
      /\ AppInv(x) /\ RecordKnown(w) /\ PlanKnown(w)
  BY <1>0, <1>1, Working
<1>3. InEffect' = InEffect
  BY EffectKept DEF Alone, OpenUndo, JournalUndoDone, planVars
<1>4. CASE OpenUndo(w)
  <2>1. wk[w].pc = "open_undo"
    BY <1>4 DEF OpenUndo, At
  <2>2. wk[w].rec.status \in {"applied", "resume_pending", "resumed"} /\ wk[w].rec.rev # NoRev
    BY <1>2, <2>1 DEF RecordKnown
  <2>3. Goto(w, "rolling_back")
    BY <1>4, <2>2, RollbackLegal DEF OpenUndo
  <2>4. undo'[x] = "prepared" /\ \A a \in Apps \ {x} : undo'[a] = undo[a]
    BY <1>0, <1>2, <1>4 DEF OpenUndo, TypeOK
  <2>5. wk'[w].pc = "rolling_back" /\ wk'[w].rec = wk[w].rec /\ wk'[w].app = x
    BY <1>0, <1>2, <2>3, GotoIs DEF Same
  <2>6. AppInv(x)'
    BY <1>1, <1>2, <1>3, <2>2, <2>4 DEF AppInv, AppliedStatuses
  <2>7. CommandInv(w)'
    BY <1>0, <1>1, <1>2, <2>1, <2>2, <2>4, <2>5 DEF CommandInv, RecordKnown, PlanKnown, BelowLabels, AboveLabels,
       ResumeLabels
  <2> QED
    BY <1>1, <1>3, <2>4, <2>6, <2>7, StepKeeps
<1>5. CASE JournalUndoDone(w)
  <2>1. wk[w].pc = "undo_done" /\ Goto(w, "rolled_back")
    BY <1>5 DEF JournalUndoDone, At
  <2>2. wk[w].rec.status = "rolling_back" /\ x \notin InEffect
    BY <1>0, <1>2, <2>1 DEF RecordKnown, PlanKnown
  <2>3. undo'[x] = "rolled_back" /\ \A a \in Apps \ {x} : undo'[a] = undo[a]
    BY <1>0, <1>2, <1>5 DEF JournalUndoDone, TypeOK
  <2>4. wk'[w].pc = "rolled_back" /\ wk'[w].rec = wk[w].rec /\ wk'[w].app = x
    BY <1>0, <1>2, <2>1, GotoIs DEF Same
  <2>5. AppInv(x)'
    BY <1>1, <1>2, <1>3, <2>2, <2>3 DEF AppInv, LeftStatuses
  <2>6. CommandInv(w)'
    BY <1>0, <1>1, <1>2, <1>3, <2>2, <2>3, <2>4 DEF CommandInv, RecordKnown, PlanKnown, BelowLabels, AboveLabels,
       ResumeLabels
  <2> QED
    BY <1>1, <1>3, <2>3, <2>5, <2>6, StepKeeps
<1> QED
  BY <1>4, <1>5

\* The pointer goes back to the parent of the active revision, whose application is being
\* rolled back.
LEMMA PointerPops ==
    ASSUME Alone, NEW w \in Workers, RestorePointer(w)
    PROVE  /\ wk[w].app = active /\ wk[w].rec.status = "rolling_back" /\ undo[wk[w].app] # "none"
           /\ active \in Apps
           /\ InEffect' = InEffect \ {active}
           /\ Lineage[active] = Lineage'[active'] \cup {active}
           /\ Chain[active] = Append(Chain'[active'], active)
<1>1. wk[w].pc = "restore"
  BY DEF RestorePointer, At
<1>2. wk[w].app \in Apps /\ RecordKnown(w) /\ PlanKnown(w)
  BY <1>1, Working
<1>3. /\ active = wk[w].app /\ active = wk[w].rec.rev /\ undo[wk[w].app] # "none"
      /\ wk[w].rec.status = "rolling_back"
  BY <1>1, <1>2 DEF RecordKnown, PlanKnown
<1>4. active' = revs[active].parent
  BY <1>3 DEF RestorePointer
<1>5. active # Root
  BY <1>2, <1>3, RevsAndApps
<1> QED
  BY <1>2, <1>3, <1>4, <1>5, EffectPopped DEF Alone

LEMMA UndoRestores ==
    ASSUME Alone, NEW w \in Workers, RestorePointer(w)
    PROVE  PlanInv'
<1>0. PICK x : x = wk[w].app
  OBVIOUS
<1>1. wk[w].pc = "restore" /\ apps' = apps /\ txn' = txn /\ undo' = undo
  BY DEF RestorePointer, At, journalVars
<1>2. /\ x \in Apps /\ apps[x] = wk[w].rec /\ TypeOK
      /\ AppInv(x) /\ RecordKnown(w) /\ PlanKnown(w)
  BY <1>0, <1>1, Working
<1>3. InEffect' = InEffect \ {x} /\ wk[w].rec.status = "rolling_back" /\ undo[x] # "none"
  BY <1>0, PointerPops
<1>4. wk'[w].pc = "undo_done" /\ wk'[w].rec = wk[w].rec /\ wk'[w].app = x
  BY <1>0, <1>2, GotoIs DEF RestorePointer, Same
<1>5. AppInv(x)'
  BY <1>1, <1>2, <1>3 DEF AppInv, AppliedStatuses, LeftStatuses, NotYetStatuses
<1>6. CommandInv(w)'
  BY <1>0, <1>1, <1>2, <1>3, <1>4 DEF CommandInv, RecordKnown, PlanKnown, BelowLabels, AboveLabels, ResumeLabels
<1> QED
  BY <1>1, <1>3, <1>5, <1>6, StepKeeps

LEMMA UndoRetargets ==
    ASSUME Alone, NEW w \in Workers, RetargetRecord(w)
    PROVE  PlanInv'
<1>0. PICK x : x = wk[w].app
  OBVIOUS
<1>1. wk[w].pc = "retarget" /\ txn' = txn /\ undo' = undo
  BY DEF RetargetRecord, At, journalVars
<1>2. /\ x \in Apps /\ apps[x] = wk[w].rec /\ wk[w].rec \in AppRecord /\ TypeOK
      /\ AppInv(x) /\ RecordKnown(w) /\ WorkerInv(w)
  BY <1>0, <1>1, Working
<1> DEFINE up == revs[wk[w].rec.rev].parent
           new == [wk[w].rec EXCEPT !.rev = up]
<1>3. up \in published /\ up # NoRev
  <2>1. wk[w].rec.rev \in published \ {Root}
    BY <1>1, <1>2 DEF WorkerInv, RollbackLabels
  <2>2. up \in published /\ published \subseteq Revs
    BY <1>2, <2>1 DEF Alone, Grown, IInv, RevisionStoreSound, TypeOK
  <2> QED
    BY <2>2, RevsAndApps
<1>4. new.status = wk[w].rec.status /\ new.rev = up
  BY <1>2 DEF AppRecord
<1>5. apps' = [apps EXCEPT ![x] = new]
  BY <1>0 DEF RetargetRecord
<1> HIDE DEF up, new
<1>6. apps'[x] = new /\ \A a \in Apps \ {x} : apps'[a] = apps[a]
  BY <1>2, <1>5 DEF TypeOK
<1>7. InEffect' = InEffect
  BY EffectKept DEF RetargetRecord, Alone, planVars
<1>8. wk[w].rec.status = "rolled_back"
  BY <1>1, <1>2 DEF RecordKnown
<1>9. AppInv(x)'
  BY <1>1, <1>2, <1>3, <1>4, <1>6, <1>7, <1>8 DEF AppInv
<1>10. wk'[w].pc = "idle"
  BY <1>2, StopIs DEF RetargetRecord, IdleWorker
<1>11. CommandInv(w)'
  BY <1>10 DEF CommandInv, RecordKnown, PlanKnown, BelowLabels, AboveLabels, ResumeLabels
<1> QED
  BY <1>1, <1>6, <1>7, <1>9, <1>11, StepKeeps

\* With one command at a time the second pointer check of a rollback always passes.
LEMMA UndoNeverFails ==
    ASSUME Alone, NEW w \in Workers
    PROVE  ~JournalUndoFailed(w) /\ ~RollbackFailed(w)
BY DEF Alone, PlanInv, CommandInv, JournalUndoFailed, RollbackFailed, At

LEMMA UndoKeeps ==
    ASSUME Alone, NEW w \in Workers, Rollback(w)
    PROVE  PlanInv'
<1>1. ASSUME RollbackRefused(w) PROVE PlanInv'
  BY <1>1, StopKeeps DEF RollbackRefused
<1> QED
  BY <1>1, UndoBegins, UndoReads, UndoJournals, PlanTransitions, UndoRestores, UndoRetargets, UndoNeverFails
     DEF Rollback

-----------------------------------------------------------------------------
(* The steps of recover *)

\* The journal keeps the plan checksum only while it is prepared: recover finds nothing but
\* applications to fail.
LEMMA RecoverFails ==
    ASSUME PlanInv, NEW a \in Apps
    PROVE  ~PointerPending(a) /\ ~StatusPending(a)
<1>1. AppInv(a)
  BY DEF PlanInv
<1> QED
  BY <1>1 DEF AppInv, PointerPending, StatusPending, PlanSumMatches

LEMMA RecoverReads ==
    ASSUME Alone, NEW w \in Workers, RecoverScan(w)
    PROVE  PlanInv'
<1> DEFINE fixes == [kind: {"fail"}, app: {a \in Apps : Interrupted(a)}]
                    \cup [kind: {"point"}, app: {a \in Apps : PointerPending(a)}]
                    \cup [kind: {"finish"}, app: {a \in Apps : StatusPending(a)}]
           new == [IdleWorker EXCEPT !.pc = "recover", !.fix = fixes]
<1>1. wk \in [Workers -> Worker] /\ wk' = [wk EXCEPT ![w] = new] /\ apps' = apps /\ txn' = txn
  BY DEF RecoverScan, Alone, Grown, IInv, TypeOK, journalVars
<1>2. \A f \in fixes : f.kind = "fail" /\ Interrupted(f.app)
  <2>1. \A a \in Apps : ~PointerPending(a) /\ ~StatusPending(a)
    BY RecoverFails DEF Alone
  <2> QED
    BY <2>1
<1> HIDE DEF fixes
<1>3. new.pc = "recover" /\ new.fix = fixes
  BY DEF IdleWorker
<1> HIDE DEF new
<1>4. wk'[w].pc = "recover" /\ wk'[w].fix = fixes
  BY <1>1, <1>3
<1>5. \A f \in wk'[w].fix : f.kind = "fail" /\ Interrupted(f.app)'
  BY <1>1, <1>2, <1>4 DEF Interrupted
<1>6. CommandInv(w)'
  BY <1>4, <1>5 DEF CommandInv, RecordKnown, PlanKnown, BelowLabels, AboveLabels, ResumeLabels
<1> QED
  BY <1>6, QuietKeeps DEF RecoverScan

LEMMA RecoverRepairs ==
    ASSUME Alone, NEW w \in Workers, RecoverWrite(w)
    PROVE  PlanInv'
<1>1. /\ wk[w].pc = "recover" /\ wk[w] \in Worker /\ wk \in [Workers -> Worker]
      /\ apps \in [Apps -> AppRecord] /\ CommandInv(w) /\ txn' = txn /\ undo' = undo
  BY DEF RecoverWrite, At, Alone, Grown, IInv, TypeOK, PlanInv, journalVars
<1>2. PICK f \in wk[w].fix :
         /\ active' = IF f.kind = "point" THEN f.app ELSE active
         /\ apps' = IF f.kind = "point" THEN apps ELSE [apps EXCEPT ![f.app] = Repaired(f)]
         /\ wk' = [wk EXCEPT ![w].fix = @ \ {f}]
  BY DEF RecoverWrite
<1>3. f.kind = "fail" /\ Interrupted(f.app) /\ f \in Fixes /\ f.app \in Apps
  BY <1>1, <1>2 DEF CommandInv, Worker, Fixes
<1>0. PICK x : x = f.app
  OBVIOUS
<1>4. active' = active /\ apps' = [apps EXCEPT ![x] = Repaired(f)]
  BY <1>0, <1>2, <1>3
<1>5. Repaired(f).status = "application_validation_failed" /\ Repaired(f).rev = NoRev
  BY <1>1, <1>3 DEF Repaired, AppRecord
<1>6. apps'[x] = Repaired(f) /\ \A a \in Apps \ {x} : apps'[a] = apps[a]
  BY <1>0, <1>1, <1>3, <1>4
<1>7. InEffect' = InEffect
  BY <1>4, EffectKept DEF Alone
<1>8. AppInv(x)
  BY <1>0, <1>3 DEF Alone, PlanInv
<1>9. AppInv(x)'
  BY <1>0, <1>1, <1>3, <1>5, <1>6, <1>7, <1>8 DEF AppInv, Interrupted, UnpublishedPhases, AppliedStatuses,
     LeftStatuses, NotYetStatuses, Published, Pointed, Recorded
<1>10. wk'[w].pc = "recover" /\ wk'[w].fix = wk[w].fix \ {f}
  BY <1>1, <1>2 DEF Worker
<1>11. ASSUME NEW g \in wk'[w].fix PROVE g.kind = "fail" /\ Interrupted(g.app)'
  <2>1. g \in wk[w].fix /\ g # f /\ g.kind = "fail" /\ Interrupted(g.app) /\ g \in Fixes /\ g.app \in Apps
    BY <1>1, <1>10 DEF CommandInv, Worker, Fixes
  <2>2. g.app # x
    BY <1>0, <1>3, <2>1 DEF Fixes
  <2>3. apps'[g.app] = apps[g.app] /\ txn'[g.app] = txn[g.app]
    BY <1>1, <1>6, <2>1, <2>2
  <2> QED
    BY <2>1, <2>3 DEF Interrupted
<1>12. CommandInv(w)'
  BY <1>10, <1>11 DEF CommandInv, RecordKnown, PlanKnown, BelowLabels, AboveLabels, ResumeLabels
<1> QED
  BY <1>1, <1>6, <1>7, <1>9, <1>12, StepKeeps

LEMMA RecoverKeeps ==
    ASSUME Alone, NEW w \in Workers, Recover(w)
    PROVE  PlanInv'
<1>1. ASSUME RecoverDone(w) PROVE PlanInv'
  BY <1>1, StopKeeps DEF RecoverDone
<1> QED
  BY <1>1, RecoverReads, RecoverRepairs DEF Recover

-----------------------------------------------------------------------------
(* The record of an application and the plan in effect *)

LEMMA PlanInit == Init => PlanInv
<1> SUFFICES ASSUME Init PROVE PlanInv
  OBVIOUS
<1>1. IInv
  BY InitInv
<1>2. Unwritten
  BY DEF Init, Unwritten
<1>3. InEffect = {}
  <2>1. LineageIs
    BY <1>1, <1>2, StoreParented, LineageDefined DEF IInv, TypeOK
  <2>2. active = Root /\ Root \in Revs /\ revs[Root].parent = NoRev
    BY RevsAndApps DEF Init, NoRevision
  <2> QED
    BY <2>1, <2>2 DEF LineageIs, InEffect
<1>4. ASSUME NEW a \in Apps PROVE AppInv(a)
  BY <1>3 DEF Init, AppInv, NoApp, NoTxn, AppliedStatuses, LeftStatuses, NotYetStatuses, Published, Pointed, Recorded
<1>5. ASSUME NEW w \in Workers PROVE CommandInv(w)
  BY DEF Init, IdleWorker, CommandInv, RecordKnown, PlanKnown, BelowLabels, AboveLabels, ResumeLabels
<1> QED
  BY <1>2, <1>4, <1>5 DEF PlanInv

Files == IInv /\ OrderInv /\ PlanInv

LEMMA StepAlone ==
    ASSUME OneAtATime, Files, [Next]_vars
    PROVE  Alone
<1>1. IInv'
  BY NextInv DEF Files
<1>2. Unwritten' /\ \A r \in published : revs'[r] = revs[r]
  BY StoreGrows DEF Files, PlanInv
<1> QED
  BY <1>1, <1>2 DEF Alone, Grown, Files, PlanInv

LEMMA PlanNext ==
    ASSUME OneAtATime, Files, [Next]_vars
    PROVE  PlanInv'
<1>1. Alone
  BY StepAlone
<1>2. ASSUME NEW w \in Workers, \E q \in Requests : ImportResponse(w, q)
      PROVE  PlanInv'
  <2>1. wk' = wk /\ UNCHANGED <<apps, journalVars, planVars>>
    BY <1>2 DEF ImportResponse
  <2>2. CommandInv(w)'
    <3>1. wk[w].pc = "idle"
      BY <1>2 DEF ImportResponse, At
    <3> QED
      BY <2>1, <3>1 DEF CommandInv, RecordKnown, PlanKnown, BelowLabels, AboveLabels, ResumeLabels
  <2> QED
    BY <1>1, <2>1, <2>2, QuietKeeps
<1>3. ASSUME NEW w \in Workers, Crash(w) \/ OutOfIds(w)
      PROVE  PlanInv'
  BY <1>1, <1>3, StopKeeps DEF Crash, OutOfIds
<1>4. CASE UNCHANGED vars
  <2>1. UNCHANGED <<apps, txn, undo, published, revs, active, wk>> /\ InEffect' = InEffect
    BY <1>1, <1>4, EffectKept DEF vars, Alone
  <2> QED
    BY <2>1 DEF Files, PlanInv, Unwritten, AppInv, CommandInv, RecordKnown, PlanKnown, Interrupted
<1> QED
  BY <1>1, <1>2, <1>3, <1>4, PlanApplies, ResumeKeeps, UndoKeeps, RecoverKeeps DEF Next

LEMMA FilesInvariance == ASSUME OneAtATime PROVE Spec => []Files
<1>1. Init => Files
  BY InitInv, OrderInit, PlanInit DEF Files
<1>2. Files /\ [Next]_vars => Files'
  BY NextInv, OrderNext, PlanNext DEF Files
<1> QED
  BY <1>1, <1>2, PTL DEF Spec

\* No crash and no recovery leaves a revision active whose application says it failed, or an
\* application recorded as applied whose revision is not in the plan in effect, when the
\* commands run one after the other: each may die between any two of its file writes.
THEOREM RecordsMatch == ASSUME OneAtATime PROVE Spec => []RecordMatchesPlan
<1>1. Files => RecordMatchesPlan
  <2> SUFFICES ASSUME Files PROVE RecordMatchesPlan
    OBVIOUS
  <2>1. \A a \in Apps : AppInv(a)
    BY DEF Files, PlanInv
  <2>2. \A a \in InEffect : a \in Apps
    BY EffectIs DEF Files, PlanInv
  <2> QED
    BY <2>1, <2>2 DEF AppInv, RecordMatchesPlan, AppliedStatuses
<1> QED
  BY <1>1, FilesInvariance, PTL

\* The journal never runs ahead of the files: what it says of the pointer, of the record and
\* of a rollback has happened.
THEOREM JournalBehindFiles == ASSUME OneAtATime PROVE Spec => []JournalNeverAhead
<1>1. Files => JournalNeverAhead
  BY DEF Files, PlanInv, AppInv, JournalNeverAhead
<1> QED
  BY <1>1, FilesInvariance, PTL

-----------------------------------------------------------------------------
(* The stack of revisions *)

Used == Lineage[active] \cup {a \in Apps : txn[a].phase \in Pointed}

LEMMA StackQuiet ==
    ASSUME Alone, active' = active,
           \A a \in Apps : a \in InEffect \/ (txn'[a].phase \in Pointed <=> txn[a].phase \in Pointed)
    PROVE  Chain'[active'] = Chain[active] /\ Used' = Used
<1>1. Chain'[active'] = Chain[active] /\ Lineage'[active'] = Lineage[active]
  BY EffectKept DEF Alone
<1>2. \A a \in Apps : a \in Lineage[active] \/ (txn'[a].phase \in Pointed <=> txn[a].phase \in Pointed)
  BY DEF InEffect
<1> QED
  BY <1>1, <1>2 DEF Used

LEMMA StackPush ==
    ASSUME Alone, NEW w \in Workers, SetPointer(w)
    PROVE  \E r \in 1..MaxApps : Stack!Push(r)
<1>0. PICK x : x = wk[w].app
  OBVIOUS
<1>1. /\ x \in Apps /\ x \notin InEffect /\ txn[x].phase = "revision_published"
      /\ Lineage'[active'] = Lineage[active] \cup {x} /\ Chain'[active'] = Append(Chain[active], x)
  BY <1>0, PointerPushes
<1>2. x # Root /\ x \in 1..MaxApps
  BY <1>1, RevsAndApps DEF Apps
<1>3. x \notin Used
  BY <1>1, <1>2 DEF Used, InEffect, Pointed, Published
<1>4. Used' = Used \cup {x}
  BY <1>1 DEF Used, SetPointer, journalVars
<1> QED
  BY <1>1, <1>2, <1>3, <1>4 DEF Stack!Push, Used

LEMMA FrontOfAppend ==
    ASSUME NEW S, NEW s \in Seq(S), NEW e \in S, Len(s) > 0
    PROVE  /\ Len(Append(s, e)) > 1
           /\ SubSeq(Append(s, e), 1, Len(Append(s, e)) - 1) = s
OBVIOUS

LEMMA StackPop ==
    ASSUME Alone, NEW w \in Workers, RestorePointer(w)
    PROVE  Stack!Pop
<1>1. /\ wk[w].app = active /\ wk[w].rec.status = "rolling_back" /\ active \in Apps
      /\ Lineage[active] = Lineage'[active'] \cup {active}
      /\ Chain[active] = Append(Chain'[active'], active)
  BY PointerPops
<1>2. wk[w].pc = "restore" /\ txn' = txn
  BY DEF RestorePointer, At, journalVars
<1>3. AppInv(active) /\ apps[active].status = "rolling_back"
  BY <1>1, <1>2, Working
<1>4. txn[active].phase \in Pointed
  BY <1>3 DEF AppInv, LeftStatuses
<1>5. Used' = Used
  BY <1>1, <1>2, <1>4 DEF Used
<1>6. Chain'[active'] \in Seq(Revs) /\ Len(Chain'[active']) > 0
  <2>1. PlanKnown(w)
    BY <1>2, Working
  <2>2. active' = revs[active].parent /\ active # Root
    BY <1>1, <1>2, <2>1, RevsAndApps DEF RestorePointer, PlanKnown
  <2>3. active' \in published
    BY <2>2 DEF Alone, Grown, IInv, RevisionStoreSound
  <2>4. Chain'[active'] = Chain[active']
    BY <2>3, LineageStays DEF Alone
  <2> QED
    BY <2>3, <2>4, ChainSound DEF Alone, Grown, IInv, TypeOK
<1> DEFINE below == Chain'[active']
<1>7. active \in Revs
  BY <1>1, RevsAndApps
<1>8. /\ Len(Append(below, active)) > 1
      /\ SubSeq(Append(below, active), 1, Len(Append(below, active)) - 1) = below
  BY <1>6, <1>7, FrontOfAppend
<1> HIDE DEF below
<1>9. /\ Len(Chain[active]) > 1
      /\ SubSeq(Chain[active], 1, Len(Chain[active]) - 1) = Chain'[active']
  BY <1>1, <1>8 DEF below
<1> QED
  BY <1>5, <1>9 DEF Stack!Pop, Used

\* A command whose application has the active revision.
LEMMA OnTop ==
    ASSUME Alone, NEW w \in Workers, wk[w].pc \in AboveLabels
    PROVE  wk[w].app \in InEffect
<1>1. wk[w].app \in Apps /\ PlanKnown(w)
  BY Working DEF AboveLabels
<1>2. active = wk[w].app
  BY <1>1 DEF PlanKnown
<1> QED
  BY <1>1, <1>2, EffectIs, RevsAndApps DEF Alone, Grown

\* A journal entry makes no difference to what was ever pushed.
LEMMA StackJournals ==
    ASSUME Alone, NEW w \in Workers,
           OpenTransaction(w) \/ JournalPrepared(w) \/ JournalWritten(w) \/ GraphAccepted(w)
           \/ JournalPublished(w) \/ JournalPointer(w) \/ JournalUpdated(w) \/ JournalAudited(w) \/ Commit(w)
    PROVE  Chain'[active'] = Chain[active] /\ Used' = Used
<1> USE DEF At
<1>0. PICK x : x = wk[w].app
  OBVIOUS
<1>1. /\ wk[w].pc \in {"open_txn", "prepared", "written", "validate", "published"} \cup AboveLabels
      /\ active' = active
  BY DEF OpenTransaction, JournalPrepared, JournalWritten, GraphAccepted, JournalPublished, JournalPointer,
     JournalUpdated, JournalAudited, Commit, Journal, AboveLabels, planVars
<1>2. x \in Apps /\ PlanKnown(w) /\ TypeOK
  BY <1>0, <1>1, Working DEF AboveLabels
<1>3. \A a \in Apps \ {x} : txn'[a] = txn[a]
  BY <1>0, <1>2 DEF OpenTransaction, JournalPrepared, JournalWritten, GraphAccepted, JournalPublished,
     JournalPointer, JournalUpdated, JournalAudited, Commit, Journal, SavePhase, TypeOK
<1>4. CASE wk[w].pc \in AboveLabels
  <2>1. x \in InEffect
    BY <1>0, <1>4, OnTop
  <2> QED
    BY <1>1, <1>3, <2>1, StackQuiet
<1>5. CASE wk[w].pc \in {"open_txn", "prepared", "written", "validate", "published"}
  <2>1. txn[x].phase \notin Pointed
    BY <1>0, <1>2, <1>5 DEF PlanKnown, BelowLabels
  <2>2. txn'[x].phase \notin Pointed
    <3>1. txn[x] \in Transaction /\ txn \in [Apps -> Transaction]
      BY <1>2 DEF TypeOK
    <3>2. CASE OpenTransaction(w)
      BY <1>0, <1>2, <3>1, <3>2 DEF OpenTransaction, Pointed, Published
    <3>3. ASSUME NEW from, NEW phase, NEW next, Journal(w, from, phase, next),
                 phase \in {"prepared", "revision_written", "revision_validated", "revision_published"}
          PROVE  txn'[x].phase \notin Pointed
      <4>1. SavePhase(w, phase) /\ UNCHANGED <<apps, undo, planVars>>
        BY <3>3 DEF Journal, planVars
      <4>2. txn'[x].phase = phase
        BY <1>0, <1>5, <4>1, JournalDoes
      <4> QED
        BY <3>3, <4>2 DEF Pointed, Published
    <3> QED
      BY <1>5, <3>2, <3>3 DEF JournalPrepared, JournalWritten, GraphAccepted, JournalPublished, JournalPointer,
         JournalUpdated, JournalAudited, Commit, Journal
  <2> QED
    BY <1>1, <1>3, <2>1, <2>2, StackQuiet
<1> QED
  BY <1>1, <1>4, <1>5

LEMMA StackStep ==
    ASSUME OneAtATime, Files, [Next]_vars
    PROVE  Stack!Next \/ (Chain'[active'] = Chain[active] /\ Used' = Used)
<1> DEFINE Stays == Chain'[active'] = Chain[active] /\ Used' = Used
<1>1. Alone
  BY StepAlone
<1>2. ASSUME txn' = txn, active' = active PROVE Stays
  BY <1>1, <1>2, StackQuiet
<1>3. ASSUME NEW w \in Workers, Apply(w) PROVE Stack!Next \/ Stays
  <2>1. CASE SetPointer(w)
    BY <1>1, <2>1, StackPush DEF Stack!Next
  <2>2. CASE OpenTransaction(w) \/ JournalPrepared(w) \/ JournalWritten(w) \/ GraphAccepted(w)
             \/ JournalPublished(w) \/ JournalPointer(w) \/ JournalUpdated(w) \/ JournalAudited(w) \/ Commit(w)
    BY <1>1, <2>2, StackJournals
  <2>3. CASE (\E q \in Requests : PlanApply(w, q)) \/ SavePlan(w) \/ ReadyToApply(w) \/ BeginApplying(w)
             \/ GraphRejected(w) \/ PublishRevision(w) \/ PointerUnchanged(w) \/ PointerMoved(w)
             \/ MarkApplied(w) \/ FinalizeRecord(w) \/ OfferResume(w)
    BY <1>2, <2>3 DEF PlanApply, SavePlan, ReadyToApply, BeginApplying, GraphRejected, PublishRevision,
       PointerUnchanged, PointerMoved, MarkApplied, FinalizeRecord, OfferResume, planVars, journalVars
  <2> QED
    BY <1>3, <2>1, <2>2, <2>3 DEF Apply
<1>4. ASSUME NEW w \in Workers, Resume(w) PROVE Stays
  BY <1>2, <1>4 DEF Resume, ResumeStart, BeginResume, CreateLease, StartExecution, ResumePointerMoved,
     ExecutionCompletes, ExecutionFails, GatePasses, GateRejects, SavePublication, CompleteLease, ResumeFinish,
     InvalidateLease, ResumeFailed, planVars, journalVars
<1>5. ASSUME NEW w \in Workers, Rollback(w) PROVE Stack!Next \/ Stays
  <2>1. CASE RestorePointer(w)
    BY <1>1, <2>1, StackPop DEF Stack!Next
  <2>2. CASE ~RestorePointer(w)
    BY <1>2, <1>5, <2>2 DEF Rollback, RollbackStart, RollbackReads, RollbackRefused, OpenUndo, BeginRollback,
       StaleLease, RecheckPointer, JournalUndoFailed, RollbackFailed, JournalUndoDone, MarkRolledBack,
       RetargetRecord, planVars, journalVars
  <2> QED
    BY <2>1, <2>2
<1>6. ASSUME NEW w \in Workers, Recover(w) PROVE Stays
  <2>1. CASE RecoverWrite(w)
    <3>1. \A f \in wk[w].fix : f.kind = "fail"
      BY <1>1, <2>1 DEF Alone, PlanInv, CommandInv, RecoverWrite, At
    <3> QED
      BY <1>2, <2>1, <3>1 DEF RecoverWrite, journalVars
  <2>2. CASE ~RecoverWrite(w)
    BY <1>2, <1>6, <2>2 DEF Recover, RecoverScan, RecoverDone, planVars, journalVars
  <2> QED
    BY <2>1, <2>2
<1>7. ASSUME NEW w \in Workers, (\E q \in Requests : ImportResponse(w, q)) \/ Crash(w) \/ OutOfIds(w)
      PROVE  Stays
  BY <1>2, <1>7 DEF ImportResponse, Crash, OutOfIds, planVars, journalVars
<1>8. CASE UNCHANGED vars
  BY <1>2, <1>8 DEF vars
<1> QED
  BY <1>3, <1>4, <1>5, <1>6, <1>7, <1>8 DEF Next

LEMMA StackInit == Init => Stack!Init
<1> SUFFICES ASSUME Init PROVE Stack!Init
  OBVIOUS
<1>1. IInv /\ PlanInv
  BY InitInv, PlanInit
<1>2. LineageIs /\ ChainIs
  BY <1>1, StoreParented, LineageDefined, ChainDefined DEF IInv, TypeOK, PlanInv
<1>3. active = Root /\ Root \in Revs /\ revs[Root].parent = NoRev
  BY RevsAndApps DEF Init, NoRevision
<1>4. Lineage[active] = {0} /\ Chain[active] = <<0>>
  BY <1>2, <1>3 DEF LineageIs, ChainIs, Root
<1>5. {a \in Apps : txn[a].phase \in Pointed} = {}
  BY DEF Init, NoTxn, Pointed, Published
<1> QED
  BY <1>4, <1>5 DEF Stack!Init

\* One command at a time, apply and rollback work on a stack of revisions, whatever dies
\* between two file writes: an apply pushes one fresh revision built on the top, a rollback
\* pops that revision, nothing else changes which plan is in effect (_apply_plan, rollback,
\* recover).
THEOREM StackOfRevisions == ASSUME OneAtATime PROVE Spec => ImplementsRevisionStack
<1>1. Init => Stack!Init
  BY StackInit
<1>2. Files /\ [Next]_vars =>
          [Stack!Next]_<<Chain[active], Lineage[active] \cup {a \in Apps : txn[a].phase \in Pointed}>>
  BY StackStep DEF Used
<1>3. Spec => Stack!Init
              /\ [][Stack!Next]_<<Chain[active], Lineage[active] \cup {a \in Apps : txn[a].phase \in Pointed}>>
  BY <1>1, <1>2, FilesInvariance, PTL DEF Spec
<1> QED
  BY <1>3, PTL DEF ImplementsRevisionStack, Stack!Spec

-----------------------------------------------------------------------------
(* The results of a resume *)

\* The statuses an application has once its resume began.
BegunStatuses == {"resuming", "resumed", "resume_failed"} \cup LeftStatuses

\* The tasks of a revision that have a completed lease and its result.
Done(a) == {t \in Tasks : \E l \in pubs :
               leases[l].rev = a /\ leases[l].task = t /\ leases[l].state = "completed"}

\* A task of a revision has one lease, which its resume created.
LeaseUnique ==
    /\ \A l, m \in LeaseIds :
          (leases[l].rev # Root /\ leases[l].rev = leases[m].rev /\ leases[l].task = leases[m].task) => l = m
    /\ \A l \in LeaseIds : leases[l].rev # Root => apps[leases[l].rev].status \in BegunStatuses
    /\ \A a \in Apps : apps[a].status = "resumed" => revs[a].ready \subseteq Done(a)

\* The tasks a resume has still to lease or to publish, and the leases of the command.
HoldingLabels == ResumeLabels \cup {"open_undo", "rolling_back", "stale_leases"}
ResumeKnown(w) ==
    /\ wk[w].pc = "lease" => \A l \in LeaseIds :
          leases[l].rev = wk[w].rec.rev => leases[l].task \notin wk[w].todo
    /\ wk[w].pc = "execute" => wk[w].todo = revs[wk[w].rec.rev].ready
    /\ wk[w].pc = "gate" => revs[wk[w].rec.rev].ready \subseteq wk[w].todo \cup Done(wk[w].rec.rev)
    /\ wk[w].pc \in {"publication", "complete"} =>
          /\ leases[wk[w].lease].rev = wk[w].rec.rev
          /\ revs[wk[w].rec.rev].ready \subseteq
                wk[w].todo \cup Done(wk[w].rec.rev) \cup {leases[wk[w].lease].task}
    /\ wk[w].pc \in HoldingLabels => \A l \in wk[w].mine : leases[l].rev = wk[w].rec.rev

ResumptionInv == LeaseUnique /\ \A w \in Workers : ResumeKnown(w)

LEMMA NotHolding ==
    ASSUME NEW w \in Workers, wk[w].pc \notin HoldingLabels
    PROVE  ResumeKnown(w)
BY DEF ResumeKnown, HoldingLabels, ResumeLabels

\* No resume begins or ends in this step.
StatusesKept ==
    \A a \in Apps : /\ apps[a].status \in BegunStatuses => apps'[a].status \in BegunStatuses
                    /\ apps'[a].status = "resumed" => apps[a].status = "resumed"

LEMMA TransitionStatuses ==
    ASSUME Alone, NEW w \in Workers,
           ReadyToApply(w) \/ BeginApplying(w) \/ MarkApplied(w) \/ OfferResume(w)
           \/ BeginResume(w) \/ BeginRollback(w) \/ MarkRolledBack(w)
    PROVE  StatusesKept
<1> USE DEF At
<1>0. PICK x : x = wk[w].app
  OBVIOUS
<1>1. wk[w].pc \notin {"idle", "save_plan", "recover"}
  BY DEF ReadyToApply, BeginApplying, MarkApplied, OfferResume, BeginResume, BeginRollback, MarkRolledBack
<1>2. x \in Apps /\ apps[x] = wk[w].rec /\ RecordKnown(w)
  BY <1>0, <1>1, Working
<1>3. PICK st, next :
         /\ Transition(w, st, next) /\ UNCHANGED <<journalVars, planVars>>
         /\ st # "resumed" /\ (apps[x].status \in BegunStatuses => st \in BegunStatuses)
  <2>1. CASE ReadyToApply(w)
    BY <1>2, <2>1 DEF ReadyToApply, RecordKnown, BegunStatuses, LeftStatuses
  <2>2. CASE BeginApplying(w)
    BY <1>2, <2>2 DEF BeginApplying, RecordKnown, BegunStatuses, LeftStatuses
  <2>3. CASE MarkApplied(w)
    BY <1>2, <2>3 DEF MarkApplied, RecordKnown, BegunStatuses, LeftStatuses
  <2>4. CASE OfferResume(w)
    BY <1>2, <2>4 DEF OfferResume, RecordKnown, BegunStatuses, LeftStatuses
  <2>5. CASE BeginResume(w)
    BY <1>2, <2>5 DEF BeginResume, BegunStatuses, LeftStatuses
  <2>6. CASE BeginRollback(w)
    BY <1>2, <2>6 DEF BeginRollback, BegunStatuses, LeftStatuses
  <2>7. CASE MarkRolledBack(w)
    BY <1>2, <2>7 DEF MarkRolledBack, BegunStatuses, LeftStatuses
  <2> QED
    BY <2>1, <2>2, <2>3, <2>4, <2>5, <2>6, <2>7
<1>4. apps'[x].status = st /\ \A a \in Apps \ {x} : apps'[a] = apps[a]
  BY <1>0, <1>1, <1>3, TransitionDoes
<1> QED
  BY <1>2, <1>3, <1>4 DEF StatusesKept

\* An application record that is replaced by one of another status.
LEMMA RecordStatuses ==
    ASSUME Alone, NEW x \in Apps, NEW r, apps' = [apps EXCEPT ![x] = r], r.status # "resumed",
           apps[x].status \in BegunStatuses => r.status \in BegunStatuses
    PROVE  StatusesKept
<1>1. apps \in [Apps -> AppRecord]
  BY DEF Alone, Grown, IInv, TypeOK
<1>2. apps'[x] = r /\ \A a \in Apps \ {x} : apps'[a] = apps[a]
  BY <1>1
<1> QED
  BY <1>2 DEF StatusesKept

LEMMA RecordsStatuses ==
    ASSUME Alone, NEW w \in Workers,
           SavePlan(w) \/ FinalizeRecord(w) \/ ResumeFailed(w) \/ RetargetRecord(w) \/ RecoverWrite(w)
    PROVE  StatusesKept
<1> USE DEF At
<1>1. apps \in [Apps -> AppRecord] /\ CommandInv(w) /\ wk[w] \in Worker
  BY DEF Alone, PlanInv, Grown, IInv, TypeOK
<1>2. CASE SavePlan(w)
  <2>1. PICK x \in Apps : (apps[x].status = "none" <=> (x >= x)) /\ apps' = [apps EXCEPT ![x] = wk[w].rec]
    BY <1>2 DEF SavePlan
  <2>2. apps[x].status = "none"
    <3>1. x >= x
      BY RevsAndApps
    <3> QED
      BY <2>1, <3>1
  <2>3. wk[w].rec.status = "application_planned"
    BY <1>1, <1>2 DEF CommandInv, RecordKnown, SavePlan
  <2> QED
    BY <2>1, <2>2, <2>3, RecordStatuses DEF BegunStatuses, LeftStatuses
<1>3. CASE FinalizeRecord(w)
  <2> DEFINE x == wk[w].app
             r == [wk[w].rec EXCEPT !.rev = x, !.eligible = (revs[x].ready # {})]
  <2>1. /\ wk[w].pc = "finalize" /\ x \in Apps /\ apps[x] = wk[w].rec /\ wk[w].rec \in AppRecord
        /\ RecordKnown(w)
    BY <1>3, Working DEF FinalizeRecord
  <2>2. apps' = [apps EXCEPT ![x] = r]
    BY <1>3 DEF FinalizeRecord
  <2>3. r.status = wk[w].rec.status /\ wk[w].rec.status = "applied"
    BY <2>1 DEF AppRecord, RecordKnown
  <2> HIDE DEF x, r
  <2> QED
    BY <2>1, <2>2, <2>3, RecordStatuses DEF BegunStatuses, LeftStatuses
<1>4. CASE ResumeFailed(w)
  <2> DEFINE x == wk[w].app
             r == [wk[w].rec EXCEPT !.status = "resume_failed"]
  <2>1. x \in Apps /\ wk[w].rec \in AppRecord
    BY <1>4, Working DEF ResumeFailed
  <2>2. apps' = [apps EXCEPT ![x] = r] /\ r.status = "resume_failed"
    BY <1>4, <2>1 DEF ResumeFailed, SaveStatus, AppRecord
  <2> HIDE DEF x, r
  <2> QED
    BY <2>1, <2>2, RecordStatuses DEF BegunStatuses
<1>5. CASE RetargetRecord(w)
  <2> DEFINE x == wk[w].app
             r == [wk[w].rec EXCEPT !.rev = revs[wk[w].rec.rev].parent]
  <2>1. wk[w].pc = "retarget" /\ x \in Apps /\ wk[w].rec \in AppRecord /\ RecordKnown(w)
    BY <1>5, Working DEF RetargetRecord
  <2>2. apps' = [apps EXCEPT ![x] = r] /\ r.status = "rolled_back"
    BY <1>5, <2>1 DEF RetargetRecord, RecordKnown, AppRecord
  <2> HIDE DEF x, r
  <2> QED
    BY <2>1, <2>2, RecordStatuses DEF BegunStatuses, LeftStatuses
<1>6. CASE RecoverWrite(w)
  <2>1. PICK f \in wk[w].fix : apps' = IF f.kind = "point" THEN apps ELSE [apps EXCEPT ![f.app] = Repaired(f)]
    BY <1>6 DEF RecoverWrite
  <2>2. f.kind = "fail" /\ Interrupted(f.app) /\ f.app \in Apps
    BY <1>1, <1>6, <2>1 DEF CommandInv, RecoverWrite, Worker, Fixes
  <2>3. Repaired(f).status = "application_validation_failed"
    BY <1>1, <2>2 DEF Repaired, AppRecord
  <2>4. apps' = [apps EXCEPT ![f.app] = Repaired(f)]
    BY <2>1, <2>2
  <2>5. apps[f.app].status \notin BegunStatuses
    BY <2>2 DEF Interrupted, BegunStatuses, LeftStatuses
  <2> QED
    BY <2>2, <2>3, <2>4, <2>5, RecordStatuses
<1> QED
  BY <1>2, <1>3, <1>4, <1>5, <1>6

\* A step that writes no lease and no result, and resumes nothing.
LEMMA UniqueKept ==
    ASSUME Alone, LeaseUnique, UNCHANGED leaseVars, StatusesKept
    PROVE  LeaseUnique'
<1>1. leases' = leases /\ pubs' = pubs /\ \A a : Done(a)' = Done(a)
  BY DEF leaseVars, Done
<1>2. \A l \in LeaseIds : leases[l].rev # Root => leases[l].rev \in Apps
  BY RevsAndApps DEF Alone, Grown, IInv, TypeOK, Lease
<1>3. \A l \in LeaseIds : leases'[l].rev # Root => apps'[leases'[l].rev].status \in BegunStatuses
  BY <1>1, <1>2 DEF LeaseUnique, StatusesKept
<1>4. ASSUME NEW a \in Apps, apps'[a].status = "resumed" PROVE revs'[a].ready \subseteq Done(a)'
  <2>1. apps[a].status = "resumed" /\ revs[a].ready \subseteq Done(a) /\ AppInv(a)
    BY <1>4 DEF LeaseUnique, StatusesKept, Alone, PlanInv
  <2>2. a \in published
    BY <2>1, EffectIs DEF AppInv, AppliedStatuses, Alone, Grown
  <2>3. revs'[a] = revs[a]
    BY <2>2 DEF Alone, Grown
  <2> QED
    BY <1>1, <2>1, <2>3
<1> QED
  BY <1>1, <1>3, <1>4 DEF LeaseUnique

LEMMA ResumeInvKept ==
    ASSUME Alone, NEW w \in Workers, LeaseUnique', ResumeKnown(w)'
    PROVE  ResumptionInv'
BY DEF Alone, OneAtATime, ResumptionInv

\* plan_apply and recover hold no lease.
LEMMA ApplyHoldsNone ==
    ASSUME TypeOK, NEW w \in Workers, Apply(w)
    PROVE  UNCHANGED leaseVars /\ wk'[w].pc \notin HoldingLabels
<1> DEFINE None == UNCHANGED leaseVars /\ wk'[w].pc \in {"idle", "save_plan"} \cup PlannedLabels
<1> USE DEF PlannedLabels, OnDiskLabels
<1>1. wk[w] \in Worker /\ wk \in [Workers -> Worker]
  BY DEF TypeOK
<1>2. None
  <2>2. CASE \E q \in Requests : PlanApply(w, q)
    BY <1>1, <2>2 DEF PlanApply, IdleWorker
  <2>3. CASE SavePlan(w)
    BY <1>1, <2>3 DEF SavePlan, Worker
  <2>4. CASE FinalizeRecord(w)
    BY <1>1, <2>4 DEF FinalizeRecord, Worker
  <2>5. CASE GraphRejected(w) \/ PointerMoved(w) \/ Commit(w)
    <3>1. Stop(w) /\ UNCHANGED leaseVars
      BY <2>5 DEF GraphRejected, PointerMoved, Commit
    <3> QED
      BY <1>1, <3>1, StopIs, IdleHolds
  <2>6. CASE ReadyToApply(w) \/ BeginApplying(w) \/ MarkApplied(w) \/ OfferResume(w)
    <3>1. PICK st, next : Transition(w, st, next) /\ next \in PlannedLabels /\ UNCHANGED leaseVars
      BY <2>6 DEF ReadyToApply, BeginApplying, MarkApplied, OfferResume
    <3> QED
      BY <1>1, <3>1, TransitionIs
  <2>7. ASSUME NEW next \in PlannedLabels, Goto(w, next), UNCHANGED leaseVars PROVE None
    BY <1>1, <2>7, GotoIs
  <2>8. CASE JournalPrepared(w) \/ JournalWritten(w) \/ GraphAccepted(w) \/ JournalPublished(w)
             \/ JournalPointer(w) \/ JournalUpdated(w) \/ JournalAudited(w)
    BY <2>7, <2>8 DEF JournalPrepared, JournalWritten, GraphAccepted, JournalPublished, JournalPointer,
       JournalUpdated, JournalAudited, Journal
  <2>9. CASE OpenTransaction(w) \/ PublishRevision(w) \/ PointerUnchanged(w) \/ SetPointer(w)
    BY <2>7, <2>9 DEF OpenTransaction, PublishRevision, PointerUnchanged, SetPointer
  <2> QED
    BY <2>2, <2>3, <2>4, <2>5, <2>6, <2>8, <2>9 DEF Apply
<1> QED
  BY <1>2, LabelsApart DEF HoldingLabels, ResumeLabels

LEMMA ApplyStatuses ==
    ASSUME Alone, NEW w \in Workers, Apply(w)
    PROVE  StatusesKept
<1>1. CASE apps' = apps
  BY <1>1 DEF StatusesKept
<1>2. CASE \/ ReadyToApply(w) \/ BeginApplying(w) \/ MarkApplied(w) \/ OfferResume(w)
           \/ SavePlan(w) \/ FinalizeRecord(w)
  BY <1>2, TransitionStatuses, RecordsStatuses
<1> QED
  BY <1>1, <1>2 DEF Apply, PlanApply, OpenTransaction, JournalPrepared, JournalWritten, GraphAccepted,
     GraphRejected, JournalPublished, PointerUnchanged, PointerMoved, SetPointer, JournalPointer, JournalUpdated,
     JournalAudited, Commit, Journal, PublishRevision

\* A command that stops holds nothing either.
LEMMA StopHoldsNone ==
    ASSUME TypeOK, NEW w \in Workers, Stop(w)
    PROVE  wk'[w].pc \notin HoldingLabels
BY StopIs, IdleHolds DEF HoldingLabels, ResumeLabels

LEMMA NoneHeld ==
    ASSUME Alone, ResumptionInv, NEW w \in Workers, UNCHANGED leaseVars, StatusesKept,
           wk'[w].pc \notin HoldingLabels
    PROVE  ResumptionInv'
<1>1. ResumeKnown(w)'
  BY DEF ResumeKnown, HoldingLabels, ResumeLabels
<1> QED
  BY <1>1, UniqueKept, ResumeInvKept DEF ResumptionInv

\* The reads of resume and rollback, and the steps between two results.
LEMMA ResumedReads ==
    ASSUME Alone, LeasesInv, ResumptionInv, NEW w \in Workers,
           \/ \E q \in Requests : ResumeStart(w, q)
           \/ BeginResume(w) \/ StartExecution(w) \/ ExecutionCompletes(w)
           \/ ExecutionFails(w) \/ GatePasses(w) \/ GateRejects(w)
    PROVE  ResumptionInv'
<1> USE DEF At
<1>1. /\ TypeOK /\ wk[w] \in Worker /\ wk \in [Workers -> Worker] /\ ResumeKnown(w) /\ LeaseUnique
  BY DEF Alone, Grown, IInv, TypeOK, ResumptionInv
<1>2. UNCHANGED leaseVars /\ revs' = revs
  BY DEF ResumeStart, BeginResume, StartExecution, ExecutionCompletes, ExecutionFails, GatePasses, GateRejects,
     planVars
<1>3. leases' = leases /\ pubs' = pubs /\ \A a : Done(a)' = Done(a)
  BY <1>2 DEF leaseVars, Done
<1>4. StatusesKept
  <2>1. CASE BeginResume(w)
    BY <2>1, TransitionStatuses
  <2>2. CASE ~BeginResume(w)
    <3>1. apps' = apps
      BY <2>2 DEF ResumeStart, StartExecution, ExecutionCompletes, ExecutionFails, GatePasses, GateRejects
    <3> QED
      BY <3>1 DEF StatusesKept
  <2> QED
    BY <2>1, <2>2
<1>5. ResumeKnown(w)'
  <2>1. CASE \E q \in Requests : ResumeStart(w, q)
    <3>1. PICK a \in Apps :
             wk' = [wk EXCEPT ![w] = [IdleWorker EXCEPT !.pc = "begin_resume", !.app = a,
                                         !.rec = apps[a], !.todo = revs[apps[a].rev].ready]]
      BY <2>1 DEF ResumeStart
    <3>2. wk'[w].pc = "begin_resume" /\ wk'[w].mine = {}
      BY <1>1, <3>1 DEF IdleWorker
    <3> QED
      BY <3>2 DEF ResumeKnown
  <2>2. CASE BeginResume(w)
    <3>1. /\ wk'[w].pc = "lease" /\ wk'[w].rec = [wk[w].rec EXCEPT !.status = "resuming"] /\ Same(w)
          /\ wk[w].pc = "begin_resume"
      BY <1>1, <2>2, TransitionIs DEF BeginResume
    <3>2. wk'[w].rec.rev = wk[w].rec.rev
      BY <1>1, <3>1 DEF Worker, AppRecord
    <3>3. /\ wk[w].app \in Apps /\ apps[wk[w].app] = wk[w].rec /\ RecordKnown(w) /\ PlanKnown(w)
      BY <3>1, Working
    <3>4. wk[w].rec.rev = wk[w].app /\ wk[w].rec.status = "resume_pending"
      BY <3>1, <3>3 DEF RecordKnown, PlanKnown, ResumeLabels
    <3>5. \A l \in LeaseIds : leases[l].rev # wk[w].rec.rev
      <4>1. wk[w].app # Root
        BY <3>3, RevsAndApps
      <4> QED
        BY <1>1, <3>3, <3>4, <4>1 DEF LeaseUnique, BegunStatuses, LeftStatuses
    <3>6. \A l \in wk'[w].mine : leases'[l].rev = wk'[w].rec.rev
      BY <1>1, <1>3, <3>1, <3>2 DEF ResumeKnown, Same, HoldingLabels, ResumeLabels
    <3> QED
      BY <1>3, <3>1, <3>2, <3>5, <3>6 DEF ResumeKnown
  <2>3. CASE StartExecution(w)
    <3>1. /\ wk[w].pc = "lease" /\ wk'[w].pc = "execute" /\ wk'[w].mine = wk[w].mine
          /\ wk'[w].rec = wk[w].rec /\ wk'[w].todo = revs[wk[w].rec.rev].ready
      BY <1>1, <2>3 DEF StartExecution, Worker
    <3> QED
      BY <1>1, <1>2, <1>3, <3>1 DEF ResumeKnown, HoldingLabels, ResumeLabels
  <2>4. CASE ExecutionCompletes(w)
    <3>1. wk[w].pc = "execute" /\ wk'[w].pc = "gate" /\ wk'[w].rec = wk[w].rec /\ Same(w)
      BY <1>1, <2>4, GotoIs DEF ExecutionCompletes
    <3> QED
      BY <1>1, <1>2, <1>3, <3>1 DEF ResumeKnown, Same, HoldingLabels, ResumeLabels
  <2>5. CASE ExecutionFails(w) \/ GateRejects(w)
    <3>1. /\ wk[w].pc \in {"execute", "gate"} /\ wk'[w].pc = "invalidate"
          /\ wk'[w].mine = wk[w].mine /\ wk'[w].rec = wk[w].rec
      BY <1>1, <2>5 DEF ExecutionFails, GateRejects, Worker
    <3> QED
      BY <1>1, <1>3, <3>1 DEF ResumeKnown, HoldingLabels, ResumeLabels
  <2>6. CASE GatePasses(w)
    <3>1. PICK t \in wk[w].todo, l \in LeaseIds :
             /\ LeaseFor(w, t, l)
             /\ wk' = [wk EXCEPT ![w].pc = "publication", ![w].todo = @ \ {t}, ![w].lease = l]
      BY <2>6 DEF GatePasses
    <3>2. /\ wk[w].pc = "gate" /\ wk'[w].pc = "publication" /\ wk'[w].lease = l
          /\ wk'[w].mine = wk[w].mine /\ wk'[w].rec = wk[w].rec /\ wk'[w].todo = wk[w].todo \ {t}
      BY <1>1, <2>6, <3>1 DEF GatePasses, Worker
    <3>3. leases[l].rev = wk[w].rec.rev /\ leases[l].task = t
      BY <3>1 DEF LeaseFor
    <3> QED
      BY <1>1, <1>2, <1>3, <3>2, <3>3 DEF ResumeKnown, HoldingLabels, ResumeLabels
  <2> QED
    BY <2>1, <2>2, <2>3, <2>4, <2>5, <2>6
<1> QED
  BY <1>1, <1>2, <1>4, <1>5, UniqueKept, ResumeInvKept

LEMMA ResumedLease ==
    ASSUME Alone, LeasesInv, ResumptionInv, NEW w \in Workers, CreateLease(w)
    PROVE  ResumptionInv'
<1>1. PICK t \in wk[w].todo, l \in LeaseIds :
          /\ \A m \in LeaseIds : (leases[m].state = "none") <=> (m >= l)
          /\ leases' = [leases EXCEPT ![l] =
                [state |-> "active", rev |-> wk[w].rec.rev, task |-> t, done |-> FALSE]]
          /\ wk' = [wk EXCEPT ![w].todo = @ \ {t}, ![w].mine = @ \cup {l}]
  BY DEF CreateLease
<1>2. /\ TypeOK /\ wk[w] \in Worker /\ wk \in [Workers -> Worker] /\ ResumeKnown(w) /\ LeaseUnique
      /\ wk[w].pc = "lease" /\ UNCHANGED <<apps, pubs, published, revs>>
      /\ leases[l].state = "none" /\ l \notin pubs /\ pubs \subseteq LeaseIds
  BY <1>1 DEF CreateLease, At, Alone, Grown, IInv, TypeOK, LeasesInv, ResumptionInv, planVars, LeaseIds
<1>3. /\ wk'[w].pc = "lease" /\ wk'[w].rec = wk[w].rec /\ wk'[w].todo = wk[w].todo \ {t}
      /\ wk'[w].mine = wk[w].mine \cup {l} /\ wk[w].mine \subseteq LeaseIds
  BY <1>1, <1>2 DEF Worker
<1>4. /\ \A m \in LeaseIds \ {l} : leases'[m] = leases[m]
      /\ leases'[l].rev = wk[w].rec.rev /\ leases'[l].task = t
  BY <1>1, <1>2 DEF TypeOK
<1>5. /\ wk[w].app \in Apps /\ apps[wk[w].app] = wk[w].rec
      /\ wk[w].rec.status = "resuming" /\ wk[w].rec.rev = wk[w].app
  <2>1. /\ wk[w].app \in Apps /\ apps[wk[w].app] = wk[w].rec /\ RecordKnown(w) /\ PlanKnown(w)
    BY <1>2, Working
  <2> QED
    BY <1>2, <2>1 DEF RecordKnown, PlanKnown, ResumeLabels
<1>6. \A m \in LeaseIds \ {l} : ~(leases[m].rev = wk[w].rec.rev /\ leases[m].task = t)
  BY <1>1, <1>2 DEF ResumeKnown
<1>7. \A a : Done(a)' = Done(a)
  BY <1>2, <1>4 DEF Done
<1>8. LeaseUnique'
  <2>1. ASSUME NEW i \in LeaseIds, NEW j \in LeaseIds, leases'[i].rev # Root,
               leases'[i].rev = leases'[j].rev, leases'[i].task = leases'[j].task
        PROVE  i = j
    BY <1>2, <1>4, <1>6, <2>1 DEF LeaseUnique
  <2>2. ASSUME NEW i \in LeaseIds, leases'[i].rev # Root
        PROVE  apps'[leases'[i].rev].status \in BegunStatuses
    BY <1>2, <1>4, <1>5, <2>2 DEF LeaseUnique, BegunStatuses
  <2>3. \A a \in Apps : apps'[a].status = "resumed" => revs'[a].ready \subseteq Done(a)'
    BY <1>2, <1>7 DEF LeaseUnique
  <2> QED
    BY <2>1, <2>2, <2>3 DEF LeaseUnique
<1>9. ResumeKnown(w)'
  <2>1. \A m \in LeaseIds : leases'[m].rev = wk'[w].rec.rev => leases'[m].task \notin wk'[w].todo
    BY <1>2, <1>3, <1>4 DEF ResumeKnown
  <2>2. \A m \in wk'[w].mine : leases'[m].rev = wk'[w].rec.rev
    BY <1>2, <1>3, <1>4 DEF ResumeKnown, HoldingLabels, ResumeLabels
  <2> QED
    BY <1>3, <2>1, <2>2 DEF ResumeKnown
<1> QED
  BY <1>8, <1>9, ResumeInvKept

LEMMA ResumedPublication ==
    ASSUME Alone, LeasesInv, ResumptionInv, NEW w \in Workers, SavePublication(w)
    PROVE  ResumptionInv'
<1>1. /\ TypeOK /\ ResumeKnown(w) /\ LeaseUnique /\ wk[w].pc = "publication"
      /\ UNCHANGED <<leases, apps, published, revs>> /\ pubs' = pubs \cup {wk[w].lease}
      /\ Goto(w, "complete")
  BY DEF SavePublication, At, Alone, Grown, IInv, ResumptionInv, planVars
<1>2. wk'[w].pc = "complete" /\ wk'[w].rec = wk[w].rec /\ Same(w)
  BY <1>1, GotoIs
<1>3. \A a : Done(a) \subseteq Done(a)'
  BY <1>1 DEF Done
<1>4. LeaseUnique'
  BY <1>1, <1>3 DEF LeaseUnique
<1>5. ResumeKnown(w)'
  BY <1>1, <1>2, <1>3 DEF ResumeKnown, Same, HoldingLabels, ResumeLabels
<1> QED
  BY <1>4, <1>5, ResumeInvKept

\* The lease gets its result, which is on disk already.
LEMMA ResumedComplete ==
    ASSUME Alone, LeasesInv, ResumptionInv, NEW w \in Workers, CompleteLease(w)
    PROVE  ResumptionInv'
<1>0. PICK l : l = wk[w].lease
  OBVIOUS
<1>1. /\ TypeOK /\ wk[w] \in Worker /\ wk \in [Workers -> Worker] /\ leases \in [LeaseIds -> Lease]
      /\ ResumeKnown(w) /\ LeaseUnique /\ wk[w].pc = "complete"
      /\ UNCHANGED <<apps, pubs, published, revs>>
      /\ wk' = [wk EXCEPT ![w].pc = "gate", ![w].lease = 0]
  BY DEF CompleteLease, At, Alone, Grown, IInv, TypeOK, ResumptionInv, planVars
<1>2. l \in LeaseIds /\ l \in pubs
  BY <1>0, <1>1 DEF LeasesInv, LeaseHeld, Alone, Grown, IInv, TypeOK
<1>3. leases' = [leases EXCEPT ![l].state = "completed", ![l].done = TRUE]
  BY <1>0 DEF CompleteLease
<1>4. /\ leases'[l].state = "completed" /\ leases'[l].rev = leases[l].rev
      /\ leases'[l].task = leases[l].task
      /\ \A m \in LeaseIds \ {l} : leases'[m] = leases[m]
  BY <1>1, <1>2, <1>3 DEF Lease
<1>5. /\ wk'[w].pc = "gate" /\ wk'[w].rec = wk[w].rec /\ wk'[w].todo = wk[w].todo
      /\ wk'[w].mine = wk[w].mine /\ wk[w].mine \subseteq LeaseIds
  BY <1>1 DEF Worker
<1>6. pubs \subseteq LeaseIds
  BY <1>1 DEF TypeOK
<1>7. \A m \in LeaseIds : leases'[m].rev = leases[m].rev /\ leases'[m].task = leases[m].task
  BY <1>4
<1>8. \A a : Done(a) \subseteq Done(a)'
  BY <1>1, <1>4, <1>6 DEF Done
<1>9. LeaseUnique'
  BY <1>1, <1>7, <1>8 DEF LeaseUnique
<1>10. ResumeKnown(w)'
  <2> PICK r : r = wk[w].rec.rev
    OBVIOUS
  <2>1. r \in Revs /\ leases[l].rev = r
    BY <1>0, <1>1, <1>2 DEF ResumeKnown, TypeOK, Lease
  <2>2. revs[r].ready \subseteq wk[w].todo \cup Done(r) \cup {leases[l].task}
    BY <1>0, <1>1 DEF ResumeKnown
  <2>3. revs[r].ready \subseteq Tasks
    BY <1>1, <2>1 DEF TypeOK, Revision
  <2>4. leases[l].task \in Tasks => leases[l].task \in Done(r)'
    BY <1>1, <1>2, <1>4, <2>1 DEF Done
  <2>5. revs'[r].ready \subseteq wk'[w].todo \cup Done(r)'
    BY <1>1, <1>5, <1>8, <2>2, <2>3, <2>4
  <2>6. wk'[w].rec.rev = r
    BY <1>5
  <2>7. \A m \in wk'[w].mine : leases'[m].rev = wk'[w].rec.rev
    BY <1>1, <1>5, <1>7 DEF ResumeKnown, HoldingLabels, ResumeLabels
  <2> QED
    BY <1>5, <2>5, <2>6, <2>7 DEF ResumeKnown, Done
<1> QED
  BY <1>9, <1>10, ResumeInvKept

\* A lease of the command's own revision is written back, while that is not resumed.
LEMMA ResumedWriteBack ==
    ASSUME Alone, LeasesInv, ResumptionInv, NEW w \in Workers, InvalidateLease(w) \/ StaleLease(w)
    PROVE  ResumptionInv'
<1>1. /\ TypeOK /\ wk[w] \in Worker /\ wk \in [Workers -> Worker] /\ leases \in [LeaseIds -> Lease]
      /\ ResumeKnown(w) /\ LeaseUnique /\ wk[w].pc \in {"invalidate", "stale_leases"}
      /\ UNCHANGED <<apps, pubs, published, revs>>
  BY DEF InvalidateLease, StaleLease, At, Alone, Grown, IInv, TypeOK, ResumptionInv, planVars
<1>2. PICK l \in wk[w].mine :
         /\ wk' = [wk EXCEPT ![w].mine = @ \ {l}]
         /\ \/ leases' = [leases EXCEPT ![l].state = wk[w].bad]
            \/ leases' = [leases EXCEPT ![l].state = "stale", ![l].done = FALSE]
  BY DEF InvalidateLease, StaleLease
<1>3. l \in LeaseIds /\ wk[w].mine \subseteq LeaseIds /\ leases[l].rev = wk[w].rec.rev
  BY <1>1 DEF Worker, ResumeKnown, HoldingLabels, ResumeLabels
<1>4. /\ leases'[l].rev = leases[l].rev /\ leases'[l].task = leases[l].task
      /\ \A m \in LeaseIds \ {l} : leases'[m] = leases[m]
  BY <1>1, <1>2, <1>3 DEF Lease
<1>5. wk'[w].pc = wk[w].pc /\ wk'[w].rec = wk[w].rec /\ wk'[w].mine \subseteq wk[w].mine
  BY <1>1, <1>2 DEF Worker
<1>6. \A m \in LeaseIds : leases'[m].rev = leases[m].rev /\ leases'[m].task = leases[m].task
  BY <1>4
<1>7. /\ wk[w].app \in Apps /\ apps[wk[w].app] = wk[w].rec /\ wk[w].rec.rev = wk[w].app
      /\ apps[wk[w].app].status # "resumed"
  <2>1. /\ wk[w].app \in Apps /\ apps[wk[w].app] = wk[w].rec /\ RecordKnown(w) /\ PlanKnown(w)
    BY <1>1, Working
  <2> QED
    BY <1>1, <2>1 DEF RecordKnown, PlanKnown, ResumeLabels
<1>8. ASSUME NEW a \in Apps, apps[a].status = "resumed"
      PROVE  Done(a)' = Done(a)
  <2>1. leases[l].rev # a /\ leases'[l].rev # a
    BY <1>3, <1>4, <1>7, <1>8
  <2> QED
    BY <1>1, <1>4, <2>1 DEF Done, TypeOK
<1>9. LeaseUnique'
  <2>1. \A a \in Apps : apps'[a].status = "resumed" => revs'[a].ready \subseteq Done(a)'
    BY <1>1, <1>8 DEF LeaseUnique
  <2> QED
    BY <1>1, <1>6, <2>1 DEF LeaseUnique
<1>10. ResumeKnown(w)'
  <2>1. \A m \in wk'[w].mine : leases'[m].rev = wk'[w].rec.rev
    BY <1>1, <1>3, <1>5, <1>6 DEF ResumeKnown, HoldingLabels, ResumeLabels
  <2> QED
    BY <1>1, <1>5, <2>1 DEF ResumeKnown
<1> QED
  BY <1>9, <1>10, ResumeInvKept

\* The application is resumed: every task its revision offered is done.
LEMMA ResumedFinish ==
    ASSUME Alone, LeasesInv, ResumptionInv, NEW w \in Workers, ResumeFinish(w)
    PROVE  ResumptionInv'
<1>0. PICK x : x = wk[w].app
  OBVIOUS
<1>1. /\ TypeOK /\ ResumeKnown(w) /\ LeaseUnique /\ wk[w].pc = "gate" /\ wk[w].todo = {}
      /\ Stop(w) /\ UNCHANGED <<leases, pubs, published, revs>>
  BY DEF ResumeFinish, At, Alone, Grown, IInv, ResumptionInv, planVars, leaseVars
<1>2. /\ x \in Apps /\ apps[x] = wk[w].rec /\ wk[w].rec \in AppRecord
      /\ wk[w].rec.rev = x /\ wk[w].rec.status = "resuming"
  <2>1. /\ x \in Apps /\ apps[x] = wk[w].rec /\ wk[w].rec \in AppRecord
        /\ RecordKnown(w) /\ PlanKnown(w)
    BY <1>0, <1>1, Working
  <2> QED
    BY <1>0, <1>1, <2>1 DEF RecordKnown, PlanKnown, ResumeLabels
<1> DEFINE r == [wk[w].rec EXCEPT !.status = "resumed"]
<1>3. r.status = "resumed" /\ apps' = [apps EXCEPT ![x] = r]
  BY <1>0, <1>2 DEF ResumeFinish, SaveStatus, AppRecord
<1> HIDE DEF r
<1>4. apps'[x].status = "resumed" /\ \A a \in Apps \ {x} : apps'[a] = apps[a]
  BY <1>1, <1>2, <1>3 DEF TypeOK
<1>5. \A a : Done(a)' = Done(a)
  BY <1>1 DEF Done
<1>6. revs[x].ready \subseteq Done(x)
  BY <1>1, <1>2 DEF ResumeKnown
<1>7. LeaseUnique'
  <2>1. ASSUME NEW a \in Apps, apps'[a].status = "resumed" PROVE revs'[a].ready \subseteq Done(a)'
    BY <1>1, <1>4, <1>5, <1>6, <2>1 DEF LeaseUnique
  <2>2. ASSUME NEW l \in LeaseIds, leases'[l].rev # Root
        PROVE  apps'[leases'[l].rev].status \in BegunStatuses
    <3>1. leases[l].rev \in Apps
      BY <1>1, <2>2, RevsAndApps DEF TypeOK, Lease
    <3> QED
      BY <1>1, <1>4, <2>2, <3>1 DEF LeaseUnique, BegunStatuses
  <2> QED
    BY <1>1, <2>1, <2>2 DEF LeaseUnique
<1>8. ResumeKnown(w)'
  <2>1. wk'[w].pc \notin HoldingLabels
    BY <1>1, StopHoldsNone
  <2> QED
    BY <2>1 DEF ResumeKnown, HoldingLabels, ResumeLabels
<1> QED
  BY <1>7, <1>8, ResumeInvKept

LEMMA ResumedUndo ==
    ASSUME Alone, LeasesInv, ResumptionInv, NEW w \in Workers, Rollback(w)
    PROVE  ResumptionInv'
<1> USE DEF At
<1>1. /\ TypeOK /\ wk[w] \in Worker /\ wk \in [Workers -> Worker] /\ ResumeKnown(w) /\ LeaseUnique
      /\ WorkerInv(w)
  BY DEF Alone, Grown, IInv, TypeOK, ResumptionInv
<1>2. CASE StaleLease(w)
  BY <1>2, ResumedWriteBack
<1>3. ASSUME ~StaleLease(w) PROVE UNCHANGED leaseVars
  BY <1>3 DEF Rollback, RollbackStart, RollbackReads, RollbackRefused, OpenUndo, BeginRollback, StaleLease,
     RecheckPointer, JournalUndoFailed, RollbackFailed, RestorePointer, JournalUndoDone, MarkRolledBack,
     RetargetRecord
<1>4. ASSUME ~StaleLease(w) PROVE StatusesKept
  <2>1. CASE apps' = apps
    BY <2>1 DEF StatusesKept
  <2>2. CASE BeginRollback(w) \/ MarkRolledBack(w) \/ RetargetRecord(w) \/ RollbackFailed(w)
    BY <2>2, TransitionStatuses, RecordsStatuses, UndoNeverFails
  <2> QED
    BY <1>4, <2>1, <2>2 DEF Rollback, RollbackStart, RollbackReads, RollbackRefused, OpenUndo,
       RecheckPointer, JournalUndoFailed, RestorePointer, JournalUndoDone
<1>5. ASSUME ~StaleLease(w), ResumeKnown(w)' PROVE ResumptionInv'
  BY <1>1, <1>3, <1>4, <1>5, UniqueKept, ResumeInvKept
<1>6. ASSUME ~StaleLease(w), wk'[w].pc \notin HoldingLabels PROVE ResumptionInv'
  BY <1>3, <1>4, <1>6, NoneHeld
<1>7. CASE RollbackReads(w)
  <2>1. /\ wk[w].pc = "rollback" /\ active = wk[w].rec.rev
        /\ wk' = [wk EXCEPT ![w].pc = "open_undo",
                     ![w].mine = {l \in LeaseIds : leases[l].rev = active /\ leases[l].state = "active"}]
    BY <1>7 DEF RollbackReads, Undoable
  <2>2. /\ wk'[w].pc = "open_undo" /\ wk'[w].rec = wk[w].rec
        /\ \A l \in wk'[w].mine : leases[l].rev = active
    BY <1>1, <2>1 DEF Worker
  <2>3. leases' = leases /\ ~StaleLease(w)
    BY <1>3, <2>1 DEF StaleLease, leaseVars
  <2>4. ResumeKnown(w)'
    BY <2>1, <2>2, <2>3 DEF ResumeKnown
  <2> QED
    BY <1>5, <2>3, <2>4
<1>8. CASE OpenUndo(w) /\ Goto(w, "rolling_back")
  <2>1. wk[w].pc = "open_undo" /\ wk'[w].pc = "rolling_back" /\ wk'[w].rec = wk[w].rec /\ Same(w)
    BY <1>1, <1>8, GotoIs DEF OpenUndo
  <2>2. leases' = leases /\ ~StaleLease(w)
    BY <1>3, <2>1 DEF StaleLease, leaseVars
  <2>3. ResumeKnown(w)'
    BY <1>1, <2>1, <2>2 DEF ResumeKnown, Same, HoldingLabels
  <2> QED
    BY <1>5, <2>2, <2>3
<1>9. CASE BeginRollback(w)
  <2>1. /\ wk[w].pc = "rolling_back" /\ wk'[w].pc = "stale_leases"
        /\ wk'[w].rec = [wk[w].rec EXCEPT !.status = "rolling_back"] /\ Same(w)
    BY <1>1, <1>9, TransitionIs DEF BeginRollback
  <2>2. wk'[w].rec.rev = wk[w].rec.rev
    BY <1>1, <2>1 DEF Worker, AppRecord
  <2>3. leases' = leases /\ ~StaleLease(w)
    BY <1>3, <2>1 DEF StaleLease, leaseVars
  <2>4. ResumeKnown(w)'
    BY <1>1, <2>1, <2>2, <2>3 DEF ResumeKnown, Same, HoldingLabels
  <2> QED
    BY <1>5, <2>3, <2>4
<1>10. CASE \E a \in Apps : RollbackStart(w, a)
  <2>1. PICK a \in Apps : /\ wk[w].pc = "idle"
                          /\ wk' = [wk EXCEPT ![w] = [IdleWorker EXCEPT !.pc = "rollback", !.app = a, !.rec = apps[a]]]
    BY <1>10 DEF RollbackStart
  <2>2. wk'[w].pc = "rollback"
    BY <1>1, <2>1 DEF IdleWorker
  <2>3. ~StaleLease(w)
    BY <2>1 DEF StaleLease
  <2> QED
    BY <1>6, <2>2, <2>3 DEF HoldingLabels, ResumeLabels
<1>11. ASSUME NEW next \in {"restore", "undo_failed", "rollback_failed", "undo_done", "rolled_back"},
              Goto(w, next), ~StaleLease(w)
       PROVE  ResumptionInv'
  BY <1>1, <1>6, <1>11, GotoIs DEF HoldingLabels, ResumeLabels
<1>12. CASE (RecheckPointer(w) /\ ~StaleLease(w)) \/ JournalUndoFailed(w) \/ RestorePointer(w) \/ JournalUndoDone(w)
  BY <1>11, <1>12 DEF RecheckPointer, JournalUndoFailed, RestorePointer, JournalUndoDone, StaleLease
<1>13. CASE MarkRolledBack(w)
  <2>1. wk[w].pc = "rolled_back" /\ wk'[w].pc = "retarget"
    BY <1>1, <1>13, TransitionIs DEF MarkRolledBack
  <2> QED
    BY <1>6, <2>1 DEF StaleLease, HoldingLabels, ResumeLabels
<1>14. CASE ~StaleLease(w) /\ Stop(w)
  BY <1>1, <1>6, <1>14, StopHoldsNone
<1> QED
  BY <1>2, <1>7, <1>8, <1>9, <1>10, <1>12, <1>13, <1>14
     DEF Rollback, RollbackRefused, OpenUndo, RollbackFailed, RetargetRecord

LEMMA ResumedRecover ==
    ASSUME Alone, LeasesInv, ResumptionInv, NEW w \in Workers, Recover(w)
    PROVE  ResumptionInv'
<1>1. TypeOK /\ wk[w] \in Worker /\ wk \in [Workers -> Worker]
  BY DEF Alone, Grown, IInv, TypeOK
<1>2. UNCHANGED leaseVars
  BY DEF Recover, RecoverScan, RecoverWrite, RecoverDone
<1>3. StatusesKept
  <2>1. CASE RecoverWrite(w)
    BY <2>1, RecordsStatuses
  <2>2. CASE ~RecoverWrite(w)
    BY <2>2 DEF Recover, RecoverScan, RecoverDone, StatusesKept
  <2> QED
    BY <2>1, <2>2
<1>4. wk'[w].pc \in {"idle", "recover"}
  <2>1. CASE RecoverScan(w)
    <3> DEFINE fixes == [kind: {"fail"}, app: {a \in Apps : Interrupted(a)}]
                        \cup [kind: {"point"}, app: {a \in Apps : PointerPending(a)}]
                        \cup [kind: {"finish"}, app: {a \in Apps : StatusPending(a)}]
    <3>1. wk' = [wk EXCEPT ![w] = [IdleWorker EXCEPT !.pc = "recover", !.fix = fixes]]
      BY <2>1 DEF RecoverScan
    <3> HIDE DEF fixes
    <3> QED
      BY <1>1, <3>1 DEF IdleWorker
  <2>2. CASE RecoverWrite(w)
    BY <1>1, <2>2 DEF RecoverWrite, At, Worker
  <2>3. CASE RecoverDone(w)
    BY <1>1, <2>3, StopIs, IdleHolds DEF RecoverDone
  <2> QED
    BY <2>1, <2>2, <2>3 DEF Recover
<1>5. wk'[w].pc \notin HoldingLabels
  BY <1>4 DEF HoldingLabels, ResumeLabels
<1> QED
  BY <1>2, <1>3, <1>5, NoneHeld

LEMMA ResumedInit == Init => ResumptionInv
BY RevsAndApps DEF Init, ResumptionInv, LeaseUnique, ResumeKnown, NoLease, NoApp, IdleWorker, HoldingLabels, ResumeLabels

LEMMA ResumedNext ==
    ASSUME OneAtATime, Files, LeasesInv, ResumptionInv, [Next]_vars
    PROVE  ResumptionInv'
<1>1. Alone /\ TypeOK
  BY StepAlone DEF Files, IInv
<1>2. ASSUME NEW w \in Workers, Apply(w) PROVE ResumptionInv'
  BY <1>1, <1>2, ApplyHoldsNone, ApplyStatuses, NoneHeld
<1>3. ASSUME NEW w \in Workers, Resume(w) PROVE ResumptionInv'
  <2>1. CASE ResumeFailed(w)
    BY <1>1, <2>1, RecordsStatuses, StopHoldsNone, NoneHeld DEF ResumeFailed
  <2>2. CASE ResumePointerMoved(w)
    <3>1. StatusesKept /\ Stop(w) /\ UNCHANGED leaseVars
      BY <2>2 DEF ResumePointerMoved, StatusesKept
    <3> QED
      BY <1>1, <3>1, StopHoldsNone, NoneHeld
  <2> QED
    BY <1>1, <1>3, <2>1, <2>2, ResumedReads, ResumedLease, ResumedPublication, ResumedComplete, ResumedWriteBack,
       ResumedFinish DEF Resume
<1>4. ASSUME NEW w \in Workers, Rollback(w) \/ Recover(w) PROVE ResumptionInv'
  BY <1>1, <1>4, ResumedUndo, ResumedRecover
<1>5. ASSUME NEW w \in Workers, Crash(w) \/ OutOfIds(w) PROVE ResumptionInv'
  <2>1. StatusesKept /\ Stop(w) /\ UNCHANGED leaseVars
    BY <1>5 DEF Crash, OutOfIds, StatusesKept
  <2> QED
    BY <1>1, <2>1, StopHoldsNone, NoneHeld
<1>6. CASE UNCHANGED <<apps, leases, pubs, revs, wk>>
  BY <1>6 DEF ResumptionInv, LeaseUnique, ResumeKnown, Done
<1>7. ASSUME NEW w \in Workers, NEW q \in Requests, ImportResponse(w, q)
      PROVE  UNCHANGED <<apps, leases, pubs, revs, wk>>
  BY <1>7 DEF ImportResponse, planVars, leaseVars
<1> QED
  BY <1>2, <1>3, <1>4, <1>5, <1>6, <1>7 DEF Next, vars

LEMMA ResumedInvariance == ASSUME OneAtATime PROVE Spec => [](Files /\ LeasesInv /\ ResumptionInv)
<1>1. Init => Files /\ LeasesInv /\ ResumptionInv
  BY InitInv, OrderInit, PlanInit, LeasesInit, ResumedInit DEF Files
<1>2. (Files /\ LeasesInv /\ ResumptionInv) /\ [Next]_vars => (Files /\ LeasesInv /\ ResumptionInv)'
  BY NextInv, OrderNext, PlanNext, LeasesNext, ResumedNext DEF Files
<1> QED
  BY <1>1, <1>2, PTL DEF Spec

\* An application counts as resumed only when each task its revision offered has exactly one
\* published result under a completed lease, when the commands run one after the other and
\* die anywhere (resume, _create_lease, _lease_for_task).
THEOREM ResumedPublished == ASSUME OneAtATime PROVE Spec => []ResumedWorkPublished
<1>1. Files /\ LeasesInv /\ ResumptionInv => ResumedWorkPublished
  <2> SUFFICES ASSUME Files, LeasesInv, ResumptionInv, NEW a \in Apps, apps[a].status = "resumed",
                      NEW t \in revs[a].ready
               PROVE  \E l \in pubs :
                         /\ leases[l].rev = a /\ leases[l].task = t /\ leases[l].state = "completed"
                         /\ \A m \in pubs : leases[m].rev = a /\ leases[m].task = t => m = l
    BY DEF ResumedWorkPublished
  <2>1. t \in Done(a)
    BY DEF ResumptionInv, LeaseUnique
  <2>2. PICK l \in pubs : leases[l].rev = a /\ leases[l].task = t /\ leases[l].state = "completed"
    BY <2>1 DEF Done
  <2>3. a # Root /\ pubs \subseteq LeaseIds
    BY RevsAndApps DEF Files, IInv, TypeOK
  <2>4. \A m \in pubs : leases[m].rev = a /\ leases[m].task = t => m = l
    BY <2>2, <2>3 DEF ResumptionInv, LeaseUnique
  <2> QED
    BY <2>2, <2>4
<1> QED
  BY <1>1, ResumedInvariance, PTL
=============================================================================
