-------------------------- MODULE WorkQueuesProofs --------------------------
(***************************************************************************)
(* Wherever the commands on tickets and items die, nothing disappears, no  *)
(* two stories share a number that can be read, and a blocked story names  *)
(* its ticket: for any tickets, items, layouts, numbers and crashes.       *)
(*                                                                         *)
(* The invariant says, of each stage of the running command, what it has   *)
(* already done: a move has its file in the old folder, then in both, then *)
(* in the new one; a promotion has chosen a number seen nowhere, then      *)
(* listed its story, then made its folder.                                 *)
(***************************************************************************)
EXTENDS WorkQueuesProps, WellFoundedInduction, TLAPS

Copy == Files \cup {None, Torn}
Known == blueprint.stories \cup DOMAIN workspaces

TypeOK ==
    /\ files \in [Ids -> [Folders -> Copy]]
    /\ packets \in [Tickets -> SUBSET Folders]
    /\ blueprint \in [layout : AllLayouts, text : {"yaml", "broken"}, stories : SUBSET Stories]
    /\ report \subseteq Items
    /\ DOMAIN workspaces \subseteq Stories
    /\ workspaces = [s \in DOMAIN workspaces |-> workspaces[s]]
    /\ command \in Commands \cup {None}
    /\ history \in [made : SUBSET Ids, torn : SUBSET Ids, split : SUBSET Ids,
                    redone : SUBSET Ids, crashes : Nat]

-----------------------------------------------------------------------------
(* The stages of a command *)

Stage(S) == command # None /\ command.at \in S
Fetched == Stage({"append", "folder", "status", "write"})
Written == Stage({"packet", "unpack", "unlink"})
Numbered == Stage({"append", "folder", "status"})

\* No file of the id was torn, no move of it died.
Intact(id) == id \in history.made \ (history.torn \cup history.split)

\* The stories that an item may name.
Sound(id, story) ==
    story # None =>
        /\ story.item = id /\ story \in DOMAIN workspaces /\ workspaces[story] # None
        /\ Listed => story \in blueprint.stories

CommandInv ==
    /\ At("create") =>
          /\ command.op # "promote" /\ command.file = New
          /\ \A id \in command.left \cup {command.id} : Copies(id) = {}
          /\ command.named \subseteq history.made \cup command.left \cup {command.id}
          /\ command.op = "ticket" => command.id \in Tickets
          /\ command.id \notin command.left
    /\ At("block") => command.id \in history.made \cap Tickets
    /\ At("report") => command.named \subseteq history.made
    /\ Fetched =>
          /\ command.from \in Copies(command.id)
          /\ command.id \notin history.torn =>
                /\ command.file.whole
                /\ command.op # "promote" =>
                      command.file.story = files[command.id][command.from].story
          /\ Intact(command.id) => command.file.status = command.to
          /\ command.op = "promote" /\ Intact(command.id) =>
                files[command.id][command.from].story = None
    /\ Written =>
          /\ command.to \in Copies(command.id)
          /\ Intact(command.id) =>
                /\ Copies(command.id) = {command.from, command.to}
                /\ files[command.id][command.to].status = command.to
                /\ command.op = "promote" => files[command.id][command.to].story = command.story
    /\ (Fetched \/ Written) /\ command.op = "promote" =>
              /\ command.id \in Items /\ command.story \in Stories
              /\ command.story.item = command.id /\ command.file.story = command.story
    /\ Numbered => command.op = "promote"
    /\ Numbered =>
          \A s \in Seen(Known) : s.number = command.story.number => s = command.story
    /\ Stage({"folder", "status"}) /\ Listed => command.story \in blueprint.stories
    /\ At("status") => command.story \in DOMAIN workspaces
    /\ At("write") /\ command.id \in Items => Sound(command.id, command.file.story)

-----------------------------------------------------------------------------
(* The files, the stories and the statuses *)

FilesInv ==
    /\ report \subseteq history.made
    /\ \A id \in history.made : Copies(id) # {}
    /\ \A id \in Ids : Copies(id) # {} => id \in history.made \cup history.torn
    /\ \A id \in Ids \ history.torn : \A f \in Copies(id) : files[id][f] # Torn /\ files[id][f].whole
    /\ \A id \in Ids : Intact(id) /\ ~(Written /\ command.id = id) =>
          \E f \in Folders : Copies(id) = {f} /\ files[id][f].status = f

StoriesInv ==
    /\ \A s, t \in Seen(Known) : s.number = t.number => s = t
    /\ \A s \in Known : s.item \in Items => Copies(s.item) # {}
    /\ \A id \in Items : \A f \in Copies(id) :
          files[id][f] # Torn => Sound(id, files[id][f].story)
    /\ \A s \in Known :
          s.item \in Items \ (history.redone \cup history.split \cup history.torn) =>
              \/ /\ Fetched \/ Written
                 /\ command.op = "promote" /\ command.id = s.item /\ command.story = s
              \/ \A f \in Copies(s.item) : files[s.item][f].story = s

StatusInv ==
    \A s \in DOMAIN workspaces : workspaces[s] \in {None, Torn, Planned}
        \cup {[status |-> "blocked", by |-> t] : t \in history.made \cap Tickets}

IInv == TypeOK /\ CommandInv /\ FilesInv /\ StoriesInv /\ StatusInv

-----------------------------------------------------------------------------
(* Folders, records and numbers *)

LEMMA FoldersAre == Folders = {"pending", "answered", "closed", "approved", "rejected", "parked"}
BY DEF Folders, TicketFolders, QueueStatuses

\* find_ticket, find_queue_item: what is in some folder is found in one that has it.
LEMMA LocatedIn ==
    ASSUME NEW id, Copies(id) # {}
    PROVE  Located(id) \in Copies(id) /\ Located(id) \in Folders
<1> DEFINE First(n) == Order[n] \in Copies(id) /\ \A m \in 1..(n - 1) : Order[m] \notin Copies(id)
<1>1. Copies(id) \subseteq {Order[n] : n \in 1..6} /\ DOMAIN Order = 1..6
  BY FoldersAre DEF Copies, Order
<1>2. \E n \in 1..6 : First(n)
  <2>1. \E n \in 1..6 : Order[n] \in Copies(id)
    BY <1>1
  <2>2. CASE Order[1] \in Copies(id)
    BY <2>2
  <2>3. CASE Order[1] \notin Copies(id) /\ Order[2] \in Copies(id)
    BY <2>3
  <2>4. CASE /\ Order[1] \notin Copies(id) /\ Order[2] \notin Copies(id)
             /\ Order[3] \in Copies(id)
    <3>1. \A m \in 1..2 : m = 1 \/ m = 2
      OBVIOUS
    <3> QED
      BY <2>4, <3>1
  <2>5. CASE /\ Order[1] \notin Copies(id) /\ Order[2] \notin Copies(id)
             /\ Order[3] \notin Copies(id) /\ Order[4] \in Copies(id)
    <3>1. \A m \in 1..3 : m = 1 \/ m = 2 \/ m = 3
      OBVIOUS
    <3> QED
      BY <2>5, <3>1
  <2>6. CASE /\ Order[1] \notin Copies(id) /\ Order[2] \notin Copies(id)
             /\ Order[3] \notin Copies(id) /\ Order[4] \notin Copies(id)
             /\ Order[5] \in Copies(id)
    <3>1. \A m \in 1..4 : m = 1 \/ m = 2 \/ m = 3 \/ m = 4
      OBVIOUS
    <3> QED
      BY <2>6, <3>1
  <2>7. CASE /\ Order[1] \notin Copies(id) /\ Order[2] \notin Copies(id)
             /\ Order[3] \notin Copies(id) /\ Order[4] \notin Copies(id)
             /\ Order[5] \notin Copies(id) /\ Order[6] \in Copies(id)
    <3>1. \A m \in 1..5 : m = 1 \/ m = 2 \/ m = 3 \/ m = 4 \/ m = 5
      OBVIOUS
    <3> QED
      BY <2>7, <3>1
  <2>8. \A n \in 1..6 : n = 1 \/ n = 2 \/ n = 3 \/ n = 4 \/ n = 5 \/ n = 6
    OBVIOUS
  <2> QED
    BY <2>1, <2>2, <2>3, <2>4, <2>5, <2>6, <2>7, <2>8
<1>3. PICK at \in 1..6 : First(at) /\ Located(id) = Order[at]
  <2>1. \E n \in DOMAIN Order : First(n)
    BY <1>1, <1>2
  <2>2. First(CHOOSE n \in DOMAIN Order : First(n)) /\ (CHOOSE n \in DOMAIN Order : First(n)) \in 1..6
    BY <1>1, <2>1
  <2> QED
    BY <2>2 DEF Located
<1> QED
  BY <1>3 DEF Copies

LEMMA NewIs ==
    New \in Files /\ New.whole /\ New.status = "pending" /\ New.story = None
BY FoldersAre DEF New, Files

\* What is loaded from a folder has the type of a file.
LEMMA LoadedType ==
    ASSUME TypeOK, NEW id \in Ids, NEW f \in Copies(id)
    PROVE  /\ Loaded(id, f) \in Files
           /\ files[id][f] # Torn => Loaded(id, f) = files[id][f]
           /\ files[id][f] = Torn => Loaded(id, f).story = None
<1>1. f \in Folders /\ files[id][f] \in Files \cup {Torn}
  BY DEF Copies, TypeOK, Copy
<1> QED
  BY <1>1 DEF Loaded, Files

\* What a command is when it starts.
LEMMA StepIs ==
    ASSUME NEW at \in {"create", "write", "append"}, NEW op \in {"ticket", "item", "scan", "promote"},
           NEW id \in Ids, NEW from \in Folders, NEW to \in Folders, NEW file \in Files,
           NEW story \in Stories \cup {None},
           NEW c, c = Step(at, op, id, from, to, file, story)
    PROVE  /\ c \in Commands /\ c # None
           /\ c.at = at /\ c.op = op /\ c.id = id /\ c.from = from /\ c.to = to
           /\ c.file = file /\ c.story = story /\ c.left = {} /\ c.named = {}
<1>1. c \in Commands
  BY DEF Step, Commands
<1> QED
  BY <1>1, QueuesAssumption DEF Step

LEMMA ScanIs ==
    ASSUME NEW id \in Items, NEW left \in SUBSET Items, NEW named \in SUBSET Items,
           command' = [Step("create", "scan", id, "pending", "pending", New, None)
                       EXCEPT !.left = left, !.named = named]
    PROVE  /\ command' \in Commands /\ command'.at = "create" /\ command'.op = "scan"
           /\ command'.id = id /\ command'.file = New
           /\ command'.left = left /\ command'.named = named
<1> DEFINE s == Step("create", "scan", id, "pending", "pending", New, None)
<1>1. /\ s \in Commands /\ s.at = "create" /\ s.op = "scan" /\ s.id = id /\ s.file = New
  BY NewIs, FoldersAre, StepIs DEF Ids
<1> HIDE DEF s
<1>2. command' = [s EXCEPT !.left = left, !.named = named]
  BY DEF s
<1> QED
  BY <1>1, <1>2 DEF Commands

\* A set of numbers has a least one.
LEMMA LeastExists ==
    ASSUME NEW S \in SUBSET Nat, S # {}
    PROVE  Least(S) \in S
<1> DEFINE R == OpToRel(<, Nat)
<1>1. \E x \in S : \A y \in S : ~ (<<y, x>> \in R)
  <2>1. IsWellFoundedOn(R, Nat)
    BY NatLessThanWellFounded
  <2> HIDE DEF R
  <2> QED
    BY <2>1, WFMin
<1>2. \A x, y \in Nat : x < y => <<x, y>> \in R
  BY DEF OpToRel
<1>3. PICK x \in S : \A y \in S : ~ (<<y, x>> \in R)
  BY <1>1
<1>4. \A y \in S : ~(y < x)
  BY <1>2, <1>3
<1> HIDE DEF R
<1>5. \A y \in S : x <= y
  BY <1>4
<1> QED
  BY <1>5 DEF Least

\* next_story_number: the number is seen nowhere.
LEMMA NumberIsFree ==
    ASSUME TypeOK, NextNumber <= MaxNumber
    PROVE  NextNumber \in 1..MaxNumber /\ \A s \in Seen(Known) : s.number # NextNumber
<1> DEFINE free == Above(Seen(Known))
<1>1. MaxNumber \in Nat /\ \A s \in Known : s.number \in 1..MaxNumber
  BY QueuesAssumption DEF TypeOK, Known, Stories
<1>2. MaxNumber + 1 \in free /\ free \in SUBSET Nat
  BY <1>1 DEF Above, Seen
<1>3. NextNumber = Least(free)
  BY DEF NextNumber, Known
<1>4. NextNumber \in free
  BY <1>2, <1>3, LeastExists
<1>5. NextNumber \in 1..(MaxNumber + 1) /\ \A s \in Seen(Known) : s.number < NextNumber
  BY <1>4 DEF Above
<1> QED
  BY <1>1, <1>5

-----------------------------------------------------------------------------
(* Commands that start *)

\* A command that starts has changed nothing yet.
LEMMA StartInv ==
    ASSUME IInv, command = None, command' \in Commands, CommandInv',
           UNCHANGED <<files, packets, blueprint, report, workspaces, history>>
    PROVE  IInv'
<1>1. TypeOK' /\ StatusInv'
  BY DEF IInv, TypeOK, StatusInv
<1>2. FilesInv'
  BY DEF IInv, FilesInv, Written, Stage, Intact, Copies
<1>3. StoriesInv'
  BY DEF IInv, StoriesInv, Known, Copies, Sound, Listed, Fetched, Written, Stage, Seen
<1> QED
  BY <1>1, <1>2, <1>3 DEF IInv

LEMMA CreateStart ==
    ASSUME IInv, command = None, command' \in Commands, command'.at = "create",
           command'.op # "promote", command'.file = New, command'.op = "ticket" => command'.id \in Tickets,
           \A i \in command'.left \cup {command'.id} : Copies(i) = {},
           command'.id \notin command'.left,
           command'.named \subseteq command'.left \cup {command'.id},
           UNCHANGED <<files, packets, blueprint, report, workspaces, history>>
    PROVE  IInv'
<1>1. CommandInv'
  BY DEF CommandInv, At, Fetched, Written, Numbered, Stage, Copies
<1> QED
  BY <1>1, StartInv

LEMMA CreationsInv ==
    ASSUME IInv,
           \/ \E t \in Tickets, s \in DOMAIN workspaces \cup {None} : CreateTicket(t, s)
           \/ \E id \in Items : CreateItem(id)
           \/ \E ids \in SUBSET Items : Record(ids)
    PROVE  IInv'
<1>1. DOMAIN workspaces \subseteq Stories
  BY DEF IInv, TypeOK
<1>2. New \in Files /\ "pending" \in Folders
  BY NewIs, FoldersAre
<1>3. ASSUME NEW t \in Tickets, NEW s \in DOMAIN workspaces \cup {None}, CreateTicket(t, s)
      PROVE  IInv'
  <2>1. command' = Step("create", "ticket", t, "pending", "pending", New, s)
    BY <1>3 DEF CreateTicket
  <2>2. /\ command' \in Commands /\ command'.at = "create" /\ command'.op = "ticket"
        /\ command'.id = t /\ command'.file = New /\ command'.left = {} /\ command'.named = {}
    BY <1>1, <1>2, <2>1, StepIs DEF Ids
  <2> QED
    BY <1>3, <2>2, CreateStart DEF CreateTicket
<1>4. ASSUME NEW id \in Items, CreateItem(id)
      PROVE  IInv'
  <2>1. command' = Step("create", "item", id, "pending", "pending", New, None)
    BY <1>4 DEF CreateItem
  <2>2. /\ command' \in Commands /\ command'.at = "create" /\ command'.op = "item"
        /\ command'.id = id /\ command'.file = New /\ command'.left = {} /\ command'.named = {}
    BY <1>2, <2>1, StepIs DEF Ids
  <2> QED
    BY <1>4, <2>2, CreateStart DEF CreateItem
<1>5. ASSUME NEW ids \in SUBSET Items, Record(ids)
      PROVE  IInv'
  <2>1. PICK id \in ids :
           command' = [Step("create", "scan", id, "pending", "pending", New, None)
                       EXCEPT !.left = ids \ {id}, !.named = ids]
    BY <1>5 DEF Record
  <2>2. /\ command' \in Commands /\ command'.at = "create" /\ command'.op = "scan"
        /\ command'.id = id /\ command'.file = New /\ command'.left = ids \ {id}
        /\ command'.named = ids
    <3> DEFINE left == ids \ {id}
    <3>1. id \in Items /\ left \in SUBSET Items
      OBVIOUS
    <3>2. command' = [Step("create", "scan", id, "pending", "pending", New, None)
                      EXCEPT !.left = left, !.named = ids]
      BY <2>1
    <3> HIDE DEF left
    <3>3. /\ command' \in Commands /\ command'.at = "create" /\ command'.op = "scan"
          /\ command'.id = id /\ command'.file = New /\ command'.left = left
          /\ command'.named = ids
      BY <3>1, <3>2, ScanIs
    <3> QED
      BY <3>3 DEF left
  <2> QED
    BY <1>5, <2>2, CreateStart DEF Record
<1> QED
  BY <1>3, <1>4, <1>5

\* A file that a command fetched for a move.
LEMMA FetchStart ==
    ASSUME IInv, command = None, NEW c, command' = c, c \in Commands, c.at = "write",
           c.op \in {"ticket", "item"}, c.from \in Copies(c.id),
           c.file = [Loaded(c.id, c.from) EXCEPT !.status = c.to],
           UNCHANGED <<files, packets, blueprint, report, workspaces, history>>
    PROVE  IInv'
<1> DEFINE loaded == Loaded(c.id, c.from)
<1>1. c \in Commands /\ c # None /\ c.id \in Ids /\ c.from \in Folders /\ c.to \in Folders
  BY QueuesAssumption DEF Commands
<1>2. /\ loaded \in Files
      /\ files[c.id][c.from] # Torn => loaded = files[c.id][c.from]
      /\ files[c.id][c.from] = Torn => loaded.story = None
  BY <1>1, LoadedType DEF IInv
<1>3. c.file.whole = loaded.whole /\ c.file.status = c.to /\ c.file.story = loaded.story
  <2> HIDE DEF loaded
  <2>1. c.file = [loaded EXCEPT !.status = c.to]
    BY DEF loaded
  <2> QED
    BY <1>2, <2>1 DEF Files
<1>4. c.id \notin history.torn => files[c.id][c.from] # Torn /\ files[c.id][c.from].whole
  BY <1>1 DEF IInv, FilesInv
<1>5. c.id \in Items => Sound(c.id, c.file.story)
  <2>1. CASE files[c.id][c.from] = Torn
    BY <1>2, <1>3, <2>1 DEF Sound
  <2>2. CASE files[c.id][c.from] # Torn
    BY <1>2, <1>3, <2>2 DEF IInv, StoriesInv
  <2> QED
    BY <2>1, <2>2
<1>6. CommandInv'
  <2> HIDE DEF loaded
  <2>1. c.from \in Copies(c.id)' /\ (c.id \in Items => Sound(c.id, c.file.story)')
    BY <1>5 DEF Copies, Sound, Listed
  <2>2. /\ ~Written' /\ ~Numbered' /\ ~At("create")' /\ ~At("block")' /\ ~At("report")'
        /\ ~At("status")' /\ ~Stage({"folder", "status"})'
    BY DEF Written, Numbered, At, Stage
  <2> QED
    BY <1>1, <1>2, <1>3, <1>4, <2>1, <2>2 DEF CommandInv
<1> QED
  BY <1>1, <1>6, StartInv

LEMMA MovesInv ==
    ASSUME IInv,
           \/ \E t \in Tickets, to \in TicketFolders : MoveTicket(t, to)
           \/ \E id \in Items, to \in Decisions : SetStatus(id, to)
    PROVE  IInv'
<1>1. ASSUME NEW op \in {"ticket", "item"}, NEW id \in Ids, NEW to \in Folders,
             command = None, Copies(id) # {},
             command' = Step("write", op, id, Located(id), to,
                             [Loaded(id, Located(id)) EXCEPT !.status = to], None),
             UNCHANGED <<files, packets, blueprint, report, workspaces, history>>
      PROVE  IInv'
  <2> DEFINE from == Located(id)
             file == [Loaded(id, from) EXCEPT !.status = to]
  <2>1. from \in Copies(id) /\ from \in Folders
    BY <1>1, LocatedIn
  <2>2. file \in Files
    <3>1. Loaded(id, from) \in Files
      BY <2>1, LoadedType DEF IInv
    <3> QED
      BY <3>1 DEF Files
  <2>3. command' = Step("write", op, id, from, to, file, None)
    BY <1>1
  <2>4. file = [Loaded(id, from) EXCEPT !.status = to]
    OBVIOUS
  <2> HIDE DEF from, file
  <2>5. /\ command' \in Commands /\ command'.at = "write" /\ command'.op = op
        /\ command'.id = id /\ command'.from = from /\ command'.to = to /\ command'.file = file
    BY <2>1, <2>2, <2>3, StepIs
  <2> QED
    BY <1>1, <2>1, <2>4, <2>5, FetchStart
<1>2. ASSUME NEW t \in Tickets, NEW to \in TicketFolders, MoveTicket(t, to)
      PROVE  IInv'
  BY <1>1, <1>2 DEF MoveTicket, Ids, Folders
<1>3. ASSUME NEW id \in Items, NEW to \in Decisions, SetStatus(id, to)
      PROVE  IInv'
  BY <1>1, <1>3, QueuesAssumption DEF SetStatus, Ids, Folders
<1> QED
  BY <1>2, <1>3

LEMMA PromoteInv ==
    ASSUME IInv, NEW id \in Items, NEW allowPending \in BOOLEAN,
           NEW to \in {None, "closed", "parked"}, Promote(id, allowPending, to)
    PROVE  IInv'
<1> DEFINE from == Located(id)
           loaded == Loaded(id, from)
           story == [number |-> NextNumber, item |-> id, seen |-> TRUE]
           target == IF to = None THEN from ELSE to
           file == [loaded EXCEPT !.story = story, !.status = IF to = None THEN @ ELSE to]
<1>1. command = None /\ Copies(id) # {} /\ loaded.story = None /\ blueprint.text = "yaml"
      /\ NextNumber <= MaxNumber
      /\ command' = Step("append", "promote", id, from, target, file, story)
      /\ UNCHANGED <<files, packets, blueprint, report, workspaces, history>>
  BY DEF Promote
<1>2. from \in Copies(id) /\ from \in Folders /\ id \in Ids /\ target \in Folders
  BY <1>1, LocatedIn, FoldersAre DEF Ids
<1>3. loaded \in Files /\ (files[id][from] # Torn => loaded = files[id][from])
  BY <1>2, LoadedType DEF IInv
<1>4. /\ NextNumber \in 1..MaxNumber /\ \A s \in Seen(Known) : s.number # NextNumber
  BY <1>1, NumberIsFree DEF IInv
<1>5. story \in Stories /\ story.number = NextNumber /\ story.item = id
  BY <1>4 DEF Stories
<1> HIDE DEF story
<1>6. /\ file \in Files /\ file.story = story /\ file.whole = loaded.whole
      /\ file.status = IF to = None THEN loaded.status ELSE to
  <2> HIDE DEF loaded
  <2> QED
    BY <1>2, <1>3, <1>5 DEF Files
<1>7. id \notin history.torn =>
         loaded.whole /\ files[id][from].story = None /\ files[id][from] = loaded
  BY <1>1, <1>2, <1>3 DEF IInv, FilesInv
<1>8. Intact(id) => loaded.status = from
  <2>1. Intact(id) => \E f \in Folders : Copies(id) = {f} /\ files[id][f].status = f
    BY <1>1, <1>2 DEF IInv, FilesInv, Written, Stage
  <2> QED
    BY <1>2, <1>7, <2>1 DEF Intact
<1> HIDE DEF from, loaded, file
<1>9. Intact(id) => file.status = target
  BY <1>6, <1>8
<1> HIDE DEF target
<1>10. /\ command' \in Commands /\ command' # None /\ command'.at = "append"
       /\ command'.op = "promote" /\ command'.id = id /\ command'.from = from
       /\ command'.to = target /\ command'.file = file /\ command'.story = story
  BY <1>1, <1>2, <1>5, <1>6, StepIs
<1>11. CommandInv'
  <2>1. /\ ~Written' /\ ~At("create")' /\ ~At("block")' /\ ~At("report")' /\ ~At("write")'
        /\ ~At("status")' /\ ~Stage({"folder", "status"})'
    BY <1>10 DEF Written, Numbered, At, Stage
  <2>2. from \in Copies(id)' /\ UNCHANGED <<files, history, Known>>
    BY <1>1, <1>2 DEF Copies, Known
  <2>3. Intact(id)' => Intact(id)
    BY <2>2 DEF Intact
  <2>4. \A s \in Seen(Known) : s.number # story.number
    BY <1>4, <1>5
  <2>5. Intact(id) => id \notin history.torn
    BY DEF Intact
  <2> QED
    BY <1>5, <1>6, <1>7, <1>9, <1>10, <2>1, <2>2, <2>3, <2>4, <2>5 DEF CommandInv
<1> QED
  BY <1>1, <1>10, <1>11, StartInv

-----------------------------------------------------------------------------
(* Commands on tickets and items, step by step *)

\* A command goes on, and keeps all it holds.
LEMMA GotoIs ==
    ASSUME TypeOK, command # None, NEW to \in {"folder", "status", "write", "packet", "unpack",
                                               "unlink", "block", "report"}, Goto(to)
    PROVE  /\ command' \in Commands /\ command' # None /\ command'.at = to
           /\ command'.op = command.op /\ command'.id = command.id
           /\ command'.from = command.from /\ command'.to = command.to
           /\ command'.file = command.file /\ command'.story = command.story
           /\ command'.left = command.left /\ command'.named = command.named
<1>1. command \in Commands /\ command' = [command EXCEPT !.at = to]
  BY DEF TypeOK, Goto
<1>2. command' \in Commands
  BY <1>1 DEF Commands
<1> QED
  BY <1>1, <1>2, QueuesAssumption DEF Commands

\* Types of what a running command holds.
LEMMA RunningIs ==
    ASSUME TypeOK, command # None
    PROVE  /\ command \in Commands /\ command.id \in Ids /\ command.from \in Folders
           /\ command.to \in Folders /\ command.file \in Files
           /\ command.story \in Stories \cup {None}
           /\ command.left \subseteq Items /\ command.named \subseteq Items
BY DEF TypeOK, Commands

\* The files after one of them was written or removed.
LEMMA FilesAre ==
    ASSUME TypeOK, NEW id \in Ids, NEW f \in Folders, NEW c \in Copy,
           files' = [files EXCEPT ![id][f] = c]
    PROVE  /\ files' \in [Ids -> [Folders -> Copy]]
           /\ \A i \in Ids, g \in Folders :
                 files'[i][g] = IF i = id /\ g = f THEN c ELSE files[i][g]
           /\ \A i \in Ids \ {id} : Copies(i)' = Copies(i)
           /\ c # None => Copies(id)' = Copies(id) \cup {f}
           /\ c = None => Copies(id)' = Copies(id) \ {f}
<1>1. files' \in [Ids -> [Folders -> Copy]]
  BY DEF TypeOK
<1>2. \A i \in Ids, g \in Folders :
         files'[i][g] = IF i = id /\ g = f THEN c ELSE files[i][g]
  BY DEF TypeOK
<1> QED
  BY <1>1, <1>2 DEF Copies

\* The command ends and leaves what it has written.
LEMMA StopStep ==
    ASSUME IInv, command' = None, UNCHANGED <<files, packets, blueprint, workspaces, history>>,
           report' = report \/ (report' \subseteq Items \cap history.made), ~Written,
           Fetched /\ command.op = "promote" => ~Intact(command.id)
    PROVE  IInv'
<1>1. TypeOK' /\ StatusInv'
  BY DEF IInv, TypeOK, StatusInv
<1>2. FilesInv'
  BY DEF IInv, FilesInv, Written, Stage, Intact, Copies
<1>3. StoriesInv'
  <2>1. ASSUME Fetched, command.op = "promote"
        PROVE  command.id \in history.split \cup history.torn
    <3>1. command.id \in Ids /\ Copies(command.id) # {}
      BY <2>1 DEF IInv, CommandInv, Ids
    <3> QED
      BY <2>1, <3>1 DEF IInv, FilesInv, Intact
  <2> QED
    BY <2>1 DEF IInv, StoriesInv, Known, Copies, Sound, Listed, Fetched, Written, Stage, Seen
<1>4. CommandInv'
  BY DEF CommandInv, At, Fetched, Written, Numbered, Stage
<1> QED
  BY <1>1, <1>2, <1>3, <1>4 DEF IInv

\* A ticket, an item, or one more item of a scan, is on disk.
LEMMA CreateInv ==
    ASSUME IInv, Create
    PROVE  IInv'
<1> DEFINE id == command.id
<1>1. /\ At("create") /\ id \in Ids /\ Copies(id) = {} /\ command.file = New
      /\ command \in Commands /\ command # None /\ command.left \subseteq Items
      /\ "pending" \in Folders /\ New \in Copy /\ New # None /\ New # Torn
      /\ command.op # "promote" /\ id \notin command.left
      /\ \A i \in command.left : Copies(i) = {} /\ i \in Ids
      /\ command.named \subseteq history.made \cup command.left \cup {id}
  BY RunningIs, NewIs, FoldersAre, QueuesAssumption DEF IInv, Create, CommandInv, At, Copy, Ids
<1>2. /\ files' \in [Ids -> [Folders -> Copy]]
      /\ \A i \in Ids, g \in Folders :
            files'[i][g] = IF i = id /\ g = "pending" THEN New ELSE files[i][g]
      /\ \A i \in Ids : Copies(i)' = IF i = id THEN {"pending"} ELSE Copies(i)
  <2>1. files' = [files EXCEPT ![id]["pending"] = New]
    BY <1>1 DEF Create
  <2>2. /\ files' \in [Ids -> [Folders -> Copy]]
        /\ \A i \in Ids, g \in Folders :
              files'[i][g] = IF i = id /\ g = "pending" THEN New ELSE files[i][g]
    BY <1>1, <2>1 DEF IInv, TypeOK
  <2> QED
    BY <1>1, <2>2 DEF Copies
<1>3. /\ history' \in [made : SUBSET Ids, torn : SUBSET Ids, split : SUBSET Ids,
                       redone : SUBSET Ids, crashes : Nat]
      /\ history'.made = history.made \cup {id} /\ history'.torn = history.torn
      /\ history'.split = history.split /\ history'.redone = history.redone
  BY <1>1 DEF IInv, TypeOK, Create
<1>4. UNCHANGED <<packets, blueprint, report, workspaces>>
  BY DEF Create
<1>5. /\ command' \in Commands \cup {None} /\ ~Fetched /\ ~Written
      /\ command' # None =>
            /\ command'.at \in {"create", "block", "report"}
            /\ command'.at = "block" => command'.id = id /\ id \in Tickets
            /\ command'.at = "report" => command'.named \subseteq history'.made
            /\ command'.at = "create" =>
                  /\ command'.op # "promote" /\ command'.file = New
                  /\ command'.op = "ticket" => command'.id \in Tickets
                  /\ command'.id \in command.left /\ command'.left = command.left \ {command'.id}
                  /\ command'.named = command.named
  <2>1. ~Fetched /\ ~Written
    BY <1>1 DEF Fetched, Written, Stage, At
  <2>2. CASE command.op = "ticket"
    <3>1. Goto("block")
      BY <2>2 DEF Create
    <3> QED
      BY <1>1, <2>1, <2>2, <3>1, GotoIs DEF IInv, CommandInv
  <2>3. CASE command.op = "item"
    BY <2>1, <2>3 DEF Create
  <2>4. CASE command.op = "scan" /\ command.left = {}
    <3>1. Goto("report")
      BY <2>4 DEF Create
    <3> QED
      BY <1>1, <1>3, <2>1, <2>4, <3>1, GotoIs DEF IInv
  <2>5. CASE command.op = "scan" /\ command.left # {}
    <3>1. PICK i \in command.left : command' = [command EXCEPT !.id = i, !.left = @ \ {i}]
      BY <2>5 DEF Create
    <3>2. command' \in Commands /\ command'.at = "create" /\ command'.op = "scan"
          /\ command'.id = i /\ command'.left = command.left \ {i} /\ command'.file = New
          /\ command'.named = command.named
      <4>1. command.at = "create" /\ i \in Ids
        BY <1>1 DEF At
      <4> QED
        BY <1>1, <2>5, <3>1, <4>1 DEF Commands
    <3> QED
      BY <1>1, <2>1, <3>2
  <2> QED
    BY <1>1, <2>2, <2>3, <2>4, <2>5 DEF Commands
<1>6. TypeOK'
  BY <1>2, <1>3, <1>4, <1>5 DEF IInv, TypeOK
<1>7. CommandInv'
  <2>1. /\ ~Fetched' /\ ~Written' /\ ~Numbered' /\ ~At("status")' /\ ~At("write")'
        /\ ~Stage({"folder", "status"})'
    BY <1>5 DEF Fetched, Written, Numbered, Stage, At
  <2>2. At("create")' =>
          \A i \in command'.left \cup {command'.id} : Copies(i)' = {}
    BY <1>1, <1>2, <1>5 DEF At
  <2>3. At("create")' => command'.named \subseteq history'.made \cup command'.left \cup {command'.id}
    BY <1>1, <1>3, <1>5 DEF At
  <2>4. At("create")' => command'.id \notin command'.left
    BY <1>5 DEF At
  <2> QED
    BY <1>3, <1>5, <2>1, <2>2, <2>3, <2>4 DEF CommandInv, At
<1>8. FilesInv'
  <2>1. \A i \in Ids : Intact(i)' => Intact(i) \/ i = id
    BY <1>3 DEF Intact
  <2>2. ~Written'
    BY <1>5 DEF Written, Stage
  <2>3. \A i \in Ids : Copies(i)' # {} => i \in history'.made \cup history'.torn
    BY <1>2, <1>3 DEF IInv, FilesInv
  <2>4. \A i \in history'.made : Copies(i)' # {}
    <3> SUFFICES ASSUME NEW i \in history'.made PROVE Copies(i)' # {}
      OBVIOUS
    <3>1. i \in Ids /\ (i = id \/ i \in history.made)
      BY <1>1, <1>3 DEF IInv, TypeOK
    <3> QED
      BY <1>2, <3>1 DEF IInv, FilesInv
  <2>5. \A i \in Ids \ history'.torn : \A f \in Copies(i)' : files'[i][f] # Torn /\ files'[i][f].whole
    <3> SUFFICES ASSUME NEW i \in Ids \ history'.torn, NEW f \in Copies(i)'
                 PROVE  files'[i][f] # Torn /\ files'[i][f].whole
      OBVIOUS
    <3>1. CASE i = id
      BY <1>1, <1>2, <3>1, NewIs
    <3>2. CASE i # id
      <4>1. f \in Copies(i) /\ f \in Folders
        BY <1>2, <3>2 DEF Copies
      <4> QED
        BY <1>2, <1>3, <3>2, <4>1 DEF IInv, FilesInv
    <3> QED
      BY <3>1, <3>2
  <2>6. \A i \in Ids : Intact(i)' => \E f \in Folders : Copies(i)' = {f} /\ files'[i][f].status = f
    <3> SUFFICES ASSUME NEW i \in Ids, Intact(i)'
                 PROVE  \E f \in Folders : Copies(i)' = {f} /\ files'[i][f].status = f
      OBVIOUS
    <3>1. CASE i = id
      BY <1>1, <1>2, <3>1, NewIs
    <3>2. CASE i # id
      <4>1. PICK f \in Folders : Copies(i) = {f} /\ files[i][f].status = f
        BY <1>5, <2>1, <3>2 DEF IInv, FilesInv
      <4> QED
        BY <1>2, <3>2, <4>1
    <3> QED
      BY <3>1, <3>2
  <2>7. report' \subseteq history'.made
    BY <1>3, <1>4 DEF IInv, FilesInv
  <2> QED
    BY <2>2, <2>3, <2>4, <2>5, <2>6, <2>7 DEF FilesInv
<1>9. StoriesInv'
  <2>1. UNCHANGED Known /\ \A s \in Known : s.item # id \/ id \notin Items
    BY <1>1, <1>4 DEF Known, IInv, StoriesInv
  <2>2. \A s \in Known : s.item \in Items => s.item \in Ids /\ Copies(s.item)' = Copies(s.item) /\ Copies(s.item) # {}
    BY <1>2, <2>1 DEF IInv, StoriesInv, Ids
  <2>3. \A i \in Items, f \in Folders : Sound(i, files[i][f].story)' <=> 
            \/ i = id /\ f = "pending"
            \/ Sound(i, files[i][f].story)
    <3>1. \A i \in Items, f \in Folders : files'[i][f] = IF i = id /\ f = "pending" THEN New ELSE files[i][f]
      BY <1>2 DEF Ids
    <3> QED
      BY <1>4, <3>1, NewIs DEF Sound, Listed
  <2>4. \A i \in Items : \A f \in Copies(i)' :
           files'[i][f] # Torn => Sound(i, files[i][f].story)'
    <3> SUFFICES ASSUME NEW i \in Items, NEW f \in Copies(i)', files'[i][f] # Torn
                 PROVE  Sound(i, files[i][f].story)'
      OBVIOUS
    <3>1. f \in Folders /\ i \in Ids
      BY DEF Copies, Ids
    <3>2. (i = id /\ f = "pending") \/ (f \in Copies(i) /\ files'[i][f] = files[i][f])
      BY <1>2, <3>1
    <3> QED
      BY <2>3, <3>1, <3>2 DEF IInv, StoriesInv
  <2>5. \A s \in Known, f \in Folders : s.item \in Items => files'[s.item][f] = files[s.item][f]
    BY <1>2, <2>1 DEF Ids
  <2>6. \A s \in Known : s.item \in Items \ (history'.redone \cup history'.split \cup history'.torn) =>
            \A f \in Copies(s.item)' : files'[s.item][f].story = s
    <3> SUFFICES ASSUME NEW s \in Known, NEW f \in Copies(s.item)',
                        s.item \in Items \ (history.redone \cup history.split \cup history.torn)
                 PROVE  files'[s.item][f].story = s
      BY <1>3
    <3>1. f \in Copies(s.item) /\ f \in Folders
      BY <2>2 DEF Copies
    <3> QED
      BY <1>5, <2>5, <3>1 DEF IInv, StoriesInv
  <2>7. \A s, t \in Seen(Known') : s.number = t.number => s = t
    BY <2>1 DEF IInv, StoriesInv
  <2> QED
    BY <2>1, <2>2, <2>4, <2>6, <2>7 DEF StoriesInv
<1>10. StatusInv'
  BY <1>3, <1>4 DEF IInv, StatusInv
<1> QED
  BY <1>6, <1>7, <1>8, <1>9, <1>10 DEF IInv

\* The new file of a move is written; the old one is still there.
LEMMA WriteInv ==
    ASSUME IInv, Write
    PROVE  IInv'
<1>0. PICK id \in Ids, from \in Folders, to \in Folders, file \in Files :
         id = command.id /\ from = command.from /\ to = command.to /\ file = command.file
  BY RunningIs DEF IInv, Write, At
<1>1. /\ At("write") /\ command # None /\ Fetched /\ ~Written
      /\ UNCHANGED <<packets, blueprint, report, workspaces, history>>
      /\ id = command.id /\ from = command.from /\ to = command.to /\ file = command.file
  BY <1>0 DEF Write, At, Fetched, Written, Stage
<1>2. /\ command \in Commands /\ id \in Ids /\ from \in Folders /\ to \in Folders
      /\ file \in Files /\ command.story \in Stories \cup {None}
      /\ from \in Copies(id) /\ file \in Copy /\ file # None /\ file # Torn
  BY <1>1, RunningIs, QueuesAssumption DEF IInv, CommandInv, Copy
<1>3. Intact(id) => Copies(id) = {from} /\ id \notin history.torn
  <2>1. Intact(id) => \E f \in Folders : Copies(id) = {f}
    BY <1>1, <1>2 DEF IInv, FilesInv
  <2> QED
    BY <1>2, <2>1 DEF Intact
<1>4. id \in history.made \cup history.torn
  BY <1>2 DEF IInv, FilesInv
<1>5. CASE files[id][to] # None /\ to # from
  <2>1. command' = None /\ files' = files
    BY <1>1, <1>5 DEF Write
  <2>2. ~Intact(id)
    BY <1>2, <1>3, <1>5 DEF Copies
  <2> QED
    BY <1>1, <2>1, <2>2, StopStep
<1>6. CASE ~(files[id][to] # None /\ to # from)
  <2>1. /\ files' = [files EXCEPT ![id][to] = file]
        /\ Goto(IF id \in Tickets THEN "packet" ELSE "unlink")
    BY <1>1, <1>6 DEF Write
  <2>2. /\ files' \in [Ids -> [Folders -> Copy]]
        /\ \A i \in Ids, g \in Folders :
              files'[i][g] = IF i = id /\ g = to THEN file ELSE files[i][g]
    BY <1>2, <2>1 DEF IInv, TypeOK
  <2>3. \A i \in Ids : Copies(i)' = IF i = id THEN Copies(id) \cup {to} ELSE Copies(i)
    BY <1>2, <2>2 DEF Copies
  <2>4. /\ command' \in Commands /\ command' # None /\ command'.at \in {"packet", "unlink"}
        /\ command'.op = command.op /\ command'.id = id /\ command'.from = from
        /\ command'.to = to /\ command'.file = file /\ command'.story = command.story
    BY <1>1, <2>1, GotoIs DEF IInv
  <2>5. Written' /\ ~Fetched'
    BY <2>4 DEF Written, Fetched, Stage
  <2>6. TypeOK' /\ StatusInv'
    BY <1>1, <2>2, <2>4 DEF IInv, TypeOK, StatusInv
  <2>7. CommandInv'
    <3>1. \A i \in Ids : Intact(i)' <=> Intact(i)
      BY <1>1 DEF Intact
    <3>2. Intact(id) =>
            /\ Copies(id)' = {from, to}
            /\ files'[id][to].status = to
            /\ command.op = "promote" => files'[id][to].story = command.story
      BY <1>1, <1>2, <1>3, <2>2, <2>3 DEF IInv, CommandInv
    <3>3. command.op = "promote" =>
            /\ id \in Items /\ command.story \in Stories
            /\ command.story.item = id /\ file.story = command.story
      BY <1>1 DEF IInv, CommandInv
    <3>4. /\ ~At("create")' /\ ~At("block")' /\ ~At("report")' /\ ~At("status")' /\ ~At("write")'
          /\ ~Numbered' /\ ~Stage({"folder", "status"})'
      BY <2>4 DEF At, Numbered, Stage
    <3>5. to \in Copies(id)'
      BY <1>2, <2>3
    <3> QED
      BY <1>2, <2>4, <2>5, <3>1, <3>2, <3>3, <3>4, <3>5 DEF CommandInv, Copies
  <2>8. FilesInv'
    <3>1. \A i \in Ids : Intact(i)' <=> Intact(i)
      BY <1>1 DEF Intact
    <3>2. \A i \in history'.made : Copies(i)' # {}
      BY <1>1, <2>3 DEF IInv, FilesInv, TypeOK
    <3>3. \A i \in Ids : Copies(i)' # {} => i \in history'.made \cup history'.torn
      BY <1>1, <1>4, <2>3 DEF IInv, FilesInv
    <3>4. ASSUME NEW i \in Ids \ history'.torn, NEW f \in Copies(i)'
          PROVE  files'[i][f] # Torn /\ files'[i][f].whole
      <4>1. f \in Folders
        BY DEF Copies
      <4>2. CASE i = id /\ f = to
        BY <1>1, <1>2, <2>2, <4>1, <4>2 DEF IInv, CommandInv
      <4>3. CASE ~(i = id /\ f = to)
        BY <1>1, <2>2, <2>3, <4>1, <4>3 DEF IInv, FilesInv
      <4> QED
        BY <4>2, <4>3
    <3>5. ASSUME NEW i \in Ids, Intact(i)', i # id
          PROVE  \E f \in Folders : Copies(i)' = {f} /\ files'[i][f].status = f
      <4>1. PICK f \in Folders : Copies(i) = {f} /\ files[i][f].status = f
        BY <1>1, <3>1, <3>5 DEF IInv, FilesInv
      <4> QED
        BY <2>2, <2>3, <3>5, <4>1
    <3>6. report' \subseteq history'.made
      BY <1>1 DEF IInv, FilesInv
    <3> QED
      BY <2>4, <2>5, <3>2, <3>3, <3>4, <3>5, <3>6 DEF FilesInv
  <2>9. StoriesInv'
    <3>1. UNCHANGED Known /\ \A i, story : Sound(i, story)' <=> Sound(i, story)
      BY <1>1 DEF Known, Sound, Listed
    <3>2. \A s \in Known' : s.item \in Items => Copies(s.item)' # {}
      BY <2>3, <3>1 DEF IInv, StoriesInv, Ids
    <3>3. ASSUME NEW i \in Items, NEW f \in Copies(i)', files'[i][f] # Torn
          PROVE  Sound(i, files'[i][f].story)
      <4>1. f \in Folders /\ i \in Ids
        BY DEF Copies, Ids
      <4>2. CASE i = id /\ f = to
        BY <1>1, <2>2, <4>1, <4>2 DEF IInv, CommandInv
      <4>3. CASE ~(i = id /\ f = to)
        BY <2>2, <2>3, <3>3, <4>1, <4>3 DEF IInv, StoriesInv
      <4> QED
        BY <4>2, <4>3
    <3>4. ASSUME NEW s \in Known,
                 s.item \in Items \ (history.redone \cup history.split \cup history.torn)
          PROVE  \/ command.op = "promote" /\ id = s.item /\ command.story = s
                 \/ \A f \in Copies(s.item)' : files'[s.item][f].story = s
      <4>1. s # None
        BY QueuesAssumption DEF IInv, TypeOK, Known
      <4>2. CASE command.op = "promote" /\ id = s.item /\ command.story = s
        BY <4>2
      <4>3. CASE \A f \in Copies(s.item) : files[s.item][f].story = s
        <5>1. CASE s.item # id
          <6>1. s.item \in Ids
            BY <3>4 DEF Ids
          <6>2. \A f \in Copies(s.item)' : f \in Copies(s.item) /\ f \in Folders
            BY <2>3, <5>1, <6>1 DEF Copies
          <6> QED
            BY <2>2, <4>3, <5>1, <6>1, <6>2
        <5>2. CASE s.item = id
          <6>1. Intact(id)
            BY <1>4, <3>4, <5>2 DEF Intact
          <6>2. files[id][from].story = s
            BY <1>2, <4>3, <5>2
          <6>3. command.op # "promote" /\ file.story = s
            BY <1>1, <1>3, <4>1, <6>1, <6>2 DEF IInv, CommandInv
          <6>4. \A f \in Folders : f \in Copies(id)' => f = to \/ f \in Copies(id)
            BY <1>2, <2>3
          <6>5. \A f \in Copies(s.item)' : f \in Folders
            BY DEF Copies
          <6> QED
            BY <1>2, <2>2, <4>3, <5>2, <6>3, <6>4, <6>5
        <5> QED
          BY <5>1, <5>2
      <4> QED
        BY <1>1, <3>4, <4>2, <4>3 DEF IInv, StoriesInv
    <3>5. \A s, t \in Seen(Known') : s.number = t.number => s = t
      BY <3>1 DEF IInv, StoriesInv
    <3> QED
      BY <1>1, <2>4, <2>5, <3>1, <3>2, <3>3, <3>4, <3>5 DEF StoriesInv
  <2> QED
    BY <2>6, <2>7, <2>8, <2>9 DEF IInv
<1> QED
  BY <1>5, <1>6

\* A move goes on between its two file operations: only packets change.
LEMMA PacketsInv ==
    ASSUME IInv, MovePacket \/ DropPacket
    PROVE  IInv'
<1>1. /\ command # None /\ Written /\ UNCHANGED <<files, blueprint, report, workspaces, history>>
      /\ command.id \in Tickets => TRUE
  BY DEF MovePacket, DropPacket, At, Written, Stage
<1>2. /\ command' \in Commands /\ command' # None /\ command'.at \in {"unpack", "unlink"}
      /\ command'.op = command.op /\ command'.id = command.id /\ command'.from = command.from
      /\ command'.to = command.to /\ command'.file = command.file
      /\ command'.story = command.story
  BY <1>1, GotoIs DEF IInv, MovePacket, DropPacket
<1>3. packets' \in [Tickets -> SUBSET Folders]
  <2>1. command.from \in Folders /\ command.to \in Folders
    BY <1>1, RunningIs DEF IInv
  <2> QED
    BY <2>1 DEF IInv, TypeOK, MovePacket, DropPacket
<1>4. Written' /\ ~Fetched'
  BY <1>2 DEF Written, Fetched, Stage
<1>5. TypeOK' /\ StatusInv'
  BY <1>1, <1>2, <1>3 DEF IInv, TypeOK, StatusInv
<1>6. CommandInv'
  <2>1. /\ ~At("create")' /\ ~At("block")' /\ ~At("report")' /\ ~At("status")' /\ ~At("write")'
        /\ ~Numbered' /\ ~Stage({"folder", "status"})'
    BY <1>2 DEF At, Numbered, Stage
  <2>2. \A i : (Copies(i)' = Copies(i)) /\ (Intact(i)' <=> Intact(i))
    BY <1>1 DEF Copies, Intact
  <2> QED
    BY <1>1, <1>2, <1>4, <2>1, <2>2 DEF IInv, CommandInv
<1>7. FilesInv'
  BY <1>1, <1>2, <1>4 DEF IInv, FilesInv, Intact, Copies
<1>8. StoriesInv'
  BY <1>1, <1>2, <1>4 DEF IInv, StoriesInv, Known, Copies, Sound, Listed, Seen
<1> QED
  BY <1>5, <1>6, <1>7, <1>8 DEF IInv

\* The old file is removed, unless it is the new one.
LEMMA UnlinkInv ==
    ASSUME IInv, Unlink
    PROVE  IInv'
<1>0. PICK id \in Ids, from \in Folders, to \in Folders :
         id = command.id /\ from = command.from /\ to = command.to
  BY RunningIs DEF IInv, Unlink, At
<1>1. /\ command # None /\ Written /\ ~Fetched /\ command' = None
      /\ UNCHANGED <<packets, blueprint, report, workspaces, history>>
      /\ id = command.id /\ from = command.from /\ to = command.to
  BY <1>0 DEF Unlink, At, Written, Fetched, Stage
<1>2. /\ id \in Ids /\ from \in Folders /\ to \in Folders /\ to \in Copies(id) /\ None \in Copy
  BY <1>1, RunningIs DEF IInv, CommandInv, Copy
<1>3. /\ files' \in [Ids -> [Folders -> Copy]]
      /\ \A i \in Ids, g \in Folders :
            files'[i][g] = IF i = id /\ g = from /\ from # to THEN None ELSE files[i][g]
  BY <1>1, <1>2 DEF IInv, TypeOK, Unlink
<1>4. \A i \in Ids : Copies(i)' = IF i = id /\ from # to THEN Copies(i) \ {from} ELSE Copies(i)
  BY <1>2, <1>3 DEF Copies
<1>5. \A i \in Ids : Intact(i)' <=> Intact(i)
  BY <1>1 DEF Intact
<1>6. Intact(id) => Copies(id)' = {to} /\ files'[id][to].status = to
                    /\ (command.op = "promote" => files'[id][to].story = command.story)
  BY <1>1, <1>2, <1>3, <1>4 DEF IInv, CommandInv
<1>7. \A i \in Ids : /\ Copies(i)' \subseteq Copies(i) /\ (Copies(i) # {} => Copies(i)' # {})
                     /\ \A f \in Copies(i)' : f \in Folders /\ files'[i][f] = files[i][f]
  <2> SUFFICES ASSUME NEW i \in Ids
               PROVE  /\ Copies(i)' \subseteq Copies(i) /\ (Copies(i) # {} => Copies(i)' # {})
                      /\ \A f \in Copies(i)' : f \in Folders /\ files'[i][f] = files[i][f]
    OBVIOUS
  <2>1. Copies(i)' \subseteq Copies(i) /\ Copies(i) \subseteq Folders
    BY <1>4 DEF Copies
  <2>2. Copies(i) # {} => Copies(i)' # {}
    BY <1>2, <1>4
  <2>3. \A f \in Copies(i)' : files'[i][f] = files[i][f]
    BY <1>3, <1>4, <2>1
  <2> QED
    BY <2>1, <2>2, <2>3
<1>8. TypeOK' /\ StatusInv'
  BY <1>1, <1>3 DEF IInv, TypeOK, StatusInv
<1>9. ~Written' /\ ~Fetched' /\ CommandInv'
  BY <1>1 DEF CommandInv, At, Fetched, Written, Numbered, Stage
<1>10. FilesInv'
  <2>1. \A i \in history'.made : Copies(i)' # {}
    BY <1>1, <1>7 DEF IInv, FilesInv, TypeOK
  <2>2. \A i \in Ids : Copies(i)' # {} => i \in history'.made \cup history'.torn
    BY <1>1, <1>7 DEF IInv, FilesInv
  <2>3. \A i \in Ids \ history'.torn : \A f \in Copies(i)' : files'[i][f] # Torn /\ files'[i][f].whole
    BY <1>1, <1>7 DEF IInv, FilesInv
  <2>4. ASSUME NEW i \in Ids, Intact(i)'
        PROVE  \E f \in Folders : Copies(i)' = {f} /\ files'[i][f].status = f
    <3>1. CASE i = id
      BY <1>2, <1>5, <1>6, <2>4, <3>1
    <3>2. CASE i # id
      <4>1. PICK f \in Folders : Copies(i) = {f} /\ files[i][f].status = f
        BY <1>1, <1>5, <2>4, <3>2 DEF IInv, FilesInv
      <4> QED
        BY <1>3, <1>4, <3>2, <4>1
    <3> QED
      BY <3>1, <3>2
  <2>5. report' \subseteq history'.made
    BY <1>1 DEF IInv, FilesInv
  <2> QED
    BY <1>9, <2>1, <2>2, <2>3, <2>4, <2>5 DEF FilesInv
<1>11. StoriesInv'
  <2>1. UNCHANGED Known /\ \A i, story : Sound(i, story)' <=> Sound(i, story)
    BY <1>1 DEF Known, Sound, Listed
  <2>2. \A s \in Known' : s.item \in Items => Copies(s.item)' # {}
    BY <1>7, <2>1 DEF IInv, StoriesInv, Ids
  <2>3. \A i \in Items, f \in Folders :
           f \in Copies(i)' /\ files'[i][f] # Torn => Sound(i, files'[i][f].story)
    BY <1>7 DEF IInv, StoriesInv, Ids
  <2>4. ASSUME NEW s \in Known,
               s.item \in Items \ (history.redone \cup history.split \cup history.torn)
        PROVE  \A f \in Copies(s.item)' : files'[s.item][f].story = s
    <3>1. s.item \in Ids /\ Intact(s.item)
      BY <2>4 DEF IInv, StoriesInv, FilesInv, Ids, Intact
    <3>2. CASE command.op = "promote" /\ id = s.item /\ command.story = s
      BY <1>6, <3>1, <3>2
    <3>3. CASE \A f \in Copies(s.item) : files[s.item][f].story = s
      BY <1>7, <3>1, <3>3
    <3> QED
      BY <1>1, <2>4, <3>2, <3>3 DEF IInv, StoriesInv
  <2>5. \A s, t \in Seen(Known') : s.number = t.number => s = t
    BY <2>1 DEF IInv, StoriesInv
  <2>6. \A i \in Items : Copies(i)' \subseteq Folders
    BY DEF Copies
  <2> QED
    BY <1>1, <2>1, <2>2, <2>3, <2>4, <2>5, <2>6 DEF StoriesInv
<1> QED
  BY <1>8, <1>9, <1>10, <1>11 DEF IInv

-----------------------------------------------------------------------------
(* Stories *)

\* A status is not the mark of a missing file.
LEMMA StatusIs ==
    /\ Planned \in Statuses /\ Planned # None
    /\ \A t \in Tickets : [status |-> "blocked", by |-> t] # None
    /\ \A status \in {None, Torn, Planned}
                     \cup {[status |-> "blocked", by |-> t] : t \in Tickets} :
          IfMissing(status) # None /\ (status # None => IfMissing(status) = status)
<1>1. Planned \in Statuses /\ \A t \in Tickets : [status |-> "blocked", by |-> t] \in Statuses
  BY DEF Planned, Statuses
<1> QED
  BY <1>1, QueuesAssumption DEF IfMissing

\* create_support_ticket ends: the story names a ticket that is on disk.
LEMMA BlockInv ==
    ASSUME IInv, Block
    PROVE  IInv'
<1> DEFINE story == command.story
           status == [status |-> "blocked", by |-> command.id]
<1>1. /\ At("block") /\ command # None /\ ~Written /\ ~Fetched /\ command' = None
      /\ UNCHANGED <<files, packets, blueprint, report, history>>
      /\ command.id \in history.made \cap Tickets /\ status # None
  BY StatusIs DEF IInv, CommandInv, Block, At, Written, Fetched, Stage
<1>2. /\ workspaces' = [s \in DOMAIN workspaces |-> workspaces'[s]]
      /\ \A s \in DOMAIN workspaces : workspaces'[s] \in {workspaces[s], status}
  BY DEF Block, IInv, TypeOK
<1> HIDE DEF story
<1>3. DOMAIN workspaces' = DOMAIN workspaces
  BY <1>2
<1>4. TypeOK' /\ UNCHANGED Known
  BY <1>1, <1>2, <1>3 DEF IInv, TypeOK, Known
<1>5. StatusInv'
  BY <1>1, <1>2, <1>3 DEF IInv, StatusInv
<1>6. CommandInv' /\ ~Written' /\ ~Fetched'
  BY <1>1 DEF CommandInv, At, Fetched, Written, Numbered, Stage
<1>7. FilesInv'
  BY <1>1, <1>6 DEF IInv, FilesInv, Intact, Copies
<1>8. \A i, s : Sound(i, s) => Sound(i, s)'
  BY <1>1, <1>2, <1>3 DEF Sound, Listed
<1>9. StoriesInv'
  BY <1>1, <1>4, <1>6, <1>8 DEF IInv, StoriesInv, Copies
<1> QED
  BY <1>4, <1>5, <1>6, <1>7, <1>9 DEF IInv

\* write_improvement_record_report, and the cloud packet of a ticket.
LEMMA ReportsInv ==
    ASSUME IInv, WriteReport \/ \E t \in Tickets : CreatePacket(t)
    PROVE  IInv'
<1>1. CASE WriteReport
  <2>1. command # None /\ ~Written /\ ~Fetched /\ command.named \subseteq Items \cap history.made
    BY <1>1, RunningIs DEF WriteReport, At, Written, Fetched, Stage, IInv, CommandInv
  <2> QED
    BY <1>1, <2>1, StopStep DEF WriteReport
<1>2. ASSUME NEW t \in Tickets, CreatePacket(t)
      PROVE  IInv'
  <2>1. Located(t) \in Folders
    BY <1>2, LocatedIn DEF CreatePacket
  <2>2. TypeOK' /\ StatusInv'
    BY <1>2, <2>1 DEF IInv, TypeOK, StatusInv, CreatePacket
  <2>3. CommandInv'
    BY <1>2 DEF CommandInv, CreatePacket, At, Fetched, Written, Numbered, Stage
  <2>4. FilesInv' /\ StoriesInv'
    BY <1>2 DEF IInv, Seen, FilesInv, StoriesInv, CreatePacket, Known, Sound, Listed, Copies, Written,
                Fetched, Stage, Intact
  <2> QED
    BY <2>2, <2>3, <2>4 DEF IInv
<1> QED
  BY <1>1, <1>2

\* The promotion of a command goes on: its story may become known, and what is
\* there stays.
LEMMA PromotionGoesOn ==
    ASSUME IInv, Numbered, NEW id \in Items, NEW story \in Stories, NEW to \in {"folder", "status", "write"},
           id = command.id, story = command.story,
           Goto(to), UNCHANGED <<files, packets, report, history>>, TypeOK', StatusInv',
           Known' \subseteq Known \cup {story},
           \A i \in Items, s \in Stories : Sound(i, s) => Sound(i, s)',
           to \in {"folder", "status"} => (Listed' => story \in blueprint'.stories),
           to = "status" => story \in DOMAIN workspaces',
           to = "write" => Sound(id, story)'
    PROVE  IInv'
<1>1. /\ command # None /\ Fetched /\ ~Written /\ command.op = "promote"
      /\ command.story.item = id /\ command.file.story = story /\ command.from \in Copies(id)
  BY DEF Numbered, Fetched, Written, Stage, IInv, CommandInv
<1>2. /\ command' \in Commands /\ command' # None /\ command'.at = to
      /\ command'.op = "promote" /\ command'.id = id /\ command'.from = command.from
      /\ command'.to = command.to /\ command'.file = command.file /\ command'.story = story
  BY <1>1, GotoIs DEF IInv
<1>3. Fetched' /\ ~Written'
  BY <1>2 DEF Fetched, Written, Stage
<1>4. \A i : Copies(i)' = Copies(i) /\ (Intact(i)' <=> Intact(i))
  BY DEF Copies, Intact
<1>5. CommandInv'
  <2>1. /\ ~At("create")' /\ ~At("block")' /\ ~At("report")'
        /\ At("status")' => to = "status"
        /\ At("write")' => to = "write"
        /\ Stage({"folder", "status"})' => to \in {"folder", "status"}
    BY <1>2 DEF At, Stage
  <2>2. \A s \in Seen(Known') : s.number = story.number => s = story
    BY DEF IInv, CommandInv, Seen
  <2>3. /\ id \notin history.torn => command.file.whole
        /\ Intact(id) => command.file.status = command.to
        /\ Intact(id) => files[id][command.from].story = None
    BY <1>1 DEF IInv, CommandInv
  <2> QED
    BY <1>1, <1>2, <1>3, <1>4, <2>1, <2>2, <2>3 DEF CommandInv
<1>6. FilesInv'
  BY <1>1, <1>3, <1>4 DEF IInv, FilesInv
<1>7. StoriesInv'
  <2>1. \A s, t \in Seen(Known') : s.number = t.number => s = t
    BY DEF IInv, StoriesInv, CommandInv, Seen
  <2>2. \A s \in Known' : s.item \in Items => Copies(s.item)' # {}
    BY <1>1, <1>4 DEF IInv, StoriesInv
  <2>3. \A i \in Items : \A f \in Copies(i)' :
           (files[i][f] # Torn)' => Sound(i, files[i][f].story)'
    <3>1. ASSUME NEW i \in Items, NEW f \in Copies(i), files[i][f] # Torn
          PROVE  Sound(i, files[i][f].story)'
      <4>1. Sound(i, files[i][f].story) /\ f \in Folders
        BY <3>1 DEF IInv, StoriesInv, Copies
      <4>2. files[i][f].story \in Stories \cup {None}
        BY <3>1, <4>1 DEF IInv, TypeOK, Copy, Files, Copies, Ids
      <4>3. CASE files[i][f].story = None
        BY <4>3 DEF Sound
      <4>4. CASE files[i][f].story \in Stories
        <5> DEFINE named == files[i][f].story
        <5>1. PICK s \in Stories : s = named
          BY <4>4
        <5>2. Sound(i, s)' /\ s = named'
          BY <4>1, <5>1
        <5> QED
          BY <5>2 DEF Sound
      <4> QED
        BY <4>2, <4>3, <4>4
    <3> QED
      BY <3>1, <1>4
  <2>4. \A s \in Known' :
          s.item \in Items \ (history'.redone \cup history'.split \cup history'.torn) =>
              \/ s = story
              \/ \A f \in Copies(s.item)' : files'[s.item][f].story = s
    BY <1>4 DEF IInv, StoriesInv
  <2> QED
    BY <1>1, <1>2, <1>3, <2>1, <2>2, <2>3, <2>4 DEF StoriesInv
<1> QED
  BY <1>5, <1>6, <1>7 DEF IInv

LEMMA AppendInv ==
    ASSUME IInv, Append
    PROVE  IInv'
<1>1. PICK id \in Items, story \in Stories : id = command.id /\ story = command.story /\ Numbered
  BY DEF IInv, CommandInv, Append, At, Numbered, Fetched, Stage
<1>2. /\ blueprint' = Appended(story) /\ Goto("folder")
      /\ UNCHANGED <<files, packets, report, workspaces, history>>
  BY <1>1 DEF Append
<1>3. /\ blueprint' \in [layout : AllLayouts, text : {"yaml", "broken"}, stories : SUBSET Stories]
      /\ blueprint.stories \subseteq blueprint'.stories
      /\ blueprint'.stories \subseteq blueprint.stories \cup {story}
      /\ (blueprint'.layout \notin {"flush", "flush_list"} /\ blueprint'.text = "yaml") =>
            story \in blueprint'.stories /\ Listed
  <2>1. blueprint \in [layout : AllLayouts, text : {"yaml", "broken"}, stories : SUBSET Stories]
    BY DEF IInv, TypeOK
  <2>2. CASE blueprint.layout = "inline"
    <3>1. blueprint' = [blueprint EXCEPT !.stories = @ \cup {story}, !.layout = "flush"]
      BY <1>2, <2>2 DEF Appended
    <3> QED
      BY <2>1, <3>1 DEF AllLayouts
  <2>3. CASE blueprint.layout = "flush"
    <3>1. blueprint' = [blueprint EXCEPT !.text = "broken"]
      BY <1>2, <2>3 DEF Appended
    <3> QED
      BY <2>1, <3>1
  <2>4. CASE blueprint.layout = "flush_list"
    BY <1>2, <2>1, <2>4 DEF Appended
  <2>5. CASE blueprint.layout \notin {"inline", "flush", "flush_list"}
    <3>1. blueprint' = [blueprint EXCEPT !.stories = @ \cup {story}]
      BY <1>2, <2>5 DEF Appended
    <3> QED
      BY <2>1, <2>5, <3>1 DEF Listed
  <2> QED
    BY <2>2, <2>3, <2>4, <2>5
<1>4. TypeOK' /\ StatusInv'
  <2>1. command' \in Commands
    BY <1>1, <1>2, GotoIs DEF IInv, Numbered, Stage
  <2> QED
    BY <1>2, <1>3, <2>1 DEF IInv, TypeOK, StatusInv
<1>5. Known' \subseteq Known \cup {story}
  BY <1>2, <1>3 DEF Known
<1>6. \A i \in Items, s \in Stories : Sound(i, s) => Sound(i, s)'
  BY <1>2, <1>3 DEF Sound, Listed
<1>7. Listed' => story \in blueprint'.stories
  BY <1>3 DEF Listed
<1> QED
  BY <1>1, <1>2, <1>4, <1>5, <1>6, <1>7, PromotionGoesOn

LEMMA FolderInv ==
    ASSUME IInv, CreateFolder
    PROVE  IInv'
<1>1. PICK id \in Items, story \in Stories : id = command.id /\ story = command.story /\ Numbered
  BY DEF IInv, CommandInv, CreateFolder, At, Numbered, Fetched, Stage
<1>2. /\ workspaces' = With({story}, None) /\ Goto("status")
      /\ UNCHANGED <<files, packets, report, blueprint, history>>
  BY <1>1 DEF CreateFolder
<1>3. /\ DOMAIN workspaces' = DOMAIN workspaces \cup {story}
      /\ \A s \in DOMAIN workspaces' : workspaces'[s] = IF s \in DOMAIN workspaces THEN workspaces[s] ELSE None
      /\ workspaces' = [s \in DOMAIN workspaces' |-> workspaces'[s]]
  BY <1>2 DEF With
<1>4. TypeOK' /\ StatusInv'
  <2>1. command' \in Commands
    BY <1>1, <1>2, GotoIs DEF IInv, Numbered, Stage
  <2>2. DOMAIN workspaces' \subseteq Stories
    BY <1>3 DEF IInv, TypeOK
  <2>3. StatusInv'
    BY <1>2, <1>3 DEF IInv, StatusInv
  <2> QED
    BY <1>2, <1>3, <2>1, <2>2, <2>3 DEF IInv, TypeOK
<1>5. Known' \subseteq Known \cup {story}
  BY <1>2, <1>3 DEF Known
<1>6. \A i \in Items, s \in Stories : Sound(i, s) => Sound(i, s)'
  BY <1>2, <1>3 DEF Sound, Listed
<1>7. Listed' => story \in blueprint'.stories
  BY <1>1, <1>2 DEF Listed, IInv, CommandInv, CreateFolder, At, Stage
<1>8. story \in DOMAIN workspaces'
  BY <1>3
<1> QED
  BY <1>1, <1>2, <1>4, <1>5, <1>6, <1>7, <1>8, PromotionGoesOn

\* The values of status.yaml, of which none is the mark of a missing file.
LEMMA StatusValues ==
    ASSUME IInv, NEW s \in DOMAIN workspaces
    PROVE  /\ IfMissing(workspaces[s]) # None
           /\ workspaces[s] # None => IfMissing(workspaces[s]) = workspaces[s]
           /\ IfMissing(workspaces[s]) \in {workspaces[s], Planned}
<1>1. workspaces[s] \in {None, Torn, Planned} \cup {[status |-> "blocked", by |-> t] : t \in Tickets}
  BY DEF IInv, StatusInv
<1> QED
  BY <1>1, StatusIs DEF IfMissing

LEMMA StatusFileInv ==
    ASSUME IInv, CreateStatus
    PROVE  IInv'
<1>1. PICK id \in Items, story \in Stories : id = command.id /\ story = command.story /\ Numbered
  BY DEF IInv, CommandInv, CreateStatus, At, Numbered, Fetched, Stage
<1>2. /\ workspaces' = [workspaces EXCEPT ![story] = IfMissing(@)] /\ Goto("write")
      /\ UNCHANGED <<files, packets, report, blueprint, history>>
      /\ story \in DOMAIN workspaces /\ story.item = id
      /\ Listed => story \in blueprint.stories
  BY <1>1 DEF CreateStatus, IInv, CommandInv, At, Stage, Fetched
<1>3. /\ DOMAIN workspaces' = DOMAIN workspaces
      /\ workspaces' = [s \in DOMAIN workspaces' |-> workspaces'[s]]
      /\ \A s \in DOMAIN workspaces :
            workspaces'[s] = IF s = story THEN IfMissing(workspaces[s]) ELSE workspaces[s]
  BY <1>2 DEF IInv, TypeOK
<1>4. TypeOK' /\ StatusInv'
  <2>1. command' \in Commands
    BY <1>1, <1>2, GotoIs DEF IInv, Numbered, Stage
  <2>2. StatusInv'
    BY <1>2, <1>3, StatusValues DEF IInv, StatusInv
  <2> QED
    BY <1>2, <1>3, <2>1, <2>2 DEF IInv, TypeOK
<1>5. Known' \subseteq Known \cup {story}
  BY <1>2, <1>3 DEF Known
<1>6. \A i \in Items, s \in Stories : Sound(i, s) => Sound(i, s)'
  BY <1>2, <1>3, StatusValues DEF Sound, Listed
<1>7. Sound(id, story)'
  BY <1>2, <1>3, StatusValues DEF Sound, Listed
<1> QED
  BY <1>1, <1>2, <1>4, <1>5, <1>6, <1>7, PromotionGoesOn

LEMMA CreateStoriesInv ==
    ASSUME IInv, CreateStories
    PROVE  IInv'
<1>1. command = None /\ UNCHANGED <<files, packets, blueprint, report, command, history>>
      /\ None \notin Commands
  BY QueuesAssumption DEF CreateStories
<1>2. /\ DOMAIN workspaces' = DOMAIN workspaces \cup blueprint.stories
      /\ workspaces' = [s \in DOMAIN workspaces' |-> workspaces'[s]]
      /\ \A s \in DOMAIN workspaces' :
            workspaces'[s] = IF s \in blueprint.stories
                             THEN IfMissing(IF s \in DOMAIN workspaces THEN workspaces[s] ELSE None)
                             ELSE workspaces[s]
  BY DEF CreateStories, With
<1>3. \A s \in DOMAIN workspaces' :
         \/ s \in DOMAIN workspaces /\ workspaces'[s] = workspaces[s]
         \/ workspaces'[s] = Planned /\ (s \in DOMAIN workspaces => workspaces[s] = None)
  BY <1>2, StatusValues DEF IfMissing
<1>4. TypeOK' /\ StatusInv' /\ UNCHANGED Known
  BY <1>1, <1>2, <1>3 DEF IInv, TypeOK, StatusInv, Known
<1>5. CommandInv' /\ ~Written' /\ ~Fetched' /\ ~Written /\ ~Fetched
  BY <1>1 DEF CommandInv, At, Fetched, Written, Numbered, Stage
<1>6. FilesInv'
  BY <1>1, <1>5 DEF IInv, FilesInv, Intact, Copies
<1>7. \A i, s : Sound(i, s) => Sound(i, s)'
  BY <1>1, <1>2, <1>3, StatusIs DEF Sound, Listed
<1>8. StoriesInv'
  BY <1>1, <1>4, <1>5, <1>7 DEF IInv, StoriesInv, Copies
<1> QED
  BY <1>4, <1>5, <1>6, <1>8 DEF IInv

-----------------------------------------------------------------------------
(* Death of a command *)

\* The one file that was being written is empty; nothing else has changed.
LEMMA TearIs ==
    ASSUME IInv, Crash, NEW id \in Ids, id = command.id
    PROVE  /\ command # None /\ command' = None /\ UNCHANGED <<packets, report>>
           /\ files' # files => \E f \in Folders : files' = [files EXCEPT ![id][f] = Torn]
           /\ blueprint' \in [layout : AllLayouts, text : {"yaml", "broken"}, stories : SUBSET Stories]
           /\ blueprint'.stories = blueprint.stories /\ (Listed' => Listed)
           /\ DOMAIN workspaces' = DOMAIN workspaces
           /\ workspaces' = [s \in DOMAIN workspaces |-> workspaces'[s]]
           /\ \A s \in DOMAIN workspaces : workspaces'[s] \in {workspaces[s], Torn}
<1>1. /\ command # None /\ command' = None /\ UNCHANGED <<packets, report>>
      /\ UNCHANGED <<files, packets, blueprint, report, workspaces>> \/ Tear
  BY DEF Crash, Tear
<1>2. CASE UNCHANGED <<files, packets, blueprint, report, workspaces>>
  BY <1>1, <1>2 DEF IInv, TypeOK, Listed
<1>3. CASE Tear
  <2>1. files' # files => \E f \in Folders : files' = [files EXCEPT ![id][f] = Torn]
    <3>1. "pending" \in Folders /\ command.to \in Folders
      BY <1>1, FoldersAre, RunningIs DEF IInv
    <3> QED
      BY <1>3, <3>1 DEF Tear
  <2>2. \/ blueprint' = [blueprint EXCEPT !.text = "broken"]
        \/ blueprint' = blueprint
    BY <1>3 DEF Tear
  <2>3. \/ workspaces' = workspaces
        \/ workspaces' = [workspaces EXCEPT ![command.story] = Torn]
    BY <1>3 DEF Tear
  <2>4. /\ blueprint' \in [layout : AllLayouts, text : {"yaml", "broken"}, stories : SUBSET Stories]
        /\ blueprint'.stories = blueprint.stories /\ (Listed' => Listed)
    BY <2>2 DEF IInv, TypeOK, Listed
  <2>5. /\ DOMAIN workspaces' = DOMAIN workspaces
        /\ workspaces' = [s \in DOMAIN workspaces |-> workspaces'[s]]
        /\ \A s \in DOMAIN workspaces : workspaces'[s] \in {workspaces[s], Torn}
    BY <2>3 DEF IInv, TypeOK
  <2> QED
    BY <1>1, <2>1, <2>4, <2>5
<1> QED
  BY <1>1, <1>2, <1>3

LEMMA CrashInv ==
    ASSUME IInv, Crash
    PROVE  IInv'
<1>1. PICK id \in Ids : id = command.id
  BY RunningIs DEF IInv, Crash
<1>2. /\ command # None /\ command' = None /\ UNCHANGED <<packets, report>>
      /\ blueprint' \in [layout : AllLayouts, text : {"yaml", "broken"}, stories : SUBSET Stories]
      /\ blueprint'.stories = blueprint.stories /\ (Listed' => Listed)
      /\ DOMAIN workspaces' = DOMAIN workspaces
      /\ workspaces' = [s \in DOMAIN workspaces |-> workspaces'[s]]
      /\ \A s \in DOMAIN workspaces : workspaces'[s] \in {workspaces[s], Torn}
  BY <1>1, TearIs
<1>3. /\ files' \in [Ids -> [Folders -> Copy]]
      /\ \A i \in Ids, f \in Folders :
            files'[i][f] = files[i][f] \/ (files'[i][f] = Torn /\ i = id /\ files' # files)
  <2>1. CASE files' = files
    BY <2>1 DEF IInv, TypeOK
  <2>2. CASE files' # files
    <3>1. PICK g \in Folders : files' = [files EXCEPT ![id][g] = Torn]
      BY <1>1, <2>2, TearIs
    <3> QED
      BY <2>2, <3>1, FilesAre DEF IInv, Copy
  <2> QED
    BY <2>1, <2>2
<1>4. /\ history'.made = history.made /\ history'.crashes \in Nat
      /\ history'.torn = IF files' # files THEN history.torn \cup {id} ELSE history.torn
      /\ history'.split \in {history.split, history.split \cup {id}}
      /\ Written /\ command.from # command.to => id \in history'.split
      /\ history'.redone = IF command.op = "promote" THEN history.redone \cup {id} ELSE history.redone
      /\ history' \in [made : SUBSET Ids, torn : SUBSET Ids, split : SUBSET Ids,
                      redone : SUBSET Ids, crashes : Nat]
  <2>1. history \in [made : SUBSET Ids, torn : SUBSET Ids, split : SUBSET Ids,
                     redone : SUBSET Ids, crashes : Nat]
    BY DEF IInv, TypeOK
  <2>2. history' = [history EXCEPT
           !.torn = IF files' # files THEN @ \cup {id} ELSE @,
           !.split = IF Moving /\ (command.at # "write" \/ files' # files) THEN @ \cup {id} ELSE @,
           !.redone = IF command.op = "promote" THEN @ \cup {id} ELSE @,
           !.crashes = @ + 1]
    BY <1>1 DEF Crash
  <2>3. Written /\ command.from # command.to => Moving /\ command.at # "write"
    BY DEF Moving, Written, Stage
  <2>4. PICK torn, split, redone :
           /\ torn = IF files' # files THEN history.torn \cup {id} ELSE history.torn
           /\ split = IF Moving /\ (command.at # "write" \/ files' # files)
                      THEN history.split \cup {id} ELSE history.split
           /\ redone = IF command.op = "promote" THEN history.redone \cup {id} ELSE history.redone
    OBVIOUS
  <2>5. history' = [history EXCEPT !.torn = torn, !.split = split, !.redone = redone, !.crashes = @ + 1]
    BY <2>2, <2>4
  <2>6. /\ history'.made = history.made /\ history'.crashes \in Nat
        /\ history'.torn = torn /\ history'.split = split /\ history'.redone = redone
    BY <2>1, <2>5
  <2>7. /\ split \in {history.split, history.split \cup {id}}
        /\ Written /\ command.from # command.to => id \in split
    BY <2>3, <2>4
  <2>8. torn \in SUBSET Ids /\ split \in SUBSET Ids /\ redone \in SUBSET Ids
    BY <2>1, <2>4
  <2>9. history' \in [made : SUBSET Ids, torn : SUBSET Ids, split : SUBSET Ids,
                     redone : SUBSET Ids, crashes : Nat]
    <3> DEFINE Histories == [made : SUBSET Ids, torn : SUBSET Ids, split : SUBSET Ids,
                             redone : SUBSET Ids, crashes : Nat]
               first == [history EXCEPT !.torn = torn]
               second == [first EXCEPT !.split = split]
               third == [second EXCEPT !.redone = redone]
    <3>1. history' = [third EXCEPT !.crashes = @ + 1]
      BY <2>1, <2>5
    <3>2. first \in Histories
      BY <2>1, <2>8
    <3> HIDE DEF first
    <3>3. second \in Histories
      BY <2>8, <3>2
    <3> HIDE DEF second
    <3>4. third \in Histories
      BY <2>8, <3>3
    <3> HIDE DEF third
    <3> QED
      BY <3>1, <3>4
  <2> QED
    BY <2>4, <2>6, <2>7, <2>9
<1>5. TypeOK' /\ UNCHANGED Known
  <2>1. packets' \in [Tickets -> SUBSET Folders] /\ report' \subseteq Items
        /\ DOMAIN workspaces' \subseteq Stories
    BY <1>2 DEF IInv, TypeOK
  <2> QED
    <3>1. TypeOK'
      BY <1>2, <1>3, <1>4, <2>1 DEF TypeOK
    <3>2. UNCHANGED Known
      <4>1. blueprint'.stories = blueprint.stories /\ DOMAIN workspaces' = DOMAIN workspaces
        BY <1>2
      <4> QED
        BY <4>1 DEF Known
    <3> QED
      BY <3>1, <3>2
<1>6. /\ \A i \in Ids : Copies(i) \subseteq Copies(i)'
      /\ \A i \in Ids \ history'.torn : files'[i] = files[i] /\ Copies(i)' = Copies(i)
      /\ \A i : Intact(i)' => Intact(i)
  <2>1. Torn # None
    BY QueuesAssumption
  <2>2. \A i \in Ids : Copies(i) \subseteq Copies(i)'
    BY <1>3, <2>1 DEF Copies
  <2>3. ASSUME NEW i \in Ids \ history'.torn
        PROVE  files'[i] = files[i] /\ Copies(i)' = Copies(i)
    <3>1. \A f \in Folders : files'[i][f] = files[i][f]
      BY <1>3, <1>4
    <3>2. files[i] \in [Folders -> Copy] /\ files'[i] \in [Folders -> Copy]
      BY <1>3 DEF IInv, TypeOK
    <3> QED
      BY <3>1, <3>2 DEF Copies
  <2> QED
    BY <1>4, <2>2, <2>3 DEF Intact
<1>7. CommandInv' /\ ~Written' /\ ~Fetched'
  BY <1>2 DEF CommandInv, At, Fetched, Written, Numbered, Stage
<1>8. FilesInv'
  <2>1. report' \subseteq history'.made
    BY <1>2, <1>4 DEF IInv, FilesInv
  <2>2. \A i \in history'.made : Copies(i)' # {}
    BY <1>4, <1>6 DEF IInv, FilesInv, TypeOK
  <2>3. \A i \in Ids : Copies(i)' # {} => i \in history'.made \cup history'.torn
    BY <1>4, <1>6 DEF IInv, FilesInv
  <2>4. \A i \in Ids \ history'.torn : \A f \in Copies(i)' : files'[i][f] # Torn /\ files'[i][f].whole
    BY <1>4, <1>6 DEF IInv, FilesInv
  <2>5. ASSUME NEW i \in Ids, Intact(i)'
        PROVE  \E f \in Folders : Copies(i)' = {f} /\ files'[i][f].status = f
    <3>1. Intact(i) /\ files'[i] = files[i] /\ Copies(i)' = Copies(i) /\ i \notin history'.split
      BY <1>6, <2>5 DEF Intact
    <3>2. CASE Written /\ command.id = i
      <4>1. command.from = command.to /\ command.to \in Folders
        BY <1>1, <1>2, <1>4, <3>1, <3>2, RunningIs DEF IInv
      <4>2. Copies(i) = {command.from, command.to} /\ files[i][command.to].status = command.to
        BY <3>1, <3>2 DEF IInv, CommandInv
      <4> QED
        BY <3>1, <4>1, <4>2
    <3>3. CASE ~(Written /\ command.id = i)
      BY <3>1, <3>3 DEF IInv, FilesInv
    <3> QED
      BY <3>2, <3>3
  <2> QED
    BY <2>1, <2>2, <2>3, <2>4, <2>5 DEF FilesInv
<1>9. \A i \in Items, s \in Stories : Sound(i, s) => Sound(i, s)'
  <2>1. Torn # None
    BY QueuesAssumption
  <2>2. /\ \A s \in DOMAIN workspaces : workspaces[s] # None => workspaces'[s] # None
        /\ DOMAIN workspaces' = DOMAIN workspaces
        /\ blueprint'.stories = blueprint.stories /\ (Listed' => Listed)
    BY <1>2, <2>1
  <2>3. \A i \in Items, s \in Stories : Sound(i, s) /\ s # None =>
           s.item = i /\ s \in DOMAIN workspaces' /\ workspaces'[s] # None
    BY <2>2 DEF Sound
  <2> QED
    BY <2>2, <2>3 DEF Sound
<1>10. StoriesInv'
  <2>1. \A s, t \in Seen(Known') : s.number = t.number => s = t
    BY <1>5 DEF IInv, StoriesInv
  <2>2. \A s \in Known' : s.item \in Items => Copies(s.item)' # {}
    BY <1>5, <1>6 DEF IInv, StoriesInv, Ids
  <2>3. ASSUME NEW i \in Items, NEW f \in Copies(i)', files'[i][f] # Torn
        PROVE  Sound(i, files[i][f].story)'
    <3>1. files'[i][f] = files[i][f] /\ f \in Copies(i) /\ f \in Folders
      BY <1>3, <2>3 DEF Copies, Ids
    <3>2. Sound(i, files[i][f].story) /\ files[i][f].story \in Stories \cup {None}
      BY <2>3, <3>1 DEF IInv, StoriesInv, TypeOK, Copy, Files, Copies, Ids
    <3>3. CASE files[i][f].story = None
      BY <3>1, <3>3 DEF Sound
    <3>4. CASE files[i][f].story \in Stories
      <4>1. PICK s \in Stories : s = files[i][f].story
        BY <3>4
      <4>2. Sound(i, s)' /\ s = files'[i][f].story
        BY <1>9, <3>1, <3>2, <4>1
      <4> QED
        BY <4>2 DEF Sound
    <3> QED
      BY <3>2, <3>3, <3>4
  <2>4. \A s \in Known' :
          s.item \in Items \ (history'.redone \cup history'.split \cup history'.torn) =>
              \A f \in Copies(s.item)' : files'[s.item][f].story = s
    BY <1>1, <1>4, <1>5, <1>6 DEF IInv, StoriesInv, Ids
  <2> QED
    BY <1>7, <2>1, <2>2, <2>3, <2>4 DEF StoriesInv
<1>11. StatusInv'
  BY <1>2, <1>4 DEF IInv, StatusInv
<1> QED
  BY <1>5, <1>7, <1>8, <1>10, <1>11 DEF IInv

-----------------------------------------------------------------------------
(* Theorems *)

LEMMA InitInv == Init => IInv
<1> SUFFICES ASSUME Init PROVE IInv
  OBVIOUS
<1>1. command = None /\ ~Fetched /\ ~Written
  BY DEF Init, Fetched, Written, Stage
<1>2. /\ \A id \in Ids : Copies(id) = {}
      /\ history.made = {} /\ history.torn = {} /\ report = {}
  BY DEF Init, Copies
<1>3. DOMAIN workspaces = {} /\ workspaces = [s \in {} |-> workspaces[s]]
  BY DEF Init
<1>4. PICK layout \in AllLayouts, seen \in BOOLEAN :
         blueprint = [layout |-> layout, text |-> "yaml",
                      stories |-> IF layout = "inline" THEN {}
                                  ELSE {[number |-> 1, item |-> None, seen |-> seen]}]
  <2>1. PICK b \in Blueprints :
           blueprint = [layout |-> b.layout, text |-> "yaml",
                        stories |-> IF b.layout = "inline" THEN {}
                                    ELSE {[number |-> 1, item |-> None, seen |-> b.seen]}]
    BY DEF Init
  <2>2. b.layout \in AllLayouts /\ b.seen \in BOOLEAN
    BY QueuesAssumption
  <2> QED
    BY <2>1, <2>2
<1>5. /\ [number |-> 1, item |-> None, seen |-> seen] \in Stories
      /\ Known \subseteq {[number |-> 1, item |-> None, seen |-> seen]} /\ None \notin Items
      /\ blueprint \in [layout : AllLayouts, text : {"yaml", "broken"}, stories : SUBSET Stories]
  <2>1. [number |-> 1, item |-> None, seen |-> seen] \in Stories /\ None \notin Items
    BY QueuesAssumption DEF Stories, Ids
  <2>2. blueprint.stories \subseteq {[number |-> 1, item |-> None, seen |-> seen]}
    BY <1>4
  <2> QED
    BY <1>3, <1>4, <2>1, <2>2 DEF Known
<1>6. TypeOK
  <2>1. history \in [made : SUBSET Ids, torn : SUBSET Ids, split : SUBSET Ids,
                     redone : SUBSET Ids, crashes : Nat]
    BY DEF Init
  <2>2. files \in [Ids -> [Folders -> Copy]] /\ packets \in [Tickets -> SUBSET Folders]
    BY DEF Init, Copy
  <2> QED
    BY <1>1, <1>2, <1>3, <1>5, <2>1, <2>2 DEF TypeOK
<1>7. CommandInv
  BY <1>1 DEF CommandInv, At, Fetched, Written, Numbered, Stage
<1>8. FilesInv
  BY <1>2 DEF FilesInv, Intact
<1>9. StoriesInv
  BY <1>2, <1>5 DEF StoriesInv, Ids, Seen
<1>10. StatusInv
  BY <1>3 DEF StatusInv
<1> QED
  BY <1>6, <1>7, <1>8, <1>9, <1>10 DEF IInv

LEMMA NextInv == IInv /\ [Next]_vars => IInv'
<1> SUFFICES ASSUME IInv, [Next]_vars PROVE IInv'
  OBVIOUS
<1>1. ASSUME NEW t \in Tickets, NEW s \in DOMAIN workspaces \cup {None}, CreateTicket(t, s)
      PROVE  IInv'
  BY <1>1, CreationsInv
<1>2. ASSUME NEW t \in Tickets, NEW to \in TicketFolders, MoveTicket(t, to)
      PROVE  IInv'
  BY <1>2, MovesInv
<1>3. ASSUME NEW t \in Tickets, CreatePacket(t)
      PROVE  IInv'
  BY <1>3, ReportsInv
<1>4. ASSUME NEW id \in Items, CreateItem(id)
      PROVE  IInv'
  BY <1>4, CreationsInv
<1>5. ASSUME NEW ids \in SUBSET Items,
             RecordSuggestions(ids) \/ RecordFindings(ids) \/ RecordFeatures(ids)
      PROVE  IInv'
  BY <1>5, CreationsInv DEF RecordSuggestions, RecordFindings, RecordFeatures
<1>6. ASSUME NEW id \in Items, NEW to \in Decisions, SetStatus(id, to)
      PROVE  IInv'
  BY <1>6, MovesInv
<1>7. ASSUME NEW id \in Items, NEW allowPending \in BOOLEAN, NEW to \in {None, "closed", "parked"},
             Promote(id, allowPending, to)
      PROVE  IInv'
  BY <1>7, PromoteInv
<1>8. CASE CreateStories \/ Create \/ Block \/ WriteReport \/ Write
  BY <1>8, CreateStoriesInv, CreateInv, BlockInv, ReportsInv, WriteInv
<1>9. CASE MovePacket \/ DropPacket \/ Unlink \/ Append \/ CreateFolder \/ CreateStatus
  BY <1>9, PacketsInv, UnlinkInv, AppendInv, FolderInv, StatusFileInv
<1>10. CASE Crash
  BY <1>10, CrashInv
<1>11. CASE UNCHANGED vars
  <2>1. TypeOK' /\ CommandInv' /\ StatusInv'
    BY <1>11 DEF vars, Seen, IInv, TypeOK, CommandInv, StatusInv, At, Fetched, Written, Numbered, Stage,
                 Copies, Intact, Known, Sound, Listed
  <2>2. FilesInv' /\ StoriesInv'
    BY <1>11 DEF vars, Seen, IInv, FilesInv, StoriesInv, Fetched, Written, Stage, Copies, Intact, Known,
                 Sound, Listed
  <2> QED
    BY <2>1, <2>2 DEF IInv
<1> QED
  BY <1>1, <1>2, <1>3, <1>4, <1>5, <1>6, <1>7, <1>8, <1>9, <1>10, <1>11 DEF Next

LEMMA Invariance == Spec => []IInv
BY InitInv, NextInv, PTL DEF Spec

\* The files, the packets, the blueprint, the workspaces and what a command holds have
\* their types, whatever the numbers of tickets, items, stories and crashes
\* (support_queue.py, queue_management.py).
THEOREM TypeCorrect == Spec => []TypeOK
BY Invariance, PTL DEF IInv

\* No ticket and no item disappears, wherever a command dies: what was written into it is lost
\* only with a torn file, it is in one folder unless a move of it died, and the report of a
\* scan names items that were recorded (write_yaml_mapping, remove_source_if_moved).
THEOREM NothingDisappears == Spec => []FilesKept
<1>1. IInv => FilesKept
  <2> SUFFICES ASSUME IInv PROVE FilesKept
    OBVIOUS
  <2>1. command = None => ~Written
    BY DEF Written, Stage
  <2>2. history.made \subseteq Ids
    BY DEF IInv, TypeOK
  <2> QED
    BY <2>1, <2>2 DEF IInv, FilesInv, FilesKept, Intact
<1> QED
  BY <1>1, Invariance, PTL

\* No two stories whose numbers can be read have the same one, an item names no story but its
\* own, which can be worked on, and it has one story unless a promotion or a move of it died
\* (next_story_number, promote_queue_item_to_story, append_story_to_blueprint).
THEOREM StoriesNumbered == Spec => []PromotionsSound
<1>1. IInv => PromotionsSound
  <2> SUFFICES ASSUME IInv PROVE PromotionsSound
    OBVIOUS
  <2>1. \A s, t \in Seen(blueprint.stories \cup DOMAIN workspaces) : s.number = t.number => s = t
    BY DEF IInv, StoriesInv, Known
  <2>2. ASSUME NEW id \in Items, NEW f \in Copies(id) \ {g \in Folders : files[id][g] = Torn}
        PROVE  LET story == files[id][f].story
               IN  story # None =>
                       /\ story.item = id /\ story \in DOMAIN workspaces /\ workspaces[story] # None
                       /\ Listed => story \in blueprint.stories
    BY DEF IInv, StoriesInv, Sound, Copies
  <2>3. ASSUME NEW id \in Items \ (history.redone \cup history.split \cup history.torn),
               NEW s \in DOMAIN workspaces, NEW t \in DOMAIN workspaces, s.item = id, t.item = id
        PROVE  s = t
    <3>1. s \in Known /\ t \in Known /\ s # None /\ t # None
      BY QueuesAssumption DEF Known, IInv, TypeOK
    <3>2. Copies(id) # {} /\ Intact(id)
      <4>1. Copies(id) # {}
        BY <2>3, <3>1 DEF IInv, StoriesInv
      <4> QED
        BY <4>1 DEF IInv, FilesInv, Intact, Ids
    <3> DEFINE promoted(x) == /\ Fetched \/ Written
                              /\ command.op = "promote" /\ command.id = id /\ command.story = x
    <3>3. /\ promoted(s) \/ \A f \in Copies(id) : files[id][f].story = s
          /\ promoted(t) \/ \A f \in Copies(id) : files[id][f].story = t
      BY <2>3, <3>1 DEF IInv, StoriesInv
    <3>4. ASSUME NEW x, x # None, promoted(x)
          PROVE  \E f \in Copies(id) : files[id][f].story \in {None, x}
      BY <3>2, <3>4 DEF IInv, CommandInv
    <3>5. CASE promoted(s) /\ promoted(t)
      BY <3>5
    <3>6. CASE promoted(s) /\ ~promoted(t)
      BY <3>1, <3>3, <3>4, <3>6
    <3>7. CASE ~promoted(s) /\ promoted(t)
      BY <3>1, <3>3, <3>4, <3>7
    <3>8. CASE ~promoted(s) /\ ~promoted(t)
      BY <3>2, <3>3, <3>8
    <3> QED
      BY <3>5, <3>6, <3>7, <3>8
  <2> QED
    BY <2>1, <2>2, <2>3 DEF PromotionsSound
<1> QED
  BY <1>1, Invariance, PTL

\* A blocked story names a ticket that is in some folder, with its question unless a file of
\* it was torn: the ticket is on disk before the story is blocked, and no move of it loses it
\* (create_support_ticket, block_story_if_present, remove_source_if_moved).
THEOREM BlockedNamesTicket == Spec => []BlockedByTicket
<1>1. IInv => BlockedByTicket
  <2> SUFFICES ASSUME IInv, NEW s \in DOMAIN workspaces, workspaces[s] \notin {None, Torn, Planned}
               PROVE  /\ Copies(workspaces[s].by) # {}
                      /\ workspaces[s].by \notin history.torn =>
                            files[workspaces[s].by][Located(workspaces[s].by)].whole
    BY DEF BlockedByTicket
  <2>1. PICK t \in history.made \cap Tickets : workspaces[s].by = t
    BY DEF IInv, StatusInv
  <2>2. Copies(t) # {}
    BY <2>1 DEF IInv, FilesInv
  <2>3. Located(t) \in Copies(t)
    BY <2>2, LocatedIn
  <2> QED
    BY <2>1, <2>2, <2>3 DEF IInv, FilesInv, Ids
<1> QED
  BY <1>1, Invariance, PTL
=============================================================================
