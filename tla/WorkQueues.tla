----------------------------- MODULE WorkQueues -----------------------------
(***************************************************************************)
(* The support tickets (support_queue.py) and the queues of improvement,   *)
(* maintenance and feature items (queue_management.py), and the stories    *)
(* they act on: a ticket blocks its story, an item is promoted to a new    *)
(* story, which is added to the blueprint and given a workspace.           *)
(*                                                                         *)
(* A ticket or item is a file in the folder of its status.  Moving it      *)
(* writes the new file and then removes the old one.  One command runs at  *)
(* a time; it may die between any two writes, or with the file it writes   *)
(* left empty.                                                             *)
(***************************************************************************)
EXTENDS Naturals, FiniteSets

CONSTANTS
    None,        \* no file, no ticket, no story
    Torn,        \* a file that was opened for writing and is empty
    Tickets,     \* ids of support tickets
    Items,       \* ids of queue items
    Blueprints,  \* how the blueprint may be at first: its layout, and whether its story is seen
    Decisions,   \* bound on the statuses an item is set to
    MaxNumber,   \* bound on the numbers of stories
    MaxCrashes   \* bound on the commands that die

Ids == Tickets \cup Items
TicketFolders == {"pending", "answered", "closed"}
QueueStatuses == {"pending", "approved", "rejected", "parked", "closed"}
Folders == TicketFolders \cup QueueStatuses
\* The folders are searched in this order.
Order == <<"pending", "answered", "approved", "rejected", "parked", "closed">>

\* "followed": another section comes after the stories; "inline": the list is [];
\* "indented": its entries are indented by two; "flush": they are not, and the last key
\* of the last story is not a list; "flush_list": it is.
AllLayouts == {"followed", "inline", "indented", "flush", "flush_list"}

\* seen: the number can be read in the id, the slug, the folder or the text of the story.
Stories == [number : 1..MaxNumber, item : Items \cup {None}, seen : BOOLEAN]
\* whole: what was written when the file was created is still there.
Files == [status : Folders, whole : BOOLEAN, story : Stories \cup {None}]

\* status.yaml, and what a command may hold while it runs.
Statuses == [status : {"pending", "blocked"}, by : Tickets \cup {None}]
Commands == [at : {"create", "block", "report", "append", "folder", "status", "write",
                   "packet", "unpack", "unlink"},
             op : {"ticket", "item", "scan", "promote"}, id : Ids, from : Folders, to : Folders,
             file : Files, story : Stories \cup {None}, left : SUBSET Items, named : SUBSET Items]

ASSUME QueuesAssumption ==
    /\ None # Torn /\ {None, Torn} \cap (Files \cup Ids) = {}
    /\ None \notin Stories \cup Statuses /\ None \notin Commands
    /\ Tickets \cap Items = {}
    /\ Blueprints \subseteq [layout : AllLayouts, seen : BOOLEAN] /\ Decisions \subseteq QueueStatuses
    /\ MaxNumber \in Nat \ {0} /\ MaxCrashes \in Nat

VARIABLES
    files,       \* the file of each id in each folder
    packets,     \* the folders that hold a cloud packet of a ticket
    blueprint,   \* its layout, its stories, and whether it can be read
    report,      \* the items that the last report of a scan names
    workspaces,  \* status.yaml of each story that has a folder
    command,     \* the command that runs
    history      \* history: the ids created, and those whose file was torn,
                 \* or whose move or promotion died
vars == <<files, packets, blueprint, report, workspaces, command, history>>

Init ==
    /\ files = [id \in Ids |-> [f \in Folders |-> None]]
    /\ packets = [t \in Tickets |-> {}]
    /\ \E b \in Blueprints :
          blueprint = [layout |-> b.layout, text |-> "yaml",
                       stories |-> IF b.layout = "inline" THEN {}
                                   ELSE {[number |-> 1, item |-> None, seen |-> b.seen]}]
    /\ report = {}
    /\ workspaces = << >>
    /\ command = None
    /\ history = [made |-> {}, torn |-> {}, split |-> {}, redone |-> {}, crashes |-> 0]

-----------------------------------------------------------------------------
(* Files *)

Copies(id) == {f \in Folders : files[id][f] # None}

\* find_ticket, find_queue_item: the first folder that has the file.
Located(id) ==
    LET at == CHOOSE n \in DOMAIN Order :
                 Order[n] \in Copies(id) /\ \A m \in 1..(n - 1) : Order[m] \notin Copies(id)
    IN  Order[at]

\* load_yaml_mapping: an empty file is an empty mapping.
Loaded(id, f) ==
    IF files[id][f] = Torn THEN [status |-> f, whole |-> FALSE, story |-> None] ELSE files[id][f]

New == [status |-> "pending", whole |-> TRUE, story |-> None]

\* What a command still has to write.
Step(at, op, id, from, to, file, story) ==
    [at |-> at, op |-> op, id |-> id, from |-> from, to |-> to, file |-> file, story |-> story,
     left |-> {}, named |-> {}]

At(step) == command # None /\ command.at = step
Goto(step) == command' = [command EXCEPT !.at = step]

\* write_yaml_mapping refuses a file that exists, unless it is the one that was read.
Write ==
    /\ At("write")
    /\ IF files[command.id][command.to] # None /\ command.to # command.from
       THEN command' = None /\ UNCHANGED files
       ELSE /\ files' = [files EXCEPT ![command.id][command.to] = command.file]
            /\ Goto(IF command.id \in Tickets THEN "packet" ELSE "unlink")
    /\ UNCHANGED <<packets, blueprint, report, workspaces, history>>

\* move_related_packet: the packet is written again beside the new file, then removed.
MovePacket ==
    /\ At("packet")
    /\ IF command.from \in packets[command.id]
       THEN /\ packets' = [packets EXCEPT ![command.id] = @ \cup {command.to}]
            /\ Goto(IF command.from = command.to THEN "unlink" ELSE "unpack")
       ELSE Goto("unlink") /\ UNCHANGED packets
    /\ UNCHANGED <<files, blueprint, report, workspaces, history>>

DropPacket ==
    /\ At("unpack")
    /\ packets' = [packets EXCEPT ![command.id] = @ \ {command.from}]
    /\ Goto("unlink")
    /\ UNCHANGED <<files, blueprint, report, workspaces, history>>

\* Mutant: the file that was read is removed even if it is the one that was written.
UnlinkAlways ==
    /\ At("unlink")
    /\ files' = [files EXCEPT ![command.id][command.from] = None]
    /\ command' = None
    /\ UNCHANGED <<packets, blueprint, report, workspaces, history>>

\* remove_source_if_moved, the last write of a move.
Unlink ==
    /\ At("unlink")
    /\ files' = IF command.from = command.to THEN files
                ELSE [files EXCEPT ![command.id][command.from] = None]
    /\ command' = None
    /\ UNCHANGED <<packets, blueprint, report, workspaces, history>>

-----------------------------------------------------------------------------
(* Support tickets *)

\* Mutant: the story is blocked before the ticket is on disk.
CreateTicketBlocking(t, story) ==
    /\ command = None /\ Copies(t) = {}
    /\ command' = Step("create", "ticket", t, "pending", "pending", New, story)
    /\ workspaces' = IF story \in DOMAIN workspaces
                     THEN [workspaces EXCEPT ![story] = [status |-> "blocked", by |-> t]]
                     ELSE workspaces
    /\ UNCHANGED <<files, packets, blueprint, report, history>>

\* create_support_ticket: generate_ticket_id takes an id that no folder has.
CreateTicket(t, story) ==
    /\ command = None /\ Copies(t) = {}
    /\ command' = Step("create", "ticket", t, "pending", "pending", New, story)
    /\ UNCHANGED <<files, packets, blueprint, report, workspaces, history>>

\* write_yaml_mapping of a new file: of a ticket, of an item, or of one item after the other
\* for a scan.
Create ==
    /\ At("create")
    /\ files' = [files EXCEPT ![command.id].pending = command.file]
    /\ CASE command.op = "ticket" -> Goto("block")
         [] command.op = "item" -> command' = None
         [] command.op = "scan" /\ command.left = {} -> Goto("report")
         [] OTHER -> \E id \in command.left :
                         command' = [command EXCEPT !.id = id, !.left = @ \ {id}]
    /\ history' = [history EXCEPT !.made = @ \cup {command.id}]
    /\ UNCHANGED <<packets, blueprint, report, workspaces>>

\* block_story_if_present rewrites the status of a story that has a folder, whatever it was.
Block ==
    /\ At("block")
    /\ workspaces' = IF command.story \in DOMAIN workspaces
                     THEN [workspaces EXCEPT ![command.story] = [status |-> "blocked", by |-> command.id]]
                     ELSE workspaces
    /\ command' = None
    /\ UNCHANGED <<files, packets, blueprint, report, history>>

\* answer_support_ticket and close_support_ticket, from any folder.
MoveTicket(t, to) ==
    /\ command = None /\ Copies(t) # {}
    /\ to \in {"answered", "closed"}
    /\ command' = Step("write", "ticket", t, Located(t), to,
                       [Loaded(t, Located(t)) EXCEPT !.status = to], None)
    /\ UNCHANGED <<files, packets, blueprint, report, workspaces, history>>

CreatePacket(t) ==
    /\ command = None /\ Copies(t) # {}
    /\ packets' = [packets EXCEPT ![t] = @ \cup {Located(t)}]
    /\ UNCHANGED <<files, blueprint, report, workspaces, command, history>>

-----------------------------------------------------------------------------
(* Queue items *)

CreateItem(id) ==
    /\ command = None /\ Copies(id) = {}
    /\ command' = Step("create", "item", id, "pending", "pending", New, None)
    /\ UNCHANGED <<files, packets, blueprint, report, workspaces, history>>

\* A scan whose suggestions are all valid; one that is not writes nothing.  It does not
\* know what it recorded before it died: recorded again, every suggestion gets a new item.
Record(ids) ==
    /\ command = None /\ ids # {} /\ \A id \in ids : Copies(id) = {}
    /\ \E id \in ids :
          command' = [Step("create", "scan", id, "pending", "pending", New, None)
                      EXCEPT !.left = ids \ {id}, !.named = ids]
    /\ UNCHANGED <<files, packets, blueprint, report, workspaces, history>>

\* Improvements and repairs are suggested for a story, which must have a folder; features are not.
RecordSuggestions(ids) == DOMAIN workspaces # {} /\ Record(ids)
RecordFindings(ids) == DOMAIN workspaces # {} /\ Record(ids)
RecordFeatures(ids) == Record(ids)

WriteReport ==
    /\ At("report")
    /\ report' = command.named
    /\ command' = None
    /\ UNCHANGED <<files, packets, blueprint, workspaces, history>>

\* set_queue_item_status: from any status to any.
SetStatus(id, to) ==
    /\ command = None /\ Copies(id) # {}
    /\ command' = Step("write", "item", id, Located(id), to,
                       [Loaded(id, Located(id)) EXCEPT !.status = to], None)
    /\ UNCHANGED <<files, packets, blueprint, report, workspaces, history>>

-----------------------------------------------------------------------------
(* Promotion *)

Above(stories) == {n \in 1..(MaxNumber + 1) : \A s \in stories : s.number < n}
Least(numbers) == CHOOSE n \in numbers : \A m \in numbers : n <= m

\* story_numbers_from_text: STORY-nnn, or story_nnn in a name.
Seen(stories) == {s \in stories : s.seen}

\* Mutant: the folders of stories are not looked at.
NextNumberPlanned == Least(Above(Seen(blueprint.stories)))

\* next_story_number: above the numbers it sees in the blueprint and in the folders.
NextNumber == Least(Above(Seen(blueprint.stories \cup DOMAIN workspaces)))

\* promote_queue_item_to_story; to is where the item goes, if it is to be moved.
Promote(id, allowPending, to) ==
    LET from == Located(id)
        file == Loaded(id, from)
        story == [number |-> NextNumber, item |-> id, seen |-> TRUE]
    IN  /\ command = None /\ Copies(id) # {}
        /\ from = "approved" \/ (from = "pending" /\ allowPending)
        /\ file.story = None
        /\ blueprint.text = "yaml"
        /\ NextNumber <= MaxNumber
        /\ story \notin DOMAIN workspaces
        /\ command' = Step("append", "promote", id, from, IF to = None THEN from ELSE to,
                           [file EXCEPT !.story = story, !.status = IF to = None THEN @ ELSE to], story)
        /\ UNCHANGED <<files, packets, blueprint, report, workspaces, history>>

\* append_story_to_blueprint.  As text, indented by two, when the stories are the last section
\* and a block; or the whole blueprint is written anew.  The text lands in the list of stories
\* only if its entries are indented too; else it continues the last list of the last story, or
\* is an error of syntax.
Appended(story) ==
    CASE blueprint.layout = "inline" -> [blueprint EXCEPT !.stories = @ \cup {story}, !.layout = "flush"]
      [] blueprint.layout = "flush" -> [blueprint EXCEPT !.text = "broken"]
      [] blueprint.layout = "flush_list" -> blueprint
      [] OTHER -> [blueprint EXCEPT !.stories = @ \cup {story}]

Append ==
    /\ At("append")
    /\ blueprint' = Appended(command.story)
    /\ Goto("folder")
    /\ UNCHANGED <<files, packets, report, workspaces, history>>

With(new, status) ==
    [s \in DOMAIN workspaces \cup new |-> IF s \in DOMAIN workspaces THEN workspaces[s] ELSE status]

\* create_story_workspace: first the folders, then the files that are missing.
CreateFolder ==
    /\ At("folder")
    /\ workspaces' = With({command.story}, None)
    /\ Goto("status")
    /\ UNCHANGED <<files, packets, blueprint, report, history>>

Planned == [status |-> "pending", by |-> None]
IfMissing(status) == IF status = None THEN Planned ELSE status

CreateStatus ==
    /\ At("status")
    /\ workspaces' = [workspaces EXCEPT ![command.story] = IfMissing(@)]
    /\ Goto("write")
    /\ UNCHANGED <<files, packets, blueprint, report, history>>

\* create_stories_from_blueprint: a workspace for every story it lists, in one step.
CreateStories ==
    /\ command = None
    /\ blueprint.text = "yaml"
    /\ workspaces' = [s \in DOMAIN workspaces \cup blueprint.stories |->
                        IF s \in blueprint.stories THEN IfMissing(With(blueprint.stories, None)[s])
                        ELSE workspaces[s]]
    /\ UNCHANGED <<files, packets, blueprint, report, command, history>>

-----------------------------------------------------------------------------
(* Death of a command *)

\* The file that is being written is left empty.
Tear ==
    \/ /\ At("create")
       /\ files' = [files EXCEPT ![command.id].pending = Torn]
       /\ UNCHANGED <<packets, blueprint, report, workspaces>>
    \/ /\ At("write") /\ (files[command.id][command.to] = None \/ command.to = command.from)
       /\ files' = [files EXCEPT ![command.id][command.to] = Torn]
       /\ UNCHANGED <<packets, blueprint, report, workspaces>>
    \/ /\ At("append")
       /\ blueprint' = [blueprint EXCEPT !.text = "broken"]
       /\ UNCHANGED <<files, packets, report, workspaces>>
    \/ /\ (At("block") /\ command.story \in DOMAIN workspaces) \/ At("status")
       /\ workspaces' = [workspaces EXCEPT ![command.story] = Torn]
       /\ UNCHANGED <<files, packets, blueprint, report>>

\* The file may be in two folders.
Moving == command.from # command.to /\ command.at \in {"write", "packet", "unpack", "unlink"}

Crash ==
    /\ command # None /\ history.crashes < MaxCrashes
    /\ \/ UNCHANGED <<files, packets, blueprint, report, workspaces>>
       \/ Tear
    /\ history' = [history EXCEPT
           !.torn = IF files' # files THEN @ \cup {command.id} ELSE @,
           !.split = IF Moving /\ (command.at # "write" \/ files' # files) THEN @ \cup {command.id} ELSE @,
           !.redone = IF command.op = "promote" THEN @ \cup {command.id} ELSE @,
           !.crashes = @ + 1]
    /\ command' = None

-----------------------------------------------------------------------------

Next ==
    \/ \E t \in Tickets, s \in DOMAIN workspaces \cup {None} : CreateTicket(t, s)
    \/ \E t \in Tickets, to \in TicketFolders : MoveTicket(t, to)
    \/ \E t \in Tickets : CreatePacket(t)
    \/ \E id \in Items : CreateItem(id)
    \/ \E ids \in SUBSET Items : RecordSuggestions(ids) \/ RecordFindings(ids) \/ RecordFeatures(ids)
    \/ \E id \in Items, to \in Decisions : SetStatus(id, to)
    \/ \E id \in Items, allowPending \in BOOLEAN, to \in {None, "closed", "parked"} :
          Promote(id, allowPending, to)
    \/ CreateStories
    \/ Create \/ Block \/ WriteReport \/ Write \/ MovePacket \/ DropPacket \/ Unlink
    \/ Append \/ CreateFolder \/ CreateStatus
    \/ Crash

Spec == Init /\ [][Next]_vars
=============================================================================
