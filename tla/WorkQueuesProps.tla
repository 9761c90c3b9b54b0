--------------------------- MODULE WorkQueuesProps ---------------------------
(* What the support tickets and the queues promise, and one thing they do not. *)
EXTENDS WorkQueues

\* FilesKept: no command, wherever it dies, makes a ticket or an item disappear; what it was
\* created with is lost only with a torn file; and unless a move of it died, it is in one
\* folder, which is the one its status names.  The report of a scan names no other items
\* (write_yaml_mapping, remove_source_if_moved, write_improvement_record_report).
FilesKept ==
    /\ report \subseteq history.made
    /\ \A id \in history.made :
          /\ Copies(id) # {}
          /\ id \notin history.torn => \A f \in Copies(id) : files[id][f].whole
          /\ id \notin history.torn \cup history.split /\ command = None =>
                \E f \in Folders : Copies(id) = {f} /\ files[id][f].status = f

Listed == blueprint.layout \notin {"flush", "flush_list"} /\ blueprint.text = "yaml"

\* PromotionsSound: no two stories whose numbers can be read have the same one, wherever a
\* promotion died and however the blueprint is laid out (a story that has its number only in
\* story_id or in its title shares it with the next promotion); an item that names a story
\* names one of its own that can be worked on and is in the blueprint; and an item has two
\* stories only if a promotion or a move of it died (next_story_number,
\* promote_queue_item_to_story).
PromotionsSound ==
    /\ \A s, t \in Seen(blueprint.stories \cup DOMAIN workspaces) : s.number = t.number => s = t
    /\ \A id \in Items : \A f \in Copies(id) \ {g \in Folders : files[id][g] = Torn} :
          LET story == files[id][f].story
          IN  story # None =>
                  /\ story.item = id /\ story \in DOMAIN workspaces /\ workspaces[story] # None
                  /\ Listed => story \in blueprint.stories
    /\ \A id \in Items \ (history.redone \cup history.split \cup history.torn) :
          \A s, t \in DOMAIN workspaces : s.item = id /\ t.item = id => s = t

\* BlockedByTicket: a story that is blocked names a ticket that can be found, with its
\* question unless a file was torn, wherever any command died (create_support_ticket).
BlockedByTicket ==
    \A s \in DOMAIN workspaces : workspaces[s] \notin {None, Torn, Planned} =>
        LET t == workspaces[s].by
        IN  /\ Copies(t) # {}
            /\ t \notin history.torn => files[t][Located(t)].whole

\* PromotedIntoBlueprint: docs/command_map.md:46: "Promote an approved queue item into the
\* blueprint and story workspace."  The story an item was promoted to is one the blueprint
\* lists (append_story_to_blueprint, from a blueprint laid out as blueprints/blueprint.yaml).
PromotedIntoBlueprint ==
    \A id \in Items : \A f \in Copies(id) \ {g \in Folders : files[id][g] = Torn} :
        files[id][f].story # None =>
            blueprint.text = "yaml" /\ files[id][f].story \in blueprint.stories
=============================================================================
