----------------------------- MODULE MCWorkQueues -----------------------------
(* WorkQueues on a ticket and a few items. *)
EXTENDS WorkQueuesProps, TLC

\* blueprints/blueprint.yaml: the stories are the last section, "- id" is not indented, the
\* last key of the last story is a list, and that story has its number in story_id only.
RepositoryBlueprint == {[layout |-> "flush_list", seen |-> FALSE]}
\* An empty one, one that appending extends, and one that it does not.
SomeBlueprints ==
    {[layout |-> "inline", seen |-> TRUE], [layout |-> "indented", seen |-> FALSE],
     [layout |-> "flush_list", seen |-> TRUE]}
\* No property and no step tells one item from another.
SameItems == Permutations(Items)
=============================================================================
