-------------------------- MODULE MCStorySelection --------------------------
(* Small instances of StorySelection for TLC: a story told twice. *)
EXTENDS StorySelection, TLC

CONSTANTS s1, e1, e2

OnePublisher == [e \in Entries |-> s1]

OneStory == [e \in Entries |-> "story"]

OwnPage == [e \in Entries |-> e]

OwnText == [e \in Entries |-> e]

AllHigh == [e \in Entries |-> "high"]

WrittenOnce == [e \in Entries |-> 1]
=============================================================================
