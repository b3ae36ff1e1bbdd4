-------------------------- MODULE MCSourceDiscovery --------------------------
(* Small instances of SourceDiscovery for TLC: entries that tell one story. *)
EXTENDS SourceDiscovery, TLC

CONSTANTS s1, s2, e1, e2, e3

\* The first entry of one publisher, the others of another.
Publishers == [e \in Entries |-> IF e = e1 THEN s1 ELSE s2]

OnePublisher == [e \in Entries |-> s1]

OneStory == [e \in Entries |-> "story"]

OwnPage == [e \in Entries |-> e]

\* The first two entries are one page in two feeds.
SharedPage == [e \in Entries |-> IF e = e2 THEN e1 ELSE e]

OwnText == [e \in Entries |-> e]

\* An agency's text, printed by both publishers.
AgencyText == [e \in Entries |-> IF e = e3 THEN e3 ELSE "agency"]

OneLow == [e \in Entries |-> IF e = e2 THEN "low" ELSE "high"]

\* One entry is rewritten, the others are written once.
OneRewrite == [e \in Entries |-> IF e = e1 THEN 2 ELSE 1]
=============================================================================
