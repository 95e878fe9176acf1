------------------------- MODULE MCRosterReadBarrier -------------------------
(* Two connections of one member, two other members, one without a member.  *)
EXTENDS RosterReadBarrier

CONSTANTS tab1, tab2, ann, bob, ghost, m1, m2, m3

Selves == [c \in Caller |-> CASE c \in {tab1, tab2} -> m1
                              [] c = ann -> m2
                              [] c = bob -> m3
                              [] OTHER -> NoId]
=============================================================================
