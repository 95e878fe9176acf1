--------------------------- MODULE MCPresenceRoster ---------------------------
(* One member, s1, has two connections to the first instance and one to the *)
(* second; the other has one to the first.  A cfg takes some of the four.    *)
EXTENDS PresenceRoster, TLC

CONSTANTS i1, i2, c1, c2, c3, c4, s1, s2

Home == [c \in Conn |-> IF c = c3 THEN i2 ELSE i1]
SlotOf == [c \in Conn |-> IF c = c4 THEN s2 ELSE s1]

Twins == Permutations({c1, c2})
=============================================================================
