------------------------- MODULE MCChannelMembership -------------------------
(* Two sockets that present one id, one after the other.                    *)
EXTENDS ChannelMembership

CONSTANTS conn, s1, s2, room

SameId == [s \in Socket |-> conn]
=============================================================================
