------------------------- MODULE MCRedisSubscriber -------------------------
(* A control topic, an event channel and a pattern.                         *)
EXTENDS RedisSubscriber

CONSTANTS control, channel, glob
=============================================================================
