---------------------------- MODULE MCRedisClient ----------------------------
(* Commands of ordinary size, one too large to send, and one close().      *)
EXTENDS RedisClient

CONSTANTS quit
=============================================================================
