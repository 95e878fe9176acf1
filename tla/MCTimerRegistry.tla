--------------------------- MODULE MCTimerRegistry ---------------------------
(* Two keys, two sleeping promises; delays below the minimum, of one leg,  *)
(* and of two and three legs.                                              *)
EXTENDS TimerRegistry
=============================================================================
