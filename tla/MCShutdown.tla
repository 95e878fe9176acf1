------------------------------ MODULE MCShutdown ------------------------------
(* An early hook, one that is very early but not of the band, an ordinary  *)
(* one, and two disposables: one of the early band, one among the stores.  *)
EXTENDS Shutdown

CONSTANTS predrain, soon, plain, stream, handle

Priorities == [h \in Hook |-> CASE h \in {predrain, stream} -> -100
                                [] h = soon -> -1
                                [] h = plain -> 60
                                [] h = handle -> 60]

PredrainBand == -100
=============================================================================
