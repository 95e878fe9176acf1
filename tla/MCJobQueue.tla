------------------------------ MODULE MCJobQueue ------------------------------
(* One job of a single attempt and one of two; two worker loops, two       *)
(* operators (so that revivals race) and room for one dead letter.         *)
EXTENDS JobQueue

CONSTANTS once, twice

Attempts == [j \in Job |-> IF j = twice THEN 2 ELSE 1]
=============================================================================
