--------------------------- MODULE MCSchedulerFleet ---------------------------
(* The first replica has two runs; each other has one, which goes by its name. *)
(* Exchanging those two runs, the other replicas or tokens changes nothing.    *)
EXTENDS SchedulerFleet, TLC

CONSTANTS p1, p2, p3, r1, r2

ReplicaOf == [r \in Run |-> IF r \in Replica THEN r ELSE p1]

Symmetry == Permutations({r1, r2}) \cup Permutations({p2, p3})
              \cup Permutations(Token)
=============================================================================
