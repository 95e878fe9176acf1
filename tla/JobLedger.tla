------------------------------- MODULE JobLedger -------------------------------
(***************************************************************************)
(* What the queue promises about a job (packages/queue): it is in one      *)
(* place at a time -- waiting, in the hands of one worker, or in the       *)
(* dead-letter store -- it is handled only in a worker's hands, at most    *)
(* MaxAttempts times between two enqueues by a person, and it is           *)
(* dead-lettered exactly when its attempts are exhausted.                  *)
(*                                                                         *)
(* A job that is over never comes back; the ledger does not say why it is  *)
(* over (handled, cleared, purged, or lost with its worker).               *)
(***************************************************************************)
EXTENDS Naturals

CONSTANTS Job,          \* jobs that may be dispatched
          MaxAttempts   \* attempts each job is given

VARIABLES place,        \* where each job is
          tries         \* times it was handled since it was last enqueued afresh

vars == <<place, tries>>

Place == {"new", "queued", "held", "dead", "over"}

Init == /\ place = [j \in Job |-> "new"]
        /\ tries = [j \in Job |-> 0]

\* One job goes from a place to another; some other jobs are over at once.
Moves(j, from, to, purged) ==
    /\ place[j] = from
    /\ place' = [i \in Job |-> IF i = j THEN to
                               ELSE IF i \in purged THEN "over" ELSE place[i]]

Dispatch(j) == Moves(j, "new", "queued", {}) /\ UNCHANGED tries

Take(j) == Moves(j, "queued", "held", {}) /\ UNCHANGED tries

Try(j) == /\ place[j] = "held"
          /\ tries[j] < MaxAttempts[j]
          /\ tries' = [tries EXCEPT ![j] = @ + 1]
          /\ UNCHANGED place

Retry(j) == /\ 0 < tries[j] /\ tries[j] < MaxAttempts[j]
            /\ Moves(j, "held", "queued", {})
            /\ UNCHANGED tries

\* Dead-lettering may push entries out of the store: those expired, the oldest,
\* or the new one where there is no room.
Bury(j, purged) == /\ tries[j] = MaxAttempts[j]
                   /\ \A i \in purged \ {j} : place[i] = "dead"
                   /\ Moves(j, "held", IF j \in purged THEN "over" ELSE "dead", purged)
                   /\ UNCHANGED tries

Finish(j) == Moves(j, "held", "over", {}) /\ UNCHANGED tries

Revive(j) == /\ Moves(j, "dead", "queued", {})
             /\ tries' = [tries EXCEPT ![j] = 0]

Discard(J, from) == /\ \A j \in J : place[j] = from
                    /\ place' = [j \in Job |-> IF j \in J THEN "over" ELSE place[j]]
                    /\ UNCHANGED tries

Next == \/ \E j \in Job : \/ Dispatch(j) \/ Take(j) \/ Try(j) \/ Retry(j)
                          \/ Finish(j) \/ Revive(j)
                          \/ \E purged \in SUBSET Job : Bury(j, purged)
        \/ \E J \in SUBSET Job : Discard(J, "queued") \/ Discard(J, "dead")

Spec == Init /\ [][Next]_vars
=============================================================================
