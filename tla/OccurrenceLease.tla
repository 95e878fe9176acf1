--------------------------- MODULE OccurrenceLease ---------------------------
(***************************************************************************)
(* What a SchedulerLock promises (packages/scheduler/types.ts): at any     *)
(* time an occurrence is claimed by at most one run, and the claim of a    *)
(* run that is still at work disappears only when its TTL is over: "a      *)
(* claim that expired and was re-acquired elsewhere survives" the release  *)
(* of its former holder.  Elsewhere: the adapters tell the replicas apart, *)
(* not the runs of one replica, so an owner that claims an occurrence anew *)
(* while a run of its own is at work on it has no promise there any more.  *)
(***************************************************************************)
CONSTANTS Owner, Occurrence, Token, Free

VARIABLES holder,     \* the claim that stands on each occurrence, or Free
          working,    \* claims, by whom and of what, whose run was told it
                      \* may run and has not ended
          minted,     \* claims ever made
          lapsed,     \* claims whose TTL passed
          doubled     \* <<owner, occurrence>> without a promise

vars == <<holder, working, minted, lapsed, doubled>>

Init == /\ holder = [k \in Occurrence |-> Free]
        /\ working = {}
        /\ minted = {}
        /\ lapsed = {}
        /\ doubled = {}

Grant(o, k, c) ==
    /\ holder[k] = Free
    /\ c \notin minted
    /\ holder' = [holder EXCEPT ![k] = c]
    /\ minted' = minted \cup {c}
    /\ working' = working \cup {[by |-> o, of |-> k, claim |-> c]}
    /\ doubled' = IF \E w \in working : w.by = o /\ w.of = k
                  THEN doubled \cup {<<o, k>>} ELSE doubled
    /\ UNCHANGED lapsed

\* Runs end (or their replica does); their claims may stand a while longer.
Leave(W) == /\ working' = working \ W
            /\ UNCHANGED <<holder, minted, lapsed, doubled>>

\* A claim is withdrawn as its run ends, or after: never under a run at work
\* that has the promise.
Withdraw(k, W) ==
    /\ holder[k] # Free
    /\ holder' = [holder EXCEPT ![k] = Free]
    /\ working' = working \ W
    /\ \A w \in working \ W : w.claim = holder[k] => <<w.by, w.of>> \in doubled
    /\ UNCHANGED <<minted, lapsed, doubled>>

Lapse(k) == /\ holder[k] # Free
            /\ holder' = [holder EXCEPT ![k] = Free]
            /\ lapsed' = lapsed \cup {holder[k]}
            /\ UNCHANGED <<working, minted, doubled>>

Next == \/ \E o \in Owner, k \in Occurrence, c \in Token : Grant(o, k, c)
        \/ \E W \in SUBSET working : Leave(W)
        \/ \E k \in Occurrence : Lapse(k) \/ \E W \in SUBSET working : Withdraw(k, W)

Spec == Init /\ [][Next]_vars
=============================================================================
