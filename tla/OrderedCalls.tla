----------------------------- MODULE OrderedCalls -----------------------------
(***************************************************************************)
(* What the users of a RedisClient rely on (redis/client.ts): requests are *)
(* served one at a time, in the order they were made.  A request that is   *)
(* answered was carried out once, before its answer; one that fails was    *)
(* carried out at most once, perhaps after its caller was told and later   *)
(* requests were served.                                                   *)
(***************************************************************************)
EXTENDS Naturals, Sequences

CONSTANT Request

VARIABLES line,       \* the requests in progress, the one served first
          outcome,    \* of each request: "new", "waiting", "answered" or "failed"
          applied     \* times the server carried it out

vars == <<line, outcome, applied>>

Init == /\ line = <<>>
        /\ outcome = [r \in Request |-> "new"]
        /\ applied = [r \in Request |-> 0]

Ask(r) == /\ outcome[r] = "new"
          /\ outcome' = [outcome EXCEPT ![r] = "waiting"]
          /\ line' = Append(line, r)
          /\ UNCHANGED applied

\* Refused at once: never sent.
Decline(r) == /\ outcome[r] = "new"
              /\ outcome' = [outcome EXCEPT ![r] = "failed"]
              /\ UNCHANGED <<line, applied>>

IsServed(r) == line # <<>> /\ r = Head(line)

Apply(r) == /\ IsServed(r) \/ outcome[r] = "failed"
            /\ applied[r] = 0
            /\ applied' = [applied EXCEPT ![r] = 1]
            /\ UNCHANGED <<line, outcome>>

Settle(r, as) == /\ IsServed(r)
                 /\ line' = Tail(line)
                 /\ outcome' = [outcome EXCEPT ![r] = as]
                 /\ UNCHANGED applied

Answer(r) == applied[r] = 1 /\ Settle(r, "answered")

Fail(r) == Settle(r, "failed")

Next == \E r \in Request : \/ Ask(r) \/ Decline(r) \/ Apply(r)
                           \/ Answer(r) \/ Fail(r)

Spec == Init /\ [][Next]_vars
=============================================================================
