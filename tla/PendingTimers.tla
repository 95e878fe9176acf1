---------------------------- MODULE PendingTimers ----------------------------
(***************************************************************************)
(* What the scheduler's timer registry promises, whatever the platform's   *)
(* timers can count to: under each key at most one timer is pending, it    *)
(* fires only after its whole delay, and a promise sleeping on a key is    *)
(* settled by whatever removes the timer: firing, replacement,             *)
(* cancellation or clearing.                                               *)
(*                                                                         *)
(* `left` counts down the delay of a timer.  `parity` tells a timer that   *)
(* fires from one that is removed: it flips whenever a key's timer fires.  *)
(***************************************************************************)
EXTENDS Naturals

CONSTANTS Key,          \* timer keys ("schedule:<task>", "retry:<task>")
          Sleeper,      \* promises handed out by sleep()
          Delay         \* the delays timers are armed with

CONSTANTS NotPending,   \* no timer under a key
          NoSleeper     \* a timer that fires a callback

VARIABLES pending,      \* the timer of each key, or NotPending
          promise,      \* "idle", "awaiting" or "resolved"
          parity        \* whether each key has fired an odd number of times

vars == <<pending, promise, parity>>

\* A timer: what is left of its delay, and the promise it settles, if any.
Timer == [left : Nat, sleeper : Sleeper \cup {NoSleeper}]

Sleeping(k) == IF pending[k] = NotPending THEN NoSleeper ELSE pending[k].sleeper

\* The promises after the timers of the keys K are gone and s starts waiting.
Settle(K, new) ==
    [s \in Sleeper |-> IF s \in new THEN "awaiting"
                       ELSE IF \E k \in K : Sleeping(k) = s THEN "resolved"
                       ELSE promise[s]]

Init == /\ pending = [k \in Key |-> NotPending]
        /\ promise = [s \in Sleeper |-> "idle"]
        /\ parity = [k \in Key |-> FALSE]

Arm(k, d) == /\ pending' = [pending EXCEPT ![k] = [left |-> d, sleeper |-> NoSleeper]]
             /\ promise' = Settle({k}, {})
             /\ UNCHANGED parity

Sleep(k, d, s) == /\ promise[s] = "idle"
                  /\ pending' = [pending EXCEPT ![k] = [left |-> d, sleeper |-> s]]
                  /\ promise' = Settle({k}, {s})
                  /\ UNCHANGED parity

Gone(K) == /\ pending' = [k \in Key |-> IF k \in K THEN NotPending ELSE pending[k]]
           /\ promise' = Settle(K, {})

\* Timers are only ever removed early by their owner: one key, or all of them.
Remove(K) == Gone(K) /\ UNCHANGED parity

Fire(k) == /\ pending[k] # NotPending
           /\ pending[k].left = 0
           /\ Gone({k})
           /\ parity' = [parity EXCEPT ![k] = ~@]

Resume(s) == /\ promise[s] = "resolved"
             /\ promise' = [promise EXCEPT ![s] = "idle"]
             /\ UNCHANGED <<pending, parity>>

Tick == /\ pending' = [k \in Key |->
                        IF pending[k] = NotPending \/ pending[k].left = 0
                        THEN pending[k]
                        ELSE [pending[k] EXCEPT !.left = @ - 1]]
        /\ UNCHANGED <<promise, parity>>

Next == \/ \E k \in Key, d \in Delay : Arm(k, d) \/ \E s \in Sleeper : Sleep(k, d, s)
        \/ \E k \in Key : Remove({k}) \/ Fire(k)
        \/ Remove(Key)
        \/ \E s \in Sleeper : Resume(s)
        \/ Tick

Spec == Init /\ [][Next]_vars
=============================================================================
