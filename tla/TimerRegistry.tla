---------------------------- MODULE TimerRegistry ----------------------------
(***************************************************************************)
(* The scheduler's TimerRegistry (packages/scheduler/timer_registry.ts):   *)
(* a map of named setTimeout handles.  A delay longer than MaxDelay is     *)
(* waited in legs, because setTimeout fires at once when it is given more  *)
(* than a 32-bit signed number of milliseconds; a delay shorter than       *)
(* MinDelay is clamped up.  sleep() hangs a promise on a key, and whatever *)
(* removes that key's timer has to settle the promise.                     *)
(*                                                                         *)
(* Time is a countdown: Tick takes one unit off every running leg, and a   *)
(* leg at 0 may fire now or (event loop busy) any time later.              *)
(***************************************************************************)
EXTENDS Naturals

CONSTANTS Key,          \* timer keys
          Sleeper,      \* promises sleep() may hand out
          Delay,        \* the delays callers ask for
          MinDelay,     \* MIN_DELAY_MS
          MaxDelay,     \* MAX_DELAY_MS
          MaxTimeout,   \* the longest delay setTimeout really waits
          NoEntry,      \* a key without a timer
          NoSleeper     \* the fire of an entry that is not a sleep

ASSUME DelayAssumption == Delay \subseteq Nat
ASSUME LimitAssumption == /\ MinDelay \in Nat \ {0}
                          /\ MaxDelay \in Nat \ {0}
                          /\ MaxTimeout \in Nat
                          /\ MaxDelay <= MaxTimeout
ASSUME SleeperAssumption == NoSleeper \notin Sleeper

VARIABLES
    entries,    \* #entries: the pending timer of each key
    resolvers,  \* #resolvers: the promise sleeping on each key
    promise,    \* what has become of each promise
    owed,       \* history: what is left of the delay each key was armed with
    parity      \* history: flips whenever a key's timer calls its fire

registryVars == <<entries, resolvers, promise, owed, parity>>

\* An Entry: the countdown of its setTimeout handle, `remaining`, and whose
\* promise its `fire` settles.
Entry == [leg : Nat, remaining : Nat, fire : Sleeper \cup {NoSleeper}]

ASSUME EntryAssumption == NoEntry \notin Entry

-----------------------------------------------------------------------------
\* setTimeout waits ms milliseconds, unless ms overflows: then it waits 1.
SetTimeout(ms) == IF ms > MaxTimeout THEN 1 ELSE ms

\* Bug: the whole delay is handed to setTimeout.
ArmLegUncapped(ms, fire) == [leg |-> SetTimeout(ms), remaining |-> 0, fire |-> fire]

\* #armLeg: one setTimeout for at most MaxDelay, the rest kept for later.
ArmLeg(ms, fire) ==
    LET leg == IF ms <= MaxDelay THEN ms ELSE MaxDelay
    IN  [leg |-> SetTimeout(leg), remaining |-> ms - leg, fire |-> fire]

\* arm() clamps a delay up to the minimum.
Clamp(d) == IF d < MinDelay THEN MinDelay ELSE d

\* The promises that cancelling the keys K resolves.
Cancelled(K) == {s \in Sleeper : \E k \in K : resolvers[k] = s}

Resolve(S) == [s \in Sleeper |-> IF s \in S THEN "resolved" ELSE promise[s]]

-----------------------------------------------------------------------------
TimersInit == /\ entries = [k \in Key |-> NoEntry]
              /\ resolvers = [k \in Key |-> NoSleeper]
              /\ promise = [s \in Sleeper |-> "idle"]
              /\ owed = [k \in Key |-> 0]
              /\ parity = [k \in Key |-> FALSE]

\* arm(key, delay, fire): cancel what is under the key, clamp, arm a leg.
Arm(k, d) ==
    /\ promise' = Resolve(Cancelled({k}))
    /\ resolvers' = [resolvers EXCEPT ![k] = NoSleeper]
    /\ entries' = [entries EXCEPT ![k] = ArmLeg(Clamp(d), NoSleeper)]
    /\ owed' = [owed EXCEPT ![k] = Clamp(d)]
    /\ UNCHANGED parity

\* sleep(key, ms): arm() an entry that resolves the promise handed out.
Sleep(k, d, s) ==
    /\ promise[s] = "idle"
    /\ promise' = [Resolve(Cancelled({k})) EXCEPT ![s] = "awaiting"]
    /\ resolvers' = [resolvers EXCEPT ![k] = s]
    /\ entries' = [entries EXCEPT ![k] = ArmLeg(Clamp(d), s)]
    /\ owed' = [owed EXCEPT ![k] = Clamp(d)]
    /\ UNCHANGED parity

\* Bug: only the handle is cleared, the sleeper is left to its resolver.
CancelHandle(k) ==
    /\ entries' = [entries EXCEPT ![k] = NoEntry]
    /\ owed' = [owed EXCEPT ![k] = 0]
    /\ UNCHANGED <<promise, resolvers, parity>>

\* cancel(key): resolve the sleeper, clear the handle.
Cancel(k) ==
    /\ promise' = Resolve(Cancelled({k}))
    /\ resolvers' = [resolvers EXCEPT ![k] = NoSleeper]
    /\ entries' = [entries EXCEPT ![k] = NoEntry]
    /\ owed' = [owed EXCEPT ![k] = 0]
    /\ UNCHANGED parity

\* clear(): every handle, then every sleeper.
Clear ==
    /\ promise' = Resolve(Cancelled(Key))
    /\ resolvers' = [k \in Key |-> NoSleeper]
    /\ entries' = [k \in Key |-> NoEntry]
    /\ owed' = [k \in Key |-> 0]
    /\ UNCHANGED parity

\* The setTimeout callback: another leg when some delay is left, ...
NextLeg(k) ==
    /\ entries[k] # NoEntry
    /\ entries[k].leg = 0
    /\ entries[k].remaining > 0
    /\ entries' = [entries EXCEPT ![k] = ArmLeg(entries[k].remaining, entries[k].fire)]
    /\ UNCHANGED <<resolvers, promise, owed, parity>>

\* ... otherwise fire(), which for a sleep drops the resolver and resolves.
Fire(k) ==
    /\ entries[k] # NoEntry
    /\ entries[k].leg = 0
    /\ entries[k].remaining = 0
    /\ entries' = [entries EXCEPT ![k] = NoEntry]
    /\ owed' = [owed EXCEPT ![k] = 0]
    /\ parity' = [parity EXCEPT ![k] = ~@]
    /\ IF entries[k].fire \in Sleeper
       THEN /\ promise' = Resolve({entries[k].fire})
            /\ resolvers' = [resolvers EXCEPT ![k] = NoSleeper]
       ELSE UNCHANGED <<promise, resolvers>>

\* The code awaiting a settled sleep() goes on; its slot may be used again.
SleeperResumes(s) ==
    /\ promise[s] = "resolved"
    /\ promise' = [promise EXCEPT ![s] = "idle"]
    /\ UNCHANGED <<entries, resolvers, owed, parity>>

Running(k) == entries[k] # NoEntry /\ entries[k].leg > 0

\* Time passes on every pending handle at once.
Tick ==
    /\ \E k \in Key : Running(k) \/ owed[k] > 0
    /\ entries' = [k \in Key |-> IF Running(k) THEN [entries[k] EXCEPT !.leg = @ - 1]
                                 ELSE entries[k]]
    /\ owed' = [k \in Key |-> IF owed[k] > 0 THEN owed[k] - 1 ELSE 0]
    /\ UNCHANGED <<resolvers, promise, parity>>

Callback(k) == NextLeg(k) \/ Fire(k)

TimersNext == \/ \E k \in Key, d \in Delay : Arm(k, d)
              \/ \E k \in Key, d \in Delay, s \in Sleeper : Sleep(k, d, s)
              \/ \E k \in Key : Cancel(k)
              \/ Clear
              \/ \E k \in Key : NextLeg(k)
              \/ \E k \in Key : Fire(k)
              \/ \E s \in Sleeper : SleeperResumes(s)
              \/ Tick

TimersSpec == TimersInit /\ [][TimersNext]_registryVars

\* Time passes, and the event loop gets round to a timer that has expired.
TimersFairness == /\ WF_registryVars(Tick)
                  /\ \A k \in Key : WF_registryVars(Callback(k))

FairTimersSpec == TimersSpec /\ TimersFairness

-----------------------------------------------------------------------------
TimersType == /\ entries \in [Key -> Entry \cup {NoEntry}]
              /\ resolvers \in [Key -> Sleeper \cup {NoSleeper}]
              /\ promise \in [Sleeper -> {"idle", "awaiting", "resolved"}]
              /\ owed \in [Key -> Nat]
              /\ parity \in [Key -> BOOLEAN]

\* The legs an entry still has to wait cover what is left of the delay it was
\* armed with: chaining legs under the 32-bit limit never fires a timer early.
LegsCoverDelay ==
    \A k \in Key : IF entries[k] = NoEntry THEN owed[k] = 0
                   ELSE entries[k].leg + entries[k].remaining >= owed[k]

\* A promise awaits exactly while it is the resolver of some key whose pending
\* entry would settle it: replacing, cancelling, clearing or re-legging a timer
\* never leaves a sleeper behind (the #resolvers map against the #entries map).
AwaitedIsArmed ==
    /\ \A k \in Key : IF entries[k] = NoEntry THEN resolvers[k] = NoSleeper
                      ELSE resolvers[k] = entries[k].fire
    /\ \A s \in Sleeper :
           promise[s] = "awaiting" <=> \E k \in Key : resolvers[k] = s
    /\ \A j, k \in Key : resolvers[j] = resolvers[k] /\ resolvers[k] # NoSleeper => j = k

\* Every sleep ends: the run parked on it is not left waiting for ever.
SleepEnds == \A s \in Sleeper : promise[s] = "awaiting" ~> promise[s] = "resolved"

-----------------------------------------------------------------------------
\* The registry implements timers that wait their whole delay in one piece.
Whole == INSTANCE PendingTimers
    WITH Delay <- {Clamp(d) : d \in Delay},
         NotPending <- NoEntry,
         pending <- [k \in Key |-> IF entries[k] = NoEntry THEN NoEntry
                                   ELSE [left |-> owed[k], sleeper |-> resolvers[k]]]

\* NoEntry stands for no timer there, too.
ASSUME TimerAssumption == NoEntry \notin Whole!Timer

ImplementsWholeTimers == Whole!Spec
=============================================================================
