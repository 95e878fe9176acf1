------------------------------ MODULE Scheduler ------------------------------
(***************************************************************************)
(* The in-process scheduler of one replica (packages/scheduler/scheduler.ts*)
(* with the attempt loop of task_runner.ts).  JavaScript runs one callback *)
(* at a time, so an action here is the code between two awaits: a call of  *)
(* the public API, a timer callback, or the continuation of one run.       *)
(*                                                                         *)
(* A run (one call of #run that was not skipped) goes through              *)
(*                                                                         *)
(*   acquiring -> body <-> parked -> woken -> ... -> releasing -> idle     *)
(*                                                                         *)
(* acquiring and releasing being the calls of the distributed lock, body   *)
(* one attempt (with its onSuccess or onError hook), parked the backoff    *)
(* after a failed attempt, woken the microtask that follows it.            *)
(*                                                                         *)
(* Times are left out: an armed timer may fire at any moment, a body takes *)
(* any time, which covers every cron expression, retryDelay and duration.  *)
(* The timer registry appears through what PendingTimers says of it: at    *)
(* most one timer per key, and a sleeper resolved by whatever removes it.  *)
(***************************************************************************)
EXTENDS Naturals, FiniteSets

CONSTANTS Task,         \* the names that may be registered
          Run,          \* bound: runs in progress at once
          Skip,         \* tasks with overlap: 'skip' (the default)
          OneServer,    \* tasks with onOneServer, a lock being installed
          Enabled,      \* tasks without enabled: false
          RunOnStart,   \* tasks with runOnStart
          Retries,      \* retries of each task
          NoTask, NoRun

ASSUME OptionsAssumption == /\ Skip \subseteq Task
                            /\ OneServer \subseteq Task
                            /\ Enabled \subseteq Task
                            /\ RunOnStart \subseteq Task
                            /\ Retries \in [Task -> Nat]
ASSUME ValueAssumption == NoTask \notin Task /\ NoRun \notin Run

VARIABLES
    registered,   \* the keys of #tasks
    started,      \* #started
    stopped,      \* #stopped
    paused,       \* Task.paused
    running,      \* Task.running, the slot overlap: 'skip' tests
    nextRunAt,    \* whether Task.nextRunAt is a date
    armed,        \* tasks with a timer under `schedule:<name>`
    sleeper,      \* the run whose backoff is the timer `retry:<name>`
    pc,           \* where each run is
    taskOf,       \* the task of each run
    attempt,      \* its current attempt
    superseded    \* runs whose captured generation is no longer the task's

apiVars == <<registered, started, stopped, paused>>
timerVars == <<nextRunAt, armed, sleeper>>
runVars == <<pc, taskOf, attempt, superseded>>
vars == <<apiVars, running, timerVars, runVars>>

Phase == {"idle", "acquiring", "body", "parked", "woken", "releasing"}

\* Outside its attempts a run does not compare its generation.
Ungenerated == {"idle", "acquiring", "releasing"}

-----------------------------------------------------------------------------
(* Helpers: the registry's timers, and the start and the end of a run.     *)

\* #arm sets a timer only for a live, registered, running and enabled task.
MayArm(t) == ~stopped /\ t \in registered /\ ~paused[t] /\ t \in Enabled

\* #arm: the schedule timer of every task of T that may have one.
ArmAll(T) ==
    /\ armed' = armed \cup {t \in T : MayArm(t)}
    /\ nextRunAt' = [t \in Task |-> IF t \in T /\ MayArm(t) THEN TRUE ELSE nextRunAt[t]]

\* Removing the retry timers of T resolves the sleep of the runs parked there.
Wake(T) == [r \in Run |-> IF \E t \in T : sleeper[t] = r THEN "woken" ELSE pc[r]]

\* #run returns at once, and counts a skip, when the slot is held and the
\* policy is 'skip'; slot[t] is Task.running at the time of the call.
Entering(T, slot) == {t \in T : ~(slot[t] /\ t \in Skip)}

\* A fresh run for each task of T: which idle run serves which task.
Calls(T) == {call \in [Run -> T \cup {NoTask}] :
                /\ \A r \in Run : call[r] # NoTask => pc[r] = "idle"
                /\ \A t \in T : \E r \in Run : call[r] = t
                /\ \A q, r \in Run : call[q] = call[r] /\ call[q] # NoTask => q = r}

\* The calls of #run on the tasks of T, up to their first await: a claim of
\* the occurrence first for onOneServer, else the slot and the first attempt.
BeginRuns(T, slot, pcs) ==
    LET new == Entering(T, slot)
    IN  \E call \in Calls(new) :
            /\ pc' = [r \in Run |->
                        IF call[r] = NoTask THEN pcs[r]
                        ELSE IF call[r] \in OneServer THEN "acquiring" ELSE "body"]
            /\ taskOf' = [r \in Run |-> IF call[r] = NoTask THEN taskOf[r] ELSE call[r]]
            /\ attempt' = [r \in Run |-> IF call[r] = NoTask THEN attempt[r] ELSE 1]
            /\ running' = [t \in Task |-> slot[t] \/ (t \in new /\ t \notin OneServer)]

\* Bug: the slot is cleared out from under the run that took it over.
FinishFreesSlot(r) ==
    /\ running' = [running EXCEPT ![taskOf[r]] = FALSE]
    /\ superseded' = superseded \ {r}
    /\ pc' = [pc EXCEPT ![r] = "idle"]
    /\ taskOf' = [taskOf EXCEPT ![r] = NoTask]
    /\ attempt' = [attempt EXCEPT ![r] = 0]

\* The end of runTask: the run leaves the slot to whoever took it over, and
\* releases its claim when it had one.
Finish(r) ==
    /\ running' = [running EXCEPT ![taskOf[r]] = @ /\ r \in superseded]
    /\ superseded' = superseded \ {r}
    /\ IF taskOf[r] \in OneServer
       THEN /\ pc' = [pc EXCEPT ![r] = "releasing"]
            /\ UNCHANGED <<taskOf, attempt>>
       ELSE /\ pc' = [pc EXCEPT ![r] = "idle"]
            /\ taskOf' = [taskOf EXCEPT ![r] = NoTask]
            /\ attempt' = [attempt EXCEPT ![r] = 0]

\* A run that is over without having held the slot, or after its release.
Discard(r) ==
    /\ pc' = [pc EXCEPT ![r] = "idle"]
    /\ taskOf' = [taskOf EXCEPT ![r] = NoTask]
    /\ attempt' = [attempt EXCEPT ![r] = 0]
    /\ UNCHANGED <<apiVars, running, timerVars, superseded>>

-----------------------------------------------------------------------------
Init == /\ registered = {}
        /\ started = FALSE
        /\ stopped = FALSE
        /\ paused = [t \in Task |-> FALSE]
        /\ running = [t \in Task |-> FALSE]
        /\ nextRunAt = [t \in Task |-> FALSE]
        /\ armed = {}
        /\ sleeper = [t \in Task |-> NoRun]
        /\ pc = [r \in Run |-> "idle"]
        /\ taskOf = [r \in Run |-> NoTask]
        /\ attempt = [r \in Run |-> 0]
        /\ superseded = {}

(* The public API. *)

\* register(): refused once stopped or for a name taken; armed when started.
Register(t) ==
    /\ ~stopped
    /\ t \notin registered
    /\ registered' = registered \cup {t}
    /\ paused' = [paused EXCEPT ![t] = FALSE]
    /\ running' = [running EXCEPT ![t] = FALSE]
    /\ nextRunAt' = [nextRunAt EXCEPT ![t] = started /\ t \in Enabled]
    /\ armed' = armed \cup {u \in {t} : started /\ u \in Enabled}
    /\ UNCHANGED <<started, stopped, sleeper, runVars>>

\* start(): arm every enabled task, and run those with runOnStart now.
Start ==
    /\ ~stopped
    /\ started' = TRUE
    /\ ArmAll(registered \cap Enabled)
    /\ BeginRuns(registered \cap Enabled \cap RunOnStart, running, pc)
    /\ UNCHANGED <<registered, stopped, paused, sleeper, superseded>>

\* Bug: timers are cleared without resolving the sleepers.
StopLeavesSleepers ==
    /\ stopped' = TRUE
    /\ started' = FALSE
    /\ armed' = {}
    /\ nextRunAt' = [t \in Task |-> FALSE]
    /\ sleeper' = [t \in Task |-> NoRun]
    /\ UNCHANGED <<registered, paused, running, runVars>>

\* stop(): every timer cleared, every sleeper resolved.
Stop ==
    /\ stopped' = TRUE
    /\ started' = FALSE
    /\ armed' = {}
    /\ nextRunAt' = [t \in Task |-> FALSE]
    /\ sleeper' = [t \in Task |-> NoRun]
    /\ pc' = Wake(Task)
    /\ UNCHANGED <<registered, paused, running, taskOf, attempt, superseded>>

\* Bug: the timer of a paused task stays armed.
PauseKeepsTimer(t) ==
    /\ t \in registered
    /\ paused' = [paused EXCEPT ![t] = TRUE]
    /\ nextRunAt' = [nextRunAt EXCEPT ![t] = FALSE]
    /\ UNCHANGED <<registered, started, stopped, running, armed, sleeper, runVars>>

\* pause(name): the schedule timer goes; runs in progress do not notice.
Pause(t) ==
    /\ t \in registered
    /\ paused' = [paused EXCEPT ![t] = TRUE]
    /\ nextRunAt' = [nextRunAt EXCEPT ![t] = FALSE]
    /\ armed' = armed \ {t}
    /\ UNCHANGED <<registered, started, stopped, running, sleeper, runVars>>

\* resume(name): refused for a disabled task; re-armed when started.
\* (#arm's own test of `paused` is passed: it was just cleared.)
Resume(t) ==
    /\ t \in registered \cap Enabled
    /\ paused' = [paused EXCEPT ![t] = FALSE]
    /\ IF started /\ ~stopped
       THEN /\ armed' = armed \cup {t}
            /\ nextRunAt' = [nextRunAt EXCEPT ![t] = TRUE]
       ELSE UNCHANGED <<armed, nextRunAt>>
    /\ UNCHANGED <<registered, started, stopped, running, sleeper, runVars>>

\* runNow(name): #run, whether the scheduler is started, paused or stopped.
RunNow(t) ==
    /\ t \in registered
    /\ BeginRuns({t}, running, pc)
    /\ UNCHANGED <<apiVars, timerVars, superseded>>

-----------------------------------------------------------------------------
(* Timer callbacks. *)

\* A timer callback starts only when no microtask is pending.
Drained == \A r \in Run : pc[r] # "woken"

\* An occurrence: re-arm, abandon the retry chain (supersede the runs that
\* captured a generation, wake the parked one and take its slot), then #run.
Occurrence(t) ==
    /\ t \in armed
    /\ Drained
    /\ armed' = (armed \ {t}) \cup {u \in {t} : MayArm(u)}
    /\ nextRunAt' = IF MayArm(t) THEN [nextRunAt EXCEPT ![t] = TRUE] ELSE nextRunAt
    /\ sleeper' = [sleeper EXCEPT ![t] = NoRun]
    /\ superseded' = superseded \cup
                        {r \in Run : taskOf[r] = t /\ pc[r] \in {"body", "parked"}}
    /\ LET parked == sleeper[t] # NoRun
       IN  BeginRuns({t}, [running EXCEPT ![t] = @ /\ ~parked], Wake({t}))
    /\ UNCHANGED <<apiVars>>

\* The backoff is over.  (It does not wait for Drained: resolving one more
\* promise commutes with the microtasks already pending.)
BackoffEnds(t) ==
    /\ sleeper[t] # NoRun
    /\ sleeper' = [sleeper EXCEPT ![t] = NoRun]
    /\ pc' = Wake({t})
    /\ UNCHANGED <<apiVars, running, nextRunAt, armed, taskOf, attempt, superseded>>

-----------------------------------------------------------------------------
(* The continuations of a run. *)

\* acquire() answered true: capture the generation, take the slot, run.
\* The slot is not looked at again.
Acquired(r) ==
    /\ pc[r] = "acquiring"
    /\ pc' = [pc EXCEPT ![r] = "body"]
    /\ running' = [running EXCEPT ![taskOf[r]] = TRUE]
    /\ UNCHANGED <<apiVars, timerVars, taskOf, attempt, superseded>>

\* acquire() answered false, or rejected (warned about): no run.
Refused(r) == pc[r] = "acquiring" /\ Discard(r)

\* The attempt, or the race against its timeout, succeeded.
AttemptSucceeds(r) ==
    /\ pc[r] = "body"
    /\ Finish(r)
    /\ UNCHANGED <<apiVars, timerVars>>

LastAttempt(r) == attempt[r] = Retries[taskOf[r]] + 1

\* It failed for the last time ...
GivesUp(r) ==
    /\ pc[r] = "body"
    /\ LastAttempt(r)
    /\ Finish(r)
    /\ UNCHANGED <<apiVars, timerVars>>

\* Bug: an earlier sleeper under the key is replaced without being resolved.
ParksOverSleeper(r) ==
    /\ pc[r] = "body"
    /\ ~LastAttempt(r)
    /\ sleeper' = [sleeper EXCEPT ![taskOf[r]] = r]
    /\ pc' = [pc EXCEPT ![r] = "parked"]
    /\ UNCHANGED <<apiVars, running, nextRunAt, armed, taskOf, attempt, superseded>>

\* ... or it parks in a backoff under the task's one retry key, whatever
\* slept there before being resolved.  Nothing here asks whether the
\* scheduler was stopped.
Parks(r) ==
    /\ pc[r] = "body"
    /\ ~LastAttempt(r)
    /\ sleeper' = [sleeper EXCEPT ![taskOf[r]] = r]
    /\ pc' = [Wake({taskOf[r]}) EXCEPT ![r] = "parked"]
    /\ UNCHANGED <<apiVars, running, nextRunAt, armed, taskOf, attempt, superseded>>

\* mayRetry(): not stopped, and the task's generation is still the run's.
MayRetry(r) == ~stopped /\ r \notin superseded

Retry(r) ==
    /\ pc[r] = "woken"
    /\ MayRetry(r)
    /\ pc' = [pc EXCEPT ![r] = "body"]
    /\ attempt' = [attempt EXCEPT ![r] = @ + 1]
    /\ UNCHANGED <<apiVars, running, timerVars, taskOf, superseded>>

Abandon(r) ==
    /\ pc[r] = "woken"
    /\ ~MayRetry(r)
    /\ Finish(r)
    /\ UNCHANGED <<apiVars, timerVars>>

\* release() resolved or rejected: either way the run is over.
Released(r) == pc[r] = "releasing" /\ Discard(r)

-----------------------------------------------------------------------------
Next == \/ \E t \in Task : Register(t)
        \/ Start
        \/ Stop
        \/ \E t \in Task : Pause(t)
        \/ \E t \in Task : Resume(t)
        \/ \E t \in Task : RunNow(t)
        \/ \E t \in Task : Occurrence(t)
        \/ \E t \in Task : BackoffEnds(t)
        \/ \E r \in Run : Acquired(r)
        \/ \E r \in Run : Refused(r)
        \/ \E r \in Run : AttemptSucceeds(r)
        \/ \E r \in Run : GivesUp(r)
        \/ \E r \in Run : Parks(r)
        \/ \E r \in Run : Retry(r)
        \/ \E r \in Run : Abandon(r)
        \/ \E r \in Run : Released(r)

Spec == Init /\ [][Next]_vars

\* Bodies and lock calls settle, pending timers fire, microtasks run.
Fairness ==
    /\ \A t \in Task : WF_vars(BackoffEnds(t))
    /\ \A r \in Run : /\ WF_vars(Acquired(r) \/ Refused(r))
                      /\ WF_vars(AttemptSucceeds(r) \/ GivesUp(r) \/ Parks(r))
                      /\ WF_vars(Retry(r) \/ Abandon(r))
                      /\ WF_vars(Released(r))

FairSpec == Spec /\ Fairness

-----------------------------------------------------------------------------
TypeOK ==
    /\ registered \subseteq Task
    /\ started \in BOOLEAN
    /\ stopped \in BOOLEAN
    /\ paused \in [Task -> BOOLEAN]
    /\ running \in [Task -> BOOLEAN]
    /\ nextRunAt \in [Task -> BOOLEAN]
    /\ armed \subseteq registered
    /\ sleeper \in [Task -> Run \cup {NoRun}]
    /\ pc \in [Run -> Phase]
    /\ taskOf \in [Run -> registered \cup {NoTask}]
    /\ attempt \in [Run -> Nat]
    /\ superseded \subseteq Run
    /\ \A r \in Run : /\ pc[r] = "idle" <=> taskOf[r] = NoTask
                      /\ pc[r] \in Ungenerated => r \notin superseded
                      /\ pc[r] \in {"acquiring", "releasing"} => taskOf[r] \in OneServer

\* A task has its one schedule timer exactly while the scheduler is started
\* and the task is registered, enabled and not paused, and getStats() tells
\* so: no order of register, start, pause, resume, stop and occurrences loses
\* the timer of a live task or leaves one behind ("a running, enabled task has
\* exactly one pending timer", #arm).
ArmedExactly ==
    \A t \in Task :
        /\ t \in armed <=> /\ started /\ ~stopped
                          /\ t \in registered \cap Enabled
                          /\ ~paused[t]
        /\ nextRunAt[t] <=> t \in armed

\* A run is parked exactly while the retry timer of its task would wake it:
\* runs that share one retry key do not lose each other's wake-up (sleep,
\* cancel and clear of the registry as #abandonRetries and stop() use them).
ParkedIsAwaited ==
    /\ \A r \in Run : pc[r] = "parked" => sleeper[taskOf[r]] = r
    /\ \A t \in Task : sleeper[t] # NoRun =>
                          pc[sleeper[t]] = "parked" /\ taskOf[sleeper[t]] = t

\* The runs of t that execute, or may yet execute, an attempt.
InFlight(t) == {r \in Run : /\ taskOf[r] = t
                            /\ \/ pc[r] \in {"body", "parked"}
                               \/ pc[r] = "woken" /\ r \notin superseded}

\* "At most one run is in flight" under overlap: 'skip' without a lock, and it
\* holds the slot: whatever runNow, occurrences arriving in mid-attempt or in
\* mid-backoff, abandoned retry chains and stop() do to each other.
AtMostOneInFlight ==
    \A t \in Skip \ OneServer :
        /\ \A q, r \in InFlight(t) : q = r
        /\ InFlight(t) # {} => running[t]

\* Every run ends, stop() or not: its caller (runNow awaits it) is not left
\* waiting on a backoff that was replaced, abandoned or cleared.
RunsEnd == \A r \in Run : pc[r] # "idle" ~> pc[r] = "idle"

-----------------------------------------------------------------------------
(* What the documentation says, and the code does not do. *)

\* "Occurrences skipped because a run was still in flight" (skippedCount): the
\* slot an occurrence is skipped for is held by a run that has not ended.
SlotHeldByLiveRun ==
    \A t \in Task : running[t] =>
        \E r \in Run : taskOf[r] = t /\ pc[r] \in {"body", "parked", "woken"}
=============================================================================
