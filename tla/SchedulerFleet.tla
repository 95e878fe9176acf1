---------------------------- MODULE SchedulerFleet ----------------------------
(***************************************************************************)
(* A fleet of replicas that run one onOneServer task every minute.  Each   *)
(* replica's schedule timer (scheduler.ts, #arm) fires once per minute, at *)
(* its own moment: clocks, event loops and start-up differ.  An operator   *)
(* may run the task at any time besides (runNow).  The occurrence asked    *)
(* for is the minute the clock shows then (#run).  One that arrives while  *)
(* the replica has a run in its slot is skipped or overlaps it, as the     *)
(* task's overlap option says, which is left open; a run whose slot is     *)
(* free before it has ended, being parked and superseded or having its     *)
(* claim or its release under way, is overlapped with either option.       *)
(***************************************************************************)
EXTENDS SchedulerLock

CONSTANTS Operated,     \* replicas on which somebody calls runNow()
          LastMinute    \* bound: the minutes of a behaviour are 1..LastMinute

ASSUME MinuteAssumption == /\ LastMinute \in Nat \ {0}
                           /\ Occurrence = 1..LastMinute

VARIABLES minute,       \* the wall clock, to the minute
          due           \* replicas whose timer for this minute has yet to fire

fleetVars == <<lockVars, minute, due>>

FleetInit == /\ Init
             /\ minute = 1
             /\ due = Replica

\* The clock enters the next minute; a timer that is late stays due.
NextMinute == /\ minute < LastMinute
              /\ minute' = minute + 1
              /\ due' = Replica
              /\ UNCHANGED lockVars

\* #run asks for the minute it is.
AskNow(p) == \E r \in Run : replicaOf[r] = p /\ Ask(r, minute)

\* The timer fires: the occurrence is this minute.
Fire(p) == /\ p \in due
           /\ due' = due \ {p}
           /\ AskNow(p)
           /\ UNCHANGED minute

\* runNow(): one that is skipped does nothing.
RunNow(p) == /\ p \in Operated
             /\ AskNow(p)
             /\ UNCHANGED <<minute, due>>

Busy(p) == \E r \in Run : replicaOf[r] = p /\ pc[r] = "running"

SkipOccurrence(p) == /\ p \in due
                     /\ Busy(p)
                     /\ due' = due \ {p}
                     /\ UNCHANGED <<lockVars, minute>>

\* The lock's own steps.
LockStep == /\ \/ \E r \in Run : RunStep(r)
               \/ \E k \in Occurrence : Lapse(k)
               \/ \E p \in Replica : Crash(p)
            /\ UNCHANGED <<minute, due>>

FleetNext == \/ NextMinute
             \/ \E p \in Replica : Fire(p)
             \/ \E p \in Replica : RunNow(p)
             \/ \E p \in Replica : SkipOccurrence(p)
             \/ LockStep

FleetSpec == FleetInit /\ [][FleetNext]_fleetVars
=============================================================================
