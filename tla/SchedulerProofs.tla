----------------------------- MODULE SchedulerProofs -----------------------------
(***************************************************************************)
(* The scheduler, for any tasks and options, any number of retries and any *)
(* number of runs in progress; and the registry of its timers.             *)
(***************************************************************************)
EXTENDS Scheduler, TimerRegistry, TLAPS

\* The runs that BeginRuns gives to the tasks T: idle, distinct, one each.
LEMMA CallsDef ==
    ASSUME NEW T, NEW call \in Calls(T)
    PROVE  /\ call \in [Run -> T \cup {NoTask}]
           /\ \A r \in Run : call[r] # NoTask => pc[r] = "idle"
           /\ \A t \in T : \E r \in Run : call[r] = t
           /\ \A q, r \in Run : call[q] = call[r] /\ call[q] # NoTask => q = r
BY DEF Calls

\* Waking the sleepers of some tasks only moves runs to "woken".
LEMMA WakeType ==
    ASSUME TypeOK, NEW T \in SUBSET Task
    PROVE  /\ Wake(T) \in [Run -> Phase]
           /\ \A r \in Run : Wake(T)[r] = pc[r] \/ Wake(T)[r] = "woken"
BY DEF Wake, TypeOK, Phase

-----------------------------------------------------------------------------
LEMMA BeginType ==
    ASSUME TypeOK, ParkedIsAwaited,
           NEW T \in SUBSET registered, NEW W \in SUBSET Task,
           NEW slot \in [Task -> BOOLEAN],
           BeginRuns(T, slot, Wake(W))
    PROVE  /\ pc' \in [Run -> Phase]
           /\ taskOf' \in [Run -> registered \cup {NoTask}]
           /\ attempt' \in [Run -> Nat]
           /\ running' \in [Task -> BOOLEAN]
           /\ \A r \in Run : pc'[r] = "idle" <=> taskOf'[r] = NoTask
           /\ \A r \in Run : pc'[r] \in Ungenerated => r \notin superseded
           /\ \A r \in Run : pc'[r] \in {"acquiring", "releasing"} => taskOf'[r] \in OneServer
<1> USE ValueAssumption, OptionsAssumption
<1>1. PICK call \in Calls(Entering(T, slot)) :
          /\ pc' = [r \in Run |->
                      IF call[r] = NoTask THEN Wake(W)[r]
                      ELSE IF call[r] \in OneServer THEN "acquiring" ELSE "body"]
          /\ taskOf' = [r \in Run |-> IF call[r] = NoTask THEN taskOf[r] ELSE call[r]]
          /\ attempt' = [r \in Run |-> IF call[r] = NoTask THEN attempt[r] ELSE 1]
          /\ running' = [t \in Task |-> slot[t] \/ (t \in Entering(T, slot) /\ t \notin OneServer)]
  BY DEF BeginRuns
<1>2. /\ call \in [Run -> Entering(T, slot) \cup {NoTask}]
      /\ \A r \in Run : call[r] # NoTask => pc[r] = "idle"
  BY <1>1, CallsDef
<1>3. Entering(T, slot) \subseteq registered
  BY DEF Entering
<1>4. Wake(W) \in [Run -> Phase]
  BY WakeType
<1>5. \A r \in Run : Wake(W)[r] = "idle" <=> pc[r] = "idle"
  BY DEF Wake, ParkedIsAwaited, TypeOK
<1>6. \A r \in Run : Wake(W)[r] \in Ungenerated => pc[r] \in Ungenerated
  BY WakeType DEF Ungenerated
<1> HIDE DEF TypeOK
<1>7. pc' \in [Run -> Phase]
  BY <1>1, <1>4 DEF Phase
<1>8. taskOf' \in [Run -> registered \cup {NoTask}] /\ attempt' \in [Run -> Nat]
  BY <1>1, <1>2, <1>3 DEF TypeOK
<1>9. running' \in [Task -> BOOLEAN]
  BY <1>1
<1>10. \A r \in Run : pc'[r] = "idle" <=> taskOf'[r] = NoTask
  BY <1>1, <1>2, <1>3, <1>5 DEF TypeOK
<1>11. \A r \in Run : pc'[r] \in Ungenerated => r \notin superseded
  BY <1>1, <1>2, <1>5, <1>6 DEF TypeOK, Ungenerated
<1>12. \A r \in Run : pc'[r] \in {"acquiring", "releasing"} => taskOf'[r] \in OneServer
  <2>1. \A r \in Run : Wake(W)[r] \in {"acquiring", "releasing"} => pc[r] = Wake(W)[r]
    BY WakeType
  <2> QED BY <1>1, <1>2, <2>1 DEF TypeOK
<1> QED BY <1>7, <1>8, <1>9, <1>10, <1>11, <1>12

\* The end of a run leaves the types alone.
LEMMA FinishType ==
    ASSUME TypeOK, NEW r \in Run, taskOf[r] \in Task, Finish(r),
           UNCHANGED <<apiVars, timerVars>>
    PROVE  TypeOK'
BY ValueAssumption DEF TypeOK, Finish, Phase, Ungenerated, apiVars, timerVars

LEMMA DiscardType == ASSUME TypeOK, NEW r \in Run, Discard(r), pc[r] \in Ungenerated,
                            r \notin superseded
                     PROVE  TypeOK'
BY ValueAssumption DEF TypeOK, Discard, Phase, Ungenerated, apiVars, timerVars

LEMMA TypeStep == TypeOK /\ ParkedIsAwaited /\ [Next]_vars => TypeOK'
<1> SUFFICES ASSUME TypeOK, ParkedIsAwaited, [Next]_vars PROVE TypeOK'
  OBVIOUS
<1> USE ValueAssumption, OptionsAssumption
<1>w. ASSUME NEW W \in SUBSET Task
      PROVE  /\ Wake(W) \in [Run -> Phase]
             /\ \A r \in Run : Wake(W)[r] \in Ungenerated <=> pc[r] \in Ungenerated
             /\ \A r \in Run : Wake(W)[r] = "idle" <=> pc[r] = "idle"
             /\ \A r \in Run : Wake(W)[r] # pc[r] => Wake(W)[r] = "woken"
  BY WakeType DEF Wake, ParkedIsAwaited, TypeOK, Ungenerated
<1>1. ASSUME NEW t \in Task, Register(t) PROVE TypeOK'
  BY <1>1 DEF Register, TypeOK, runVars
<1>2. CASE Start
  <2>1. registered \cap Enabled \cap RunOnStart \in SUBSET registered /\ running \in [Task -> BOOLEAN]
        /\ pc = Wake({})
    BY DEF TypeOK, Wake
  <2> QED BY <1>2, <2>1, BeginType DEF Start, ArmAll, TypeOK
<1>3. CASE Stop
  BY <1>3, <1>w DEF Stop, TypeOK
<1>4. ASSUME NEW t \in Task, Pause(t) PROVE TypeOK'
  BY <1>4 DEF Pause, TypeOK, runVars
<1>5. ASSUME NEW t \in Task, Resume(t) PROVE TypeOK'
  BY <1>5 DEF Resume, TypeOK, runVars
<1>6. ASSUME NEW t \in Task, RunNow(t) PROVE TypeOK'
  <2>1. {t} \in SUBSET registered /\ running \in [Task -> BOOLEAN] /\ pc = Wake({})
    BY <1>6 DEF RunNow, TypeOK, Wake
  <2> QED BY <1>6, <2>1, BeginType DEF RunNow, TypeOK, apiVars, timerVars
<1>7. ASSUME NEW t \in Task, Occurrence(t) PROVE TypeOK'
  <2> DEFINE slot == [running EXCEPT ![t] = @ /\ ~(sleeper[t] # NoRun)]
  <2>1. {t} \in SUBSET registered /\ slot \in [Task -> BOOLEAN]
    BY <1>7 DEF Occurrence, TypeOK
  <2>2. BeginRuns({t}, slot, Wake({t}))
    BY <1>7 DEF Occurrence
  <2> HIDE DEF slot
  <2>3. /\ pc' \in [Run -> Phase]
        /\ taskOf' \in [Run -> registered \cup {NoTask}]
        /\ attempt' \in [Run -> Nat]
        /\ running' \in [Task -> BOOLEAN]
        /\ \A r \in Run : pc'[r] = "idle" <=> taskOf'[r] = NoTask
        /\ \A r \in Run : pc'[r] \in Ungenerated => r \notin superseded
        /\ \A r \in Run : pc'[r] \in {"acquiring", "releasing"} => taskOf'[r] \in OneServer
    BY <2>1, <2>2, BeginType
  <2>4. \A r \in Run : pc[r] \in {"body", "parked"} => pc'[r] \notin Ungenerated
    <3>1. PICK call \in Calls(Entering({t}, slot)) :
              pc' = [r \in Run |->
                      IF call[r] = NoTask THEN Wake({t})[r]
                      ELSE IF call[r] \in OneServer THEN "acquiring" ELSE "body"]
      BY <2>2 DEF BeginRuns
    <3> QED BY <2>1, <3>1, <1>w, CallsDef DEF Wake, Ungenerated
  <2>5. /\ superseded' = superseded \cup
                        {r \in Run : taskOf[r] = t /\ pc[r] \in {"body", "parked"}}
        /\ sleeper' = [sleeper EXCEPT ![t] = NoRun]
        /\ armed' \subseteq registered /\ nextRunAt' \in [Task -> BOOLEAN]
        /\ UNCHANGED apiVars
    BY <1>7 DEF Occurrence, TypeOK
  <2> QED BY <2>3, <2>4, <2>5 DEF TypeOK, apiVars
<1>8. ASSUME NEW t \in Task, BackoffEnds(t) PROVE TypeOK'
  BY <1>8, <1>w DEF BackoffEnds, TypeOK, apiVars
<1>9. ASSUME NEW r \in Run, Acquired(r) PROVE TypeOK'
  BY <1>9 DEF Acquired, TypeOK, Phase, Ungenerated, apiVars, timerVars
<1>10. ASSUME NEW r \in Run, Refused(r) PROVE TypeOK'
  BY <1>10, DiscardType DEF Refused, TypeOK, Ungenerated
<1>11. ASSUME NEW r \in Run, AttemptSucceeds(r) PROVE TypeOK'
  BY <1>11, FinishType DEF AttemptSucceeds, TypeOK
<1>12. ASSUME NEW r \in Run, GivesUp(r) PROVE TypeOK'
  BY <1>12, FinishType DEF GivesUp, TypeOK
<1>13. ASSUME NEW r \in Run, Parks(r) PROVE TypeOK'
  <2>1. taskOf[r] \in Task
    BY <1>13 DEF Parks, TypeOK
  <2> QED BY <1>13, <2>1, <1>w DEF Parks, TypeOK, Phase, Ungenerated, apiVars
<1>14. ASSUME NEW r \in Run, Retry(r) PROVE TypeOK'
  BY <1>14 DEF Retry, TypeOK, Phase, Ungenerated, apiVars, timerVars
<1>15. ASSUME NEW r \in Run, Abandon(r) PROVE TypeOK'
  BY <1>15, FinishType DEF Abandon, TypeOK
<1>16. ASSUME NEW r \in Run, Released(r) PROVE TypeOK'
  BY <1>16, DiscardType DEF Released, TypeOK, Ungenerated
<1>17. CASE UNCHANGED vars
  BY <1>17 DEF vars, apiVars, timerVars, runVars, TypeOK
<1> QED BY <1>1, <1>2, <1>3, <1>4, <1>5, <1>6, <1>7, <1>8, <1>9, <1>10, <1>11, <1>12,
           <1>13, <1>14, <1>15, <1>16, <1>17 DEF Next

-----------------------------------------------------------------------------
(* Parked runs and the retry timers.                                       *)

\* Runs beginning while the sleepers of W are woken and their timers removed.
LEMMA BeginAwaited ==
    ASSUME TypeOK, ParkedIsAwaited,
           NEW T \in SUBSET Task, NEW W \in SUBSET Task,
           NEW slot \in [Task -> BOOLEAN],
           BeginRuns(T, slot, Wake(W)),
           sleeper' = [t \in Task |-> IF t \in W THEN NoRun ELSE sleeper[t]]
    PROVE  ParkedIsAwaited'
<1> USE ValueAssumption
<1>1. PICK call \in Calls(Entering(T, slot)) :
          /\ pc' = [r \in Run |->
                      IF call[r] = NoTask THEN Wake(W)[r]
                      ELSE IF call[r] \in OneServer THEN "acquiring" ELSE "body"]
          /\ taskOf' = [r \in Run |-> IF call[r] = NoTask THEN taskOf[r] ELSE call[r]]
  BY DEF BeginRuns
<1>2. \A r \in Run : call[r] # NoTask => pc[r] = "idle"
  BY CallsDef
<1>3. ASSUME NEW r \in Run, pc'[r] = "parked" PROVE sleeper'[taskOf'[r]] = r
  <2>1. call[r] = NoTask /\ Wake(W)[r] = "parked"
    BY <1>1, <1>3
  <2>2. pc[r] = "parked" /\ \A t \in W : sleeper[t] # r
    BY <2>1 DEF Wake
  <2>3. taskOf'[r] = taskOf[r] /\ taskOf[r] \in Task
    BY <1>1, <2>1, <2>2 DEF TypeOK
  <2> QED BY <2>2, <2>3 DEF ParkedIsAwaited
<1>4. ASSUME NEW t \in Task, sleeper'[t] # NoRun
      PROVE  pc'[sleeper'[t]] = "parked" /\ taskOf'[sleeper'[t]] = t
  <2>1. t \notin W /\ sleeper'[t] = sleeper[t] /\ sleeper[t] # NoRun
    BY <1>4
  <2>2. sleeper[t] \in Run /\ pc[sleeper[t]] = "parked" /\ taskOf[sleeper[t]] = t
    BY <2>1 DEF ParkedIsAwaited, TypeOK
  <2>3. call[sleeper[t]] = NoTask
    BY <1>2, <2>2
  <2>4. \A u \in W : sleeper[u] # sleeper[t]
    BY <2>1, <2>2 DEF ParkedIsAwaited
  <2>5. Wake(W)[sleeper[t]] = "parked"
    BY <2>2, <2>4 DEF Wake
  <2> QED BY <1>1, <2>1, <2>2, <2>3, <2>5
<1> QED BY <1>3, <1>4 DEF ParkedIsAwaited

\* A run that is not parked may end.
LEMMA EndAwaited ==
    ASSUME TypeOK, ParkedIsAwaited, NEW r \in Run, pc[r] # "parked",
           Finish(r) \/ Discard(r), UNCHANGED timerVars
    PROVE  ParkedIsAwaited'
BY ValueAssumption DEF TypeOK, ParkedIsAwaited, Finish, Discard, timerVars

LEMMA AwaitedStep == TypeOK /\ ParkedIsAwaited /\ [Next]_vars => ParkedIsAwaited'
<1> SUFFICES ASSUME TypeOK, ParkedIsAwaited, [Next]_vars PROVE ParkedIsAwaited'
  OBVIOUS
<1> USE ValueAssumption
<1>n. pc = Wake({}) /\ sleeper = [t \in Task |-> IF t \in {} THEN NoRun ELSE sleeper[t]]
  BY DEF Wake, TypeOK
<1>s. ASSUME UNCHANGED <<sleeper, runVars>> PROVE ParkedIsAwaited'
  BY <1>s DEF ParkedIsAwaited, runVars
<1>1. ASSUME NEW t \in Task, Register(t) PROVE ParkedIsAwaited'
  BY <1>1, <1>s DEF Register
<1>2. CASE Start
  <2>1. registered \cap Enabled \cap RunOnStart \in SUBSET Task /\ running \in [Task -> BOOLEAN]
    BY DEF TypeOK
  <2> QED BY <1>2, <1>n, <2>1, BeginAwaited DEF Start
<1>3. CASE Stop
  BY <1>3 DEF Stop, Wake, ParkedIsAwaited, TypeOK
<1>4. ASSUME NEW t \in Task, Pause(t) PROVE ParkedIsAwaited'
  BY <1>4, <1>s DEF Pause
<1>5. ASSUME NEW t \in Task, Resume(t) PROVE ParkedIsAwaited'
  BY <1>5, <1>s DEF Resume
<1>6. ASSUME NEW t \in Task, RunNow(t) PROVE ParkedIsAwaited'
  <2>1. {t} \in SUBSET Task /\ running \in [Task -> BOOLEAN]
    BY DEF TypeOK
  <2> QED BY <1>6, <1>n, <2>1, BeginAwaited DEF RunNow, timerVars
<1>7. ASSUME NEW t \in Task, Occurrence(t) PROVE ParkedIsAwaited'
  <2> DEFINE slot == [running EXCEPT ![t] = @ /\ ~(sleeper[t] # NoRun)]
  <2>1. {t} \in SUBSET Task /\ slot \in [Task -> BOOLEAN]
    BY DEF TypeOK
  <2>2. BeginRuns({t}, slot, Wake({t}))
    BY <1>7 DEF Occurrence
  <2>3. sleeper' = [u \in Task |-> IF u \in {t} THEN NoRun ELSE sleeper[u]]
    BY <1>7 DEF Occurrence, TypeOK
  <2> HIDE DEF slot
  <2> QED BY <2>1, <2>2, <2>3, BeginAwaited
<1>8. ASSUME NEW t \in Task, BackoffEnds(t) PROVE ParkedIsAwaited'
  BY <1>8 DEF BackoffEnds, Wake, ParkedIsAwaited, TypeOK
<1>9. ASSUME NEW r \in Run, Acquired(r) PROVE ParkedIsAwaited'
  BY <1>9 DEF Acquired, ParkedIsAwaited, TypeOK, timerVars
<1>10. ASSUME NEW r \in Run, Refused(r) PROVE ParkedIsAwaited'
  BY <1>10, EndAwaited DEF Refused, Discard
<1>11. ASSUME NEW r \in Run, AttemptSucceeds(r) PROVE ParkedIsAwaited'
  BY <1>11, EndAwaited DEF AttemptSucceeds
<1>12. ASSUME NEW r \in Run, GivesUp(r) PROVE ParkedIsAwaited'
  BY <1>12, EndAwaited DEF GivesUp
<1>13. ASSUME NEW r \in Run, Parks(r) PROVE ParkedIsAwaited'
  <2>1. /\ taskOf[r] \in Task /\ pc[r] = "body"
        /\ sleeper' = [sleeper EXCEPT ![taskOf[r]] = r]
        /\ pc' = [Wake({taskOf[r]}) EXCEPT ![r] = "parked"]
        /\ taskOf' = taskOf
    BY <1>13 DEF Parks, TypeOK
  <2> QED BY <2>1 DEF Wake, ParkedIsAwaited, TypeOK
<1>14. ASSUME NEW r \in Run, Retry(r) PROVE ParkedIsAwaited'
  BY <1>14 DEF Retry, ParkedIsAwaited, TypeOK, timerVars
<1>15. ASSUME NEW r \in Run, Abandon(r) PROVE ParkedIsAwaited'
  BY <1>15, EndAwaited DEF Abandon
<1>16. ASSUME NEW r \in Run, Released(r) PROVE ParkedIsAwaited'
  BY <1>16, EndAwaited DEF Released, Discard
<1>17. CASE UNCHANGED vars
  BY <1>17, <1>s DEF vars, timerVars
<1> QED BY <1>1, <1>2, <1>3, <1>4, <1>5, <1>6, <1>7, <1>8, <1>9, <1>10, <1>11, <1>12,
           <1>13, <1>14, <1>15, <1>16, <1>17 DEF Next

\* Types and the wake-ups of parked runs hold together.
LEMMA Awaited == Spec => [](TypeOK /\ ParkedIsAwaited)
<1>1. Init => TypeOK /\ ParkedIsAwaited
  <2> SUFFICES ASSUME Init PROVE TypeOK /\ ParkedIsAwaited
    OBVIOUS
  <2>1. TypeOK
    BY DEF Init, TypeOK, Phase
  <2>2. ParkedIsAwaited
    BY DEF Init, ParkedIsAwaited
  <2> QED BY <2>1, <2>2
<1>2. TypeOK /\ ParkedIsAwaited /\ [Next]_vars => (TypeOK /\ ParkedIsAwaited)'
  BY TypeStep, AwaitedStep
<1> QED BY <1>1, <1>2, PTL DEF Spec

\* The state of the scheduler is well typed.
THEOREM TypeCorrect == Spec => []TypeOK
BY Awaited, PTL

\* No run is left parked without the timer that would wake it, whatever runs
\* share one retry key, and no timer wakes a run that is not parked on it.
THEOREM NoLostWakeUp == Spec => []ParkedIsAwaited
BY Awaited, PTL

-----------------------------------------------------------------------------
(* Schedule timers.                                                        *)

LEMMA ArmedStep == TypeOK /\ ArmedExactly /\ [Next]_vars => ArmedExactly'
<1> SUFFICES ASSUME TypeOK, ArmedExactly, [Next]_vars PROVE ArmedExactly'
  OBVIOUS
<1> USE OptionsAssumption
<1>s. ASSUME UNCHANGED <<apiVars, armed, nextRunAt>> PROVE ArmedExactly'
  BY <1>s DEF ArmedExactly, apiVars
<1>1. ASSUME NEW t \in Task, Register(t) PROVE ArmedExactly'
  BY <1>1 DEF Register, ArmedExactly, TypeOK
<1>2. CASE Start
  BY <1>2 DEF Start, ArmAll, MayArm, ArmedExactly, TypeOK
<1>3. CASE Stop
  BY <1>3 DEF Stop, ArmedExactly, TypeOK
<1>4. ASSUME NEW t \in Task, Pause(t) PROVE ArmedExactly'
  BY <1>4 DEF Pause, ArmedExactly, TypeOK
<1>5. ASSUME NEW t \in Task, Resume(t) PROVE ArmedExactly'
  BY <1>5 DEF Resume, ArmedExactly, TypeOK
<1>7. ASSUME NEW t \in Task, Occurrence(t) PROVE ArmedExactly'
  BY <1>7 DEF Occurrence, MayArm, ArmedExactly, TypeOK, apiVars
<1>8. ASSUME \/ \E t \in Task : RunNow(t) \/ BackoffEnds(t)
             \/ \E r \in Run : \/ Acquired(r) \/ Refused(r) \/ AttemptSucceeds(r)
                              \/ GivesUp(r) \/ Parks(r) \/ Retry(r) \/ Abandon(r)
                              \/ Released(r)
             \/ UNCHANGED vars
      PROVE  ArmedExactly'
  <2>1. UNCHANGED <<apiVars, armed, nextRunAt>>
    BY <1>8 DEF RunNow, BackoffEnds, Acquired, Refused, Discard, AttemptSucceeds, GivesUp,
                Parks, Retry, Abandon, Released, vars, timerVars
  <2> QED BY <2>1, <1>s
<1> QED BY <1>1, <1>2, <1>3, <1>4, <1>5, <1>7, <1>8 DEF Next

\* In every order of register, start, pause, resume, stop and occurrences a
\* live task keeps its one timer, and no other task has one.
THEOREM LiveTasksStayArmed == Spec => []ArmedExactly
<1>1. Init => ArmedExactly
  BY DEF Init, ArmedExactly
<1>2. TypeOK /\ ArmedExactly /\ [Next]_vars => ArmedExactly'
  BY ArmedStep
<1> QED BY <1>1, <1>2, TypeCorrect, PTL DEF Spec

-----------------------------------------------------------------------------
(* overlap: 'skip'.                                                        *)

\* Runs beginning while the parked runs of W, superseded by S, are woken.
LEMMA BeginSingle ==
    ASSUME TypeOK, ParkedIsAwaited, AtMostOneInFlight,
           NEW T \in SUBSET Task, NEW W \in SUBSET Task,
           NEW slot \in [Task -> BOOLEAN],
           \A t \in Task : slot[t] = (running[t] /\ ~(t \in W /\ sleeper[t] # NoRun)),
           BeginRuns(T, slot, Wake(W)),
           superseded' = superseded \cup
                {r \in Run : taskOf[r] \in W /\ pc[r] \in {"body", "parked"}}
    PROVE  AtMostOneInFlight'
<1> USE ValueAssumption
<1>1. PICK call \in Calls(Entering(T, slot)) :
          /\ pc' = [r \in Run |->
                      IF call[r] = NoTask THEN Wake(W)[r]
                      ELSE IF call[r] \in OneServer THEN "acquiring" ELSE "body"]
          /\ taskOf' = [r \in Run |-> IF call[r] = NoTask THEN taskOf[r] ELSE call[r]]
          /\ running' = [t \in Task |-> slot[t] \/ (t \in Entering(T, slot) /\ t \notin OneServer)]
  BY DEF BeginRuns
<1>2. /\ call \in [Run -> Entering(T, slot) \cup {NoTask}]
      /\ \A r \in Run : call[r] # NoTask => pc[r] = "idle"
      /\ \A q, r \in Run : call[q] = call[r] /\ call[q] # NoTask => q = r
  BY CallsDef
<1> SUFFICES ASSUME NEW t \in Skip \ OneServer, t \in Task
             PROVE  /\ \A q, r \in InFlight(t)' : q = r
                    /\ InFlight(t)' # {} => running'[t]
  BY OptionsAssumption DEF AtMostOneInFlight
<1>3. \A q, r \in InFlight(t) : q = r
  BY DEF AtMostOneInFlight
\* A run that was not in flight and is afterwards has just begun.
<1>4. ASSUME NEW r \in Run, r \in InFlight(t)'
      PROVE  \/ call[r] = t
             \/ call[r] = NoTask /\ r \in InFlight(t) /\ ~(t \in W /\ sleeper[t] = r)
  <2>1. CASE call[r] # NoTask
    BY <1>1, <1>4, <2>1 DEF InFlight
  <2>2. CASE call[r] = NoTask
    <3>1. taskOf[r] = t /\ pc'[r] = Wake(W)[r]
      BY <1>1, <1>4, <2>2 DEF InFlight
    <3>2. CASE t \in W /\ sleeper[t] = r
      <4>1. pc[r] = "parked" /\ pc'[r] = "woken"
        BY <3>1, <3>2 DEF Wake, ParkedIsAwaited
      <4>2. r \in superseded'
        BY <3>1, <3>2, <4>1
      <4> QED BY <1>4, <4>1, <4>2 DEF InFlight
    <3>3. CASE ~(t \in W /\ sleeper[t] = r)
      <4>1. \A u \in W : sleeper[u] # r
        BY <3>1, <3>3 DEF ParkedIsAwaited
      <4>2. pc'[r] = pc[r]
        BY <3>1, <4>1 DEF Wake
      <4> QED BY <1>4, <2>2, <3>1, <3>3, <4>2 DEF InFlight
    <3> QED BY <3>2, <3>3
  <2> QED BY <2>1, <2>2
<1>5. ASSUME NEW q \in Run, NEW r \in Run, call[q] = t,
             call[r] = NoTask, r \in InFlight(t), ~(t \in W /\ sleeper[t] = r)
      PROVE  FALSE
  <2>1. t \in Entering(T, slot) /\ ~slot[t]
    BY <1>2, <1>5 DEF Entering
  <2>2. running[t]
    BY <1>5 DEF AtMostOneInFlight
  <2>3. t \in W /\ sleeper[t] # NoRun
    BY <2>1, <2>2
  <2>4. sleeper[t] \in InFlight(t)
    BY <2>3 DEF ParkedIsAwaited, InFlight, TypeOK
  <2> QED BY <1>3, <1>5, <2>3, <2>4
<1>6. ASSUME NEW q \in InFlight(t)', NEW r \in InFlight(t)' PROVE q = r
  <2>1. q \in Run /\ r \in Run
    BY DEF InFlight
  <2> QED BY <1>2, <1>3, <1>4, <1>5, <2>1
<1>7. ASSUME NEW r \in InFlight(t)' PROVE running'[t]
  <2>1. r \in Run
    BY DEF InFlight
  <2>2. CASE call[r] = t
    <3>1. t \in Entering(T, slot)
      BY <1>2, <2>1, <2>2
    <3> QED BY <1>1, <3>1
  <2>3. CASE r \in InFlight(t) /\ ~(t \in W /\ sleeper[t] = r)
    <3>1. running[t]
      BY <2>3 DEF AtMostOneInFlight
    <3>2. ~(t \in W /\ sleeper[t] # NoRun)
      <4> SUFFICES ASSUME t \in W, sleeper[t] # NoRun PROVE FALSE
        OBVIOUS
      <4>1. sleeper[t] \in InFlight(t)
        BY DEF ParkedIsAwaited, InFlight, TypeOK
      <4> QED BY <1>3, <2>3, <4>1
    <3> QED BY <1>1, <3>1, <3>2
  <2> QED BY <1>4, <2>1, <2>2, <2>3
<1> QED BY <1>6, <1>7

\* The end of a run frees the slot only for a run that still has it.
LEMMA EndSingle ==
    ASSUME TypeOK, AtMostOneInFlight, NEW r \in Run,
           \/ pc[r] \in {"body", "woken"} /\ Finish(r)
           \/ pc[r] \in {"acquiring", "releasing"} /\ Discard(r)
    PROVE  AtMostOneInFlight'
<1> SUFFICES ASSUME NEW t \in Skip \ OneServer, t \in Task
             PROVE  /\ \A p, q \in InFlight(t)' : p = q
                    /\ InFlight(t)' # {} => running'[t]
  BY OptionsAssumption DEF AtMostOneInFlight
<1>1. \A q \in InFlight(t)' : q \in InFlight(t) /\ q # r
  BY ValueAssumption DEF InFlight, Finish, Discard, TypeOK
<1>2. CASE taskOf[r] = t /\ r \in InFlight(t)
  BY <1>1, <1>2 DEF AtMostOneInFlight, InFlight
<1>3. CASE ~(taskOf[r] = t /\ r \in InFlight(t))
  <2>1. running'[t] = running[t]
    BY <1>3 DEF InFlight, Finish, Discard, TypeOK
  <2> QED BY <1>1, <2>1 DEF AtMostOneInFlight
<1> QED BY <1>2, <1>3

LEMMA SingleStep ==
    TypeOK /\ ParkedIsAwaited /\ AtMostOneInFlight /\ [Next]_vars => AtMostOneInFlight'
<1> SUFFICES ASSUME TypeOK, ParkedIsAwaited, AtMostOneInFlight, [Next]_vars
             PROVE  AtMostOneInFlight'
  OBVIOUS
<1> USE ValueAssumption, OptionsAssumption
\* A step that leaves the slots and puts no run in flight that was not.
<1>s. ASSUME UNCHANGED running, \A t \in Task : InFlight(t)' \subseteq InFlight(t)
      PROVE  AtMostOneInFlight'
  BY <1>s DEF AtMostOneInFlight
<1>n. pc = Wake({}) /\ {r \in Run : taskOf[r] \in {} /\ pc[r] \in {"body", "parked"}} = {}
  BY DEF Wake, TypeOK
<1>1. ASSUME NEW t \in Task, Register(t) PROVE AtMostOneInFlight'
  <2>1. InFlight(t) = {}
    BY <1>1 DEF Register, InFlight, TypeOK
  <2>2. \A u \in Task : InFlight(u)' = InFlight(u)
    BY <1>1 DEF Register, InFlight, runVars
  <2>3. \A u \in Task \ {t} : running'[u] = running[u]
    BY <1>1 DEF Register, TypeOK
  <2> QED BY <2>1, <2>2, <2>3 DEF AtMostOneInFlight
<1>2. CASE Start
  <2>1. registered \cap Enabled \cap RunOnStart \in SUBSET Task /\ running \in [Task -> BOOLEAN]
    BY DEF TypeOK
  <2> QED BY <1>2, <1>n, <2>1, BeginSingle DEF Start
<1>3. CASE Stop
  <2>1. \A t \in Task : InFlight(t)' \subseteq InFlight(t)
    BY <1>3 DEF Stop, Wake, InFlight, ParkedIsAwaited, TypeOK
  <2> QED BY <1>3, <2>1, <1>s DEF Stop
<1>4. ASSUME NEW t \in Task, Pause(t) PROVE AtMostOneInFlight'
  BY <1>4, <1>s DEF Pause, InFlight, runVars
<1>5. ASSUME NEW t \in Task, Resume(t) PROVE AtMostOneInFlight'
  BY <1>5, <1>s DEF Resume, InFlight, runVars
<1>6. ASSUME NEW t \in Task, RunNow(t) PROVE AtMostOneInFlight'
  <2>1. {t} \in SUBSET Task /\ running \in [Task -> BOOLEAN]
    BY DEF TypeOK
  <2> QED BY <1>6, <1>n, <2>1, BeginSingle DEF RunNow
<1>7. ASSUME NEW t \in Task, Occurrence(t) PROVE AtMostOneInFlight'
  <2> DEFINE slot == [running EXCEPT ![t] = @ /\ ~(sleeper[t] # NoRun)]
  <2>1. {t} \in SUBSET Task /\ slot \in [Task -> BOOLEAN]
    BY DEF TypeOK
  <2>2. BeginRuns({t}, slot, Wake({t}))
    BY <1>7 DEF Occurrence
  <2>3. \A u \in Task : slot[u] = (running[u] /\ ~(u \in {t} /\ sleeper[u] # NoRun))
    BY DEF TypeOK
  <2>4. superseded' = superseded \cup
                {r \in Run : taskOf[r] \in {t} /\ pc[r] \in {"body", "parked"}}
    BY <1>7 DEF Occurrence
  <2> HIDE DEF slot
  <2> QED BY <2>1, <2>2, <2>3, <2>4, BeginSingle
<1>8. ASSUME NEW t \in Task, BackoffEnds(t) PROVE AtMostOneInFlight'
  <2>1. \A u \in Task : InFlight(u)' \subseteq InFlight(u)
    BY <1>8 DEF BackoffEnds, Wake, InFlight, ParkedIsAwaited, TypeOK
  <2> QED BY <1>8, <2>1, <1>s DEF BackoffEnds
<1>9. ASSUME NEW r \in Run, Acquired(r) PROVE AtMostOneInFlight'
  <2>1. \A t \in Task \ OneServer :
            InFlight(t)' \subseteq InFlight(t) /\ (running[t] => running'[t])
    BY <1>9 DEF Acquired, InFlight, TypeOK
  <2> QED BY <2>1 DEF AtMostOneInFlight
<1>10. ASSUME NEW r \in Run, Refused(r) PROVE AtMostOneInFlight'
  BY <1>10, EndSingle DEF Refused
<1>11. ASSUME NEW r \in Run, AttemptSucceeds(r) PROVE AtMostOneInFlight'
  BY <1>11, EndSingle DEF AttemptSucceeds
<1>12. ASSUME NEW r \in Run, GivesUp(r) PROVE AtMostOneInFlight'
  BY <1>12, EndSingle DEF GivesUp
<1>13. ASSUME NEW r \in Run, Parks(r) PROVE AtMostOneInFlight'
  <2>1. \A u \in Task : InFlight(u)' \subseteq InFlight(u)
    BY <1>13 DEF Parks, Wake, InFlight, ParkedIsAwaited, TypeOK
  <2> QED BY <1>13, <2>1, <1>s DEF Parks
<1>14. ASSUME NEW r \in Run, Retry(r) PROVE AtMostOneInFlight'
  <2>1. \A u \in Task : InFlight(u)' \subseteq InFlight(u)
    BY <1>14 DEF Retry, MayRetry, InFlight, TypeOK
  <2> QED BY <1>14, <2>1, <1>s DEF Retry
<1>15. ASSUME NEW r \in Run, Abandon(r) PROVE AtMostOneInFlight'
  BY <1>15, EndSingle DEF Abandon
<1>16. ASSUME NEW r \in Run, Released(r) PROVE AtMostOneInFlight'
  BY <1>16, EndSingle DEF Released
<1>17. CASE UNCHANGED vars
  BY <1>17, <1>s DEF vars, runVars, InFlight
<1> QED BY <1>1, <1>2, <1>3, <1>4, <1>5, <1>6, <1>7, <1>8, <1>9, <1>10, <1>11, <1>12,
           <1>13, <1>14, <1>15, <1>16, <1>17 DEF Next

\* Under overlap: 'skip' without a lock at most one run of a task is in flight,
\* and it holds the slot that the next occurrence is skipped for.
THEOREM OneRunInFlight == Spec => []AtMostOneInFlight
<1>1. Init => AtMostOneInFlight
  BY DEF Init, AtMostOneInFlight, InFlight
<1>2. TypeOK /\ ParkedIsAwaited /\ AtMostOneInFlight /\ [Next]_vars => AtMostOneInFlight'
  BY SingleStep
<1> QED BY <1>1, <1>2, Awaited, PTL DEF Spec

-----------------------------------------------------------------------------
(* The timer registry, for every set of keys, promises and delays and for  *)
(* every limit of setTimeout.                                              *)

\* A leg, and what it leaves for later, make up at least the delay asked for:
\* capping legs under MaxTimeout is what keeps setTimeout from firing at once.
LEMMA ArmLegCovers ==
    ASSUME NEW ms \in Nat, NEW fire \in Sleeper \cup {NoSleeper}
    PROVE  /\ ArmLeg(ms, fire) \in Entry
           /\ ArmLeg(ms, fire).fire = fire
           /\ ArmLeg(ms, fire).leg + ArmLeg(ms, fire).remaining >= ms
BY LimitAssumption DEF ArmLeg, SetTimeout, Entry

\* A clamped delay is a delay.
LEMMA ClampIsNat == ASSUME NEW d \in Delay PROVE Clamp(d) \in Nat
BY LimitAssumption, DelayAssumption DEF Clamp

-----------------------------------------------------------------------------
\* Every action keeps the types of the registry's maps.
THEOREM TimersTypeCorrect == TimersSpec => []TimersType
<1>1. TimersInit => TimersType
  BY DEF TimersInit, TimersType
<1>2. TimersType /\ [TimersNext]_registryVars => TimersType'
  <2> SUFFICES ASSUME TimersType, [TimersNext]_registryVars PROVE TimersType'
    OBVIOUS
  <2> USE DEF TimersType
  <2>1. ASSUME NEW k \in Key, NEW d \in Delay, Arm(k, d) PROVE TimersType'
    BY <2>1, ArmLegCovers, ClampIsNat DEF Arm, Resolve
  <2>2. ASSUME NEW k \in Key, NEW d \in Delay, NEW s \in Sleeper, Sleep(k, d, s)
        PROVE TimersType'
    BY <2>2, ArmLegCovers, ClampIsNat DEF Sleep, Resolve
  <2>3. ASSUME NEW k \in Key, Cancel(k) PROVE TimersType'
    BY <2>3 DEF Cancel, Resolve
  <2>4. CASE Clear
    BY <2>4 DEF Clear, Resolve
  <2>5. ASSUME NEW k \in Key, NextLeg(k) PROVE TimersType'
    <3>1. entries[k] \in Entry
      BY <2>5 DEF NextLeg
    <3>2. ArmLeg(entries[k].remaining, entries[k].fire) \in Entry
      BY <3>1, ArmLegCovers DEF Entry
    <3> QED BY <2>5, <3>2 DEF NextLeg
  <2>6. ASSUME NEW k \in Key, Fire(k) PROVE TimersType'
    BY <2>6 DEF Fire, Resolve
  <2>7. ASSUME NEW s \in Sleeper, SleeperResumes(s) PROVE TimersType'
    BY <2>7 DEF SleeperResumes
  <2>8. CASE Tick
    <3>1. ASSUME NEW k \in Key, Running(k)
          PROVE  [entries[k] EXCEPT !.leg = @ - 1] \in Entry
      BY <3>1 DEF Running, Entry
    <3> QED BY <2>8, <3>1 DEF Tick
  <2>9. CASE UNCHANGED registryVars
    BY <2>9 DEF registryVars
  <2> QED BY <2>1, <2>2, <2>3, <2>4, <2>5, <2>6, <2>7, <2>8, <2>9 DEF TimersNext
<1> QED BY <1>1, <1>2, PTL DEF TimersSpec

-----------------------------------------------------------------------------
\* Chaining legs never fires a timer before the delay it was armed with.
THEOREM NeverEarly == TimersSpec => []LegsCoverDelay
<1>1. TimersInit => LegsCoverDelay
  BY DEF TimersInit, LegsCoverDelay
<1>2. TimersType /\ LegsCoverDelay /\ [TimersNext]_registryVars => LegsCoverDelay'
  <2> SUFFICES ASSUME TimersType, LegsCoverDelay, [TimersNext]_registryVars PROVE LegsCoverDelay'
    OBVIOUS
  <2> USE EntryAssumption DEF TimersType, LegsCoverDelay
  <2>1. ASSUME NEW k \in Key, NEW d \in Delay, Arm(k, d) PROVE LegsCoverDelay'
    BY <2>1, ArmLegCovers, ClampIsNat DEF Arm
  <2>2. ASSUME NEW k \in Key, NEW d \in Delay, NEW s \in Sleeper, Sleep(k, d, s)
        PROVE LegsCoverDelay'
    BY <2>2, ArmLegCovers, ClampIsNat DEF Sleep
  <2>3. ASSUME NEW k \in Key, Cancel(k) PROVE LegsCoverDelay'
    BY <2>3 DEF Cancel
  <2>4. CASE Clear
    BY <2>4 DEF Clear
  <2>5. ASSUME NEW k \in Key, NextLeg(k) PROVE LegsCoverDelay'
    <3> DEFINE e == ArmLeg(entries[k].remaining, entries[k].fire)
    <3>1. entries[k] \in Entry
      BY <2>5 DEF NextLeg
    <3>2. e \in Entry /\ e.leg + e.remaining >= entries[k].remaining
      BY <3>1, ArmLegCovers DEF Entry
    <3>3. entries[k].leg = 0 /\ entries[k].remaining >= owed[k]
      BY <2>5, <3>1 DEF NextLeg, Entry
    <3>4. e.leg + e.remaining >= owed[k]
      BY <3>1, <3>2, <3>3 DEF Entry
    <3> HIDE DEF e
    <3>5. entries' = [entries EXCEPT ![k] = e] /\ owed' = owed
      BY <2>5 DEF NextLeg, e
    <3> QED BY <3>2, <3>4, <3>5
  <2>6. ASSUME NEW k \in Key, Fire(k) PROVE LegsCoverDelay'
    BY <2>6 DEF Fire
  <2>7. ASSUME NEW s \in Sleeper, SleeperResumes(s) PROVE LegsCoverDelay'
    BY <2>7 DEF SleeperResumes
  <2>8. CASE Tick
    <3> SUFFICES ASSUME NEW k \in Key
                 PROVE  IF entries'[k] = NoEntry THEN owed'[k] = 0
                        ELSE entries'[k].leg + entries'[k].remaining >= owed'[k]
      OBVIOUS
    <3>1. owed[k] \in Nat /\ owed'[k] = IF owed[k] > 0 THEN owed[k] - 1 ELSE 0
      BY <2>8 DEF Tick
    <3>2. CASE entries[k] = NoEntry
      BY <2>8, <3>1, <3>2 DEF Tick, Running
    <3>3. CASE entries[k] # NoEntry
      <4>1. entries[k] \in Entry
        BY <3>3
      <4>2. CASE entries[k].leg > 0
        <5>1. /\ entries'[k] \in Entry
              /\ entries'[k].leg = entries[k].leg - 1
              /\ entries'[k].remaining = entries[k].remaining
          BY <2>8, <3>3, <4>1, <4>2 DEF Tick, Running, Entry
        <5> QED BY <3>1, <3>3, <4>1, <4>2, <5>1 DEF Entry
      <4>3. CASE ~(entries[k].leg > 0)
        <5>1. entries'[k] = entries[k]
          BY <2>8, <4>3 DEF Tick, Running
        <5> QED BY <3>1, <3>3, <4>1, <5>1 DEF Entry
      <4> QED BY <4>2, <4>3
    <3> QED BY <3>2, <3>3
  <2>9. CASE UNCHANGED registryVars
    BY <2>9 DEF registryVars
  <2> QED BY <2>1, <2>2, <2>3, <2>4, <2>5, <2>6, <2>7, <2>8, <2>9 DEF TimersNext
<1> QED BY <1>1, <1>2, TimersTypeCorrect, PTL DEF TimersSpec

-----------------------------------------------------------------------------
\* The two maps of the registry and the promises it handed out always agree.
THEOREM NoSleeperLeftBehind == TimersSpec => []AwaitedIsArmed
<1>1. TimersInit => AwaitedIsArmed
  BY SleeperAssumption DEF TimersInit, AwaitedIsArmed
<1>2. TimersType /\ AwaitedIsArmed /\ [TimersNext]_registryVars => AwaitedIsArmed'
  <2> SUFFICES ASSUME TimersType, AwaitedIsArmed, [TimersNext]_registryVars PROVE AwaitedIsArmed'
    OBVIOUS
  <2> USE EntryAssumption, SleeperAssumption DEF TimersType, AwaitedIsArmed
  <2>1. ASSUME NEW k \in Key, NEW d \in Delay, Arm(k, d) PROVE AwaitedIsArmed'
    <3>1. ArmLeg(Clamp(d), NoSleeper) \in Entry
          /\ ArmLeg(Clamp(d), NoSleeper).fire = NoSleeper
      BY ArmLegCovers, ClampIsNat
    <3> QED BY <2>1, <3>1 DEF Arm, Resolve, Cancelled
  <2>2. ASSUME NEW k \in Key, NEW d \in Delay, NEW s \in Sleeper, Sleep(k, d, s)
        PROVE AwaitedIsArmed'
    <3>1. ArmLeg(Clamp(d), s) \in Entry /\ ArmLeg(Clamp(d), s).fire = s
      BY ArmLegCovers, ClampIsNat
    <3> QED BY <2>2, <3>1 DEF Sleep, Resolve, Cancelled
  <2>3. ASSUME NEW k \in Key, Cancel(k) PROVE AwaitedIsArmed'
    BY <2>3 DEF Cancel, Resolve, Cancelled
  <2>4. CASE Clear
    BY <2>4 DEF Clear, Resolve, Cancelled
  <2>5. ASSUME NEW k \in Key, NextLeg(k) PROVE AwaitedIsArmed'
    <3> DEFINE e == ArmLeg(entries[k].remaining, entries[k].fire)
    <3>1. e \in Entry /\ e.fire = entries[k].fire
      BY <2>5, ArmLegCovers DEF NextLeg, Entry
    <3> HIDE DEF e
    <3>2. /\ entries' = [entries EXCEPT ![k] = e]
          /\ UNCHANGED <<resolvers, promise>>
          /\ entries[k] # NoEntry
      BY <2>5 DEF NextLeg, e
    <3> QED BY <3>1, <3>2
  <2>6. ASSUME NEW k \in Key, Fire(k) PROVE AwaitedIsArmed'
    <3>1. entries[k].fire \in Sleeper \cup {NoSleeper} /\ resolvers[k] = entries[k].fire
      BY <2>6 DEF Fire, Entry
    <3> QED BY <2>6, <3>1 DEF Fire, Resolve
  <2>7. ASSUME NEW s \in Sleeper, SleeperResumes(s) PROVE AwaitedIsArmed'
    BY <2>7 DEF SleeperResumes
  <2>8. CASE Tick
    <3> SUFFICES ASSUME NEW k \in Key
                 PROVE  /\ entries'[k] = NoEntry <=> entries[k] = NoEntry
                        /\ entries[k] # NoEntry => entries'[k].fire = entries[k].fire
      BY <2>8 DEF Tick
    <3>1. ASSUME Running(k)
          PROVE  /\ entries'[k] = [entries[k] EXCEPT !.leg = @ - 1]
                 /\ entries[k] \in Entry
      BY <2>8, <3>1 DEF Tick, Running
    <3>2. ASSUME Running(k)
          PROVE  /\ [entries[k] EXCEPT !.leg = @ - 1] \in Entry
                 /\ [entries[k] EXCEPT !.leg = @ - 1].fire = entries[k].fire
      BY <3>1, <3>2 DEF Running, Entry
    <3>3. ~Running(k) => entries'[k] = entries[k]
      BY <2>8 DEF Tick
    <3> QED BY <3>1, <3>2, <3>3 DEF Running
  <2>9. CASE UNCHANGED registryVars
    BY <2>9 DEF registryVars
  <2> QED BY <2>1, <2>2, <2>3, <2>4, <2>5, <2>6, <2>7, <2>8, <2>9 DEF TimersNext
<1> QED BY <1>1, <1>2, TimersTypeCorrect, PTL DEF TimersSpec

-----------------------------------------------------------------------------
\* The registry's legs, maps and promises implement timers that wait their
\* whole delay in one piece and settle whoever sleeps on them.
THEOREM Refinement == TimersSpec => ImplementsWholeTimers
<1> DEFINE shown == [k \in Key |-> IF entries[k] = NoEntry THEN NoEntry
                                  ELSE [left |-> owed[k], sleeper |-> resolvers[k]]]
<1>1. TimersInit => Whole!Init
  BY DEF TimersInit, Whole!Init
<1>2. TimersType /\ LegsCoverDelay /\ AwaitedIsArmed /\ [TimersNext]_registryVars => [Whole!Next]_(Whole!vars)
  <2> SUFFICES ASSUME TimersType, LegsCoverDelay, AwaitedIsArmed, [TimersNext]_registryVars
               PROVE  [Whole!Next]_(Whole!vars)
    OBVIOUS
  <2> USE EntryAssumption, SleeperAssumption DEF TimersType
  <2>0. ASSUME NEW k \in Key
        PROVE  /\ Whole!Sleeping(k) = resolvers[k]
               /\ entries[k] # NoEntry => shown[k] # NoEntry /\ shown[k].left = owed[k]
    <3>1. CASE entries[k] = NoEntry
      BY <3>1 DEF Whole!Sleeping, AwaitedIsArmed
    <3>2. CASE entries[k] # NoEntry
      <4>1. shown[k] \in Whole!Timer
        BY <3>2 DEF Whole!Timer
      <4> QED BY <3>2, <4>1, TimerAssumption DEF Whole!Sleeping
    <3> QED BY <3>1, <3>2
  <2>s. ASSUME NEW K \in SUBSET Key
        PROVE  /\ Whole!Settle(K, {}) = Resolve(Cancelled(K))
               /\ \A s \in Sleeper : Whole!Settle(K, {s}) = [Resolve(Cancelled(K)) EXCEPT ![s] = "awaiting"]
    <3>1. ASSUME NEW s \in Sleeper
          PROVE  (\E k \in K : Whole!Sleeping(k) = s) <=> s \in Cancelled(K)
      BY <2>0 DEF Cancelled
    <3>2. Whole!Settle(K, {}) = Resolve(Cancelled(K))
      BY <3>1 DEF Whole!Settle, Resolve
    <3>3. ASSUME NEW s \in Sleeper
          PROVE  Whole!Settle(K, {s}) = [Resolve(Cancelled(K)) EXCEPT ![s] = "awaiting"]
      BY <3>1 DEF Whole!Settle, Resolve
    <3> QED BY <3>2, <3>3
  <2>1. ASSUME NEW k \in Key, NEW d \in Delay, Arm(k, d) PROVE Whole!Next
    <3>1. entries'[k] # NoEntry
      BY <2>1, ArmLegCovers, ClampIsNat DEF Arm
    <3>2. shown' = [shown EXCEPT ![k] = [left |-> Clamp(d), sleeper |-> NoSleeper]]
      BY <2>1, <3>1 DEF Arm
    <3>3. Whole!Arm(k, Clamp(d))
      BY <2>1, <2>s, <3>2 DEF Arm, Whole!Arm
    <3> QED BY <3>3 DEF Whole!Next
  <2>2. ASSUME NEW k \in Key, NEW d \in Delay, NEW s \in Sleeper, Sleep(k, d, s)
        PROVE Whole!Next
    <3>1. entries'[k] # NoEntry
      BY <2>2, ArmLegCovers, ClampIsNat DEF Sleep
    <3>2. shown' = [shown EXCEPT ![k] = [left |-> Clamp(d), sleeper |-> s]]
      BY <2>2, <3>1 DEF Sleep
    <3>3. Whole!Sleep(k, Clamp(d), s)
      BY <2>2, <2>s, <3>2 DEF Sleep, Whole!Sleep
    <3> QED BY <3>3 DEF Whole!Next
  <2>3. ASSUME NEW k \in Key, Cancel(k) PROVE Whole!Next
    <3>1. Whole!Remove({k})
      BY <2>3, <2>s DEF Cancel, Whole!Remove, Whole!Gone
    <3> QED BY <3>1 DEF Whole!Next
  <2>4. CASE Clear
    <3>1. Whole!Remove(Key)
      BY <2>4, <2>s DEF Clear, Whole!Remove, Whole!Gone
    <3> QED BY <3>1 DEF Whole!Next
  <2>5. ASSUME NEW k \in Key, NextLeg(k) PROVE UNCHANGED Whole!vars
    <3>1. ArmLeg(entries[k].remaining, entries[k].fire) # NoEntry
      BY <2>5, ArmLegCovers DEF NextLeg, Entry
    <3> QED BY <2>5, <3>1 DEF NextLeg, Whole!vars
  <2>6. ASSUME NEW k \in Key, Fire(k) PROVE Whole!Next
    <3>1. resolvers[k] = entries[k].fire /\ entries[k].fire \in Sleeper \cup {NoSleeper}
      BY <2>6 DEF Fire, AwaitedIsArmed, Entry
    <3>2. shown[k] # NoEntry /\ shown[k].left = 0
      BY <2>0, <2>6 DEF Fire, LegsCoverDelay, Entry
    <3>3. promise' = Resolve(Cancelled({k}))
      BY <2>6, <3>1 DEF Fire, Resolve, Cancelled
    <3>4. Whole!Fire(k)
      <4>1. Whole!Gone({k})
        BY <2>6, <3>1, <3>3, <2>s DEF Fire, Whole!Gone
      <4> QED BY <2>6, <3>2, <4>1 DEF Fire, Whole!Fire
    <3> QED BY <3>4 DEF Whole!Next
  <2>7. ASSUME NEW s \in Sleeper, SleeperResumes(s) PROVE Whole!Next
    BY <2>7 DEF SleeperResumes, Whole!Resume, Whole!Next
  <2>8. CASE Tick
    <3>1. ASSUME NEW k \in Key PROVE entries'[k] = NoEntry <=> entries[k] = NoEntry
      <4>1. ASSUME Running(k)
            PROVE  /\ entries'[k] = [entries[k] EXCEPT !.leg = @ - 1]
                   /\ [entries[k] EXCEPT !.leg = @ - 1] \in Entry
        BY <2>8, <4>1 DEF Tick, Running, Entry
      <4>2. ~Running(k) => entries'[k] = entries[k]
        BY <2>8 DEF Tick
      <4> QED BY <4>1, <4>2 DEF Running
    <3>2. Whole!Tick
      <4>1. ASSUME NEW k \in Key
            PROVE  shown'[k] = IF shown[k] = NoEntry \/ shown[k].left = 0 THEN shown[k]
                               ELSE [shown[k] EXCEPT !.left = @ - 1]
        <5>1. CASE entries[k] = NoEntry
          BY <3>1, <5>1
        <5>2. CASE entries[k] # NoEntry
          BY <2>0, <2>8, <3>1, <5>2 DEF Tick
        <5> QED BY <5>1, <5>2
      <4> QED BY <2>8, <4>1 DEF Tick, Whole!Tick
    <3> QED BY <3>2 DEF Whole!Next
  <2>9. CASE UNCHANGED registryVars
    BY <2>9 DEF registryVars, Whole!vars
  <2> QED BY <2>1, <2>2, <2>3, <2>4, <2>5, <2>6, <2>7, <2>8, <2>9 DEF TimersNext
<1> QED BY <1>1, <1>2, TimersTypeCorrect, NeverEarly, NoSleeperLeftBehind, PTL
        DEF TimersSpec, ImplementsWholeTimers, Whole!Spec
=============================================================================
