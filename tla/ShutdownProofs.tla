---------------------------- MODULE ShutdownProofs ----------------------------
(* What holds of every shutdown, whatever the hooks, their priorities, and *)
(* when they are registered: types, order, the server first, at most once, *)
(* and that reports and exit codes tell what became of the hooks.          *)
EXTENDS Shutdown, FiniteSetTheorems, SequenceTheorems, TLAPS

-----------------------------------------------------------------------------
(* Types. *)

\* What run() settles with is a report, or its rejection, and settles it.
LEMMA SettleTyped ==
    ASSUME TypeOK, stage # "idle", NEW r \in Report \cup {Rejected}, Settle(r)
    PROVE  /\ report' \in Report \cup {Rejected}
           /\ report' # NoReport
           /\ armed' = FALSE
           /\ exit' \in {"alive", "clean", "degraded"}
<1>1. NoReport \notin Report \cup {Rejected}
  BY ReportAssumption
<1>2. exit' \in {"alive", "clean", "degraded"}
  BY DEF TypeOK, Settle, endVars, ExitCode
<1>3. CASE report = NoReport
  BY <1>1, <1>2, <1>3 DEF TypeOK, Settle
<1>4. CASE report # NoReport
  BY <1>1, <1>2, <1>4 DEF TypeOK, Settle, endVars
<1>5. QED
  BY <1>3, <1>4

\* The timer's report is one.
LEMMA DeadlineReports ==
    ASSUME TypeOK
    PROVE  [ran |-> progress.ran, failed |-> progress.failed, timedOut |-> TRUE] \in Report
BY DEF TypeOK, Tally, Report

\* Starting the first hook of H leaves a walk: it runs, the rest waits.
LEMMA StartTyped ==
    ASSUME NEW H \in SUBSET Hook, NEW r, NEW now \in [Hook -> Status], StartFirst(H, r, now)
    PROVE  /\ running' \in H
           /\ running' # NoHook
           /\ batch' = H \ {running'}
           /\ status' = [now EXCEPT ![running'] = "running"]
           /\ status' \in [Hook -> Status]
           /\ \A g \in H : g = running' \/ Before(r, running', g)
<1>1. PICK h \in H : /\ \A g \in H : g = h \/ Before(r, h, g)
                     /\ running' = h
                     /\ batch' = H \ {h}
                     /\ status' = [now EXCEPT ![h] = "running"]
  BY DEF StartFirst
<1>2. "running" \in Status
  BY DEF Status
<1>3. QED
  BY <1>1, <1>2, ValueAssumption

\* The initial states are typed.
LEMMA TypeInit == Init => TypeOK
<1> SUFFICES ASSUME Init PROVE TypeOK
  OBVIOUS
<1> USE DEF Init
<1>1. /\ heard \in [Disposable -> Nat]
      /\ entries \subseteq Hook
      /\ rank \in [Hook -> Nat]
      /\ turn \in Nat
      /\ status \in [Hook -> Status]
      /\ stage \in Stage
      /\ batch \subseteq Hook
      /\ failed \in Seq(Hook)
  BY DEF Status, Stage
<1>2. progress \in Tally
  BY DEF Tally
<1>3. QED
  BY <1>1, <1>2 DEF TypeOK

\* Type correctness is inductive by itself.
LEMMA TypeStep == TypeOK /\ [Next]_vars => TypeOK'
<1> SUFFICES ASSUME TypeOK, [Next]_vars PROVE TypeOK'
  OBVIOUS
<1> USE DEF TypeOK
<1>1. ASSUME NEW h \in Hook, Register(h) PROVE TypeOK'
  BY <1>1 DEF Register, walkVars, endVars
<1>2. ASSUME NEW h \in Disposable, Announce(h) PROVE TypeOK'
  BY <1>2 DEF Announce, walkVars, endVars
<1>3. ASSUME NEW h \in Disposable, Withdraw(h) PROVE TypeOK'
  BY <1>3 DEF Withdraw, registryVars, walkVars, endVars
<1>4. ASSUME NEW bySignal \in BOOLEAN, Begin(bySignal) PROVE TypeOK'
  <2> DEFINE adopted == {h \in Disposable : heard[h] # 0}
             all == entries \cup adopted
             band == {h \in all : Early(h)}
             order == [h \in Hook |-> IF h \in adopted THEN turn + heard[h] ELSE rank[h]]
  <2>1. adopted \subseteq Hook /\ order \in [Hook -> Nat] /\ band \subseteq Hook
    BY HookAssumption
  <2>2. /\ heard' \in [Disposable -> Nat]
        /\ rank' \in [Hook -> Nat]
        /\ turn' \in Nat
        /\ entries' \subseteq Hook
        /\ signalled' \in BOOLEAN
    BY <1>4, <2>1 DEF Begin, Left
  <2>3. /\ UNCHANGED <<frozen, failed, progress, accepting, report, exit>>
        /\ stage = "idle"
        /\ armed' = TRUE
    BY <1>4 DEF Begin
  <2>4. /\ status' \in [Hook -> Status]
        /\ stage' \in {"early", "draining"}
        /\ batch' \subseteq Hook
        /\ running' \in Hook \cup {NoHook}
        /\ running' # NoHook <=> stage' = "early"
    <3>1. CASE band = {}
      BY <1>4, <3>1 DEF Begin
    <3>2. CASE band # {}
      <4>1. stage' = "early" /\ StartFirst(band, order, status)
        BY <1>4, <3>2 DEF Begin
      <4>2. band \in SUBSET Hook /\ status \in [Hook -> Status]
        BY <2>1
      <4> HIDE DEF band, order
      <4>3. /\ running' \in band
            /\ running' # NoHook
            /\ batch' = band \ {running'}
            /\ status' \in [Hook -> Status]
        BY <4>1, <4>2, StartTyped
      <4>4. QED
        BY <4>1, <4>2, <4>3
    <3>3. QED
      BY <3>1, <3>2
  <2>5. QED
    BY <2>2, <2>3, <2>4 DEF Stage
<1>5. ASSUME NEW result \in {"done", "failed"}, EarlyEnds(result) PROVE TypeOK'
  <2> DEFINE now == [status EXCEPT ![running] = result]
  <2>1. /\ UNCHANGED <<heard, entries, rank, turn, frozen, failed, progress, accepting,
                       report, armed, exit, signalled>>
        /\ stage = "early"
    BY <1>5 DEF EarlyEnds, registryVars, endVars
  <2>2. now \in [Hook -> Status]
    BY DEF Status
  <2>3. /\ status' \in [Hook -> Status]
        /\ stage' \in {"early", "draining"}
        /\ batch' \subseteq Hook
        /\ running' \in Hook \cup {NoHook}
        /\ running' # NoHook <=> stage' = "early"
    <3>1. CASE batch = {}
      BY <1>5, <2>2, <3>1 DEF EarlyEnds
    <3>2. CASE batch # {}
      <4>1. stage' = "early" /\ StartFirst(batch, rank, now)
        BY <1>5, <2>1, <3>2 DEF EarlyEnds
      <4> HIDE DEF now
      <4>2. /\ running' \in batch
            /\ running' # NoHook
            /\ batch' = batch \ {running'}
            /\ status' \in [Hook -> Status]
        BY <4>1, <2>2, StartTyped
      <4>3. QED
        BY <4>1, <4>2
    <3>3. QED
      BY <3>1, <3>2
  <2>4. QED
    BY <2>1, <2>3 DEF Stage
<1>6. CASE Drained
  BY <1>6 DEF Drained, registryVars, endVars, Stage
<1>7. CASE DrainFails
  <2>1. /\ UNCHANGED <<heard, entries, rank, turn, frozen, status, batch, running, failed,
                       progress, accepting, signalled>>
        /\ stage = "draining"
        /\ stage' = "broken"
        /\ Settle(Rejected)
    BY <1>7 DEF DrainFails, registryVars
  <2>2. QED
    BY <2>1, SettleTyped DEF Stage
<1>8. CASE Announced
  <2>1. /\ UNCHANGED <<heard, entries, rank, turn, failed, accepting, signalled>>
        /\ stage = "announcing"
        /\ frozen' = TRUE
    BY <1>8 DEF Announced
  <2>2. CASE entries = {}
    <3>1. /\ UNCHANGED <<status, batch, running, progress>>
          /\ stage' = "over"
          /\ Settle([ran |-> 0, failed |-> <<>>, timedOut |-> FALSE])
      BY <1>8, <2>2 DEF Announced
    <3>2. [ran |-> 0, failed |-> <<>>, timedOut |-> FALSE] \in Report
      BY DEF Report
    <3>3. QED
      BY <2>1, <3>1, <3>2, SettleTyped DEF Stage
  <2>3. CASE entries # {}
    <3>1. /\ UNCHANGED <<report, armed, exit>>
          /\ stage' = "hooks"
          /\ StartFirst(entries, rank, status)
          /\ progress' = [ran |-> 1, failed |-> <<>>]
      BY <1>8, <2>3 DEF Announced, Publish, endVars
    <3>2. progress' \in Tally
      BY <3>1 DEF Tally
    <3>3. /\ running' \in entries
          /\ running' # NoHook
          /\ batch' = entries \ {running'}
          /\ status' \in [Hook -> Status]
      BY <3>1, StartTyped
    <3>4. QED
      BY <2>1, <3>1, <3>2, <3>3 DEF Stage
  <2>4. QED
    BY <2>2, <2>3
<1>9. ASSUME NEW result \in {"done", "failed"}, HookEnds(result) PROVE TypeOK'
  <2> DEFINE now == [status EXCEPT ![running] = result]
             list == IF result = "failed" THEN Append(failed, running) ELSE failed
  <2>1. /\ UNCHANGED <<heard, entries, rank, turn, frozen, accepting, signalled>>
        /\ stage = "hooks"
        /\ failed' = list
    BY <1>9 DEF HookEnds, registryVars
  <2>2. now \in [Hook -> Status] /\ list \in Seq(Hook)
    BY <2>1 DEF Status
  <2>3. CASE batch = {}
    <3>1. /\ UNCHANGED batch
          /\ stage' = "over"
          /\ running' = NoHook
          /\ status' = now
          /\ progress' = [ran |-> progress.ran, failed |-> list]
          /\ Settle([ran |-> progress.ran, failed |-> list, timedOut |-> FALSE])
      BY <1>9, <2>3 DEF HookEnds, Publish
    <3>2. /\ progress' \in Tally
          /\ [ran |-> progress.ran, failed |-> list, timedOut |-> FALSE] \in Report
      BY <2>2, <3>1 DEF Tally, Report
    <3> HIDE DEF now, list
    <3>3. QED
      BY <2>1, <2>2, <3>1, <3>2, SettleTyped DEF Stage
  <2>4. CASE batch # {}
    <3>1. /\ UNCHANGED <<stage, report, armed, exit>>
          /\ StartFirst(batch, rank, now)
          /\ progress' = [ran |-> progress.ran + 1, failed |-> list]
      BY <1>9, <2>4 DEF HookEnds, Publish, endVars
    <3>2. progress' \in Tally
      BY <2>2, <3>1 DEF Tally
    <3> HIDE DEF now, list
    <3>3. /\ running' \in batch
          /\ running' # NoHook
          /\ batch' = batch \ {running'}
          /\ status' \in [Hook -> Status]
      BY <2>2, <3>1, StartTyped
    <3>4. QED
      BY <2>1, <2>2, <3>1, <3>2, <3>3 DEF Stage
  <2>5. QED
    BY <2>3, <2>4
<1>10. CASE Deadline
  <2>1. /\ UNCHANGED <<heard, entries, rank, turn, frozen, status, stage, batch, running,
                       failed, progress, accepting, signalled>>
        /\ stage # "idle"
        /\ Settle([ran |-> progress.ran, failed |-> progress.failed, timedOut |-> TRUE])
    BY <1>10 DEF Deadline, registryVars, walkVars
  <2>2. QED
    BY <2>1, DeadlineReports, SettleTyped
<1>11. CASE SecondSignal
  BY <1>11 DEF SecondSignal, registryVars, walkVars
<1>12. CASE UNCHANGED vars
  BY <1>12 DEF vars, registryVars, walkVars, endVars
<1>13. QED
  BY <1>1, <1>2, <1>3, <1>4, <1>5, <1>6, <1>7, <1>8, <1>9, <1>10, <1>11, <1>12 DEF Next

\* The variables keep their types, and the stage says what they may hold: a hook
\* is awaited in the two walks alone, the registry is frozen by the second, the
\* timer is set until run() settles, and run() has settled when all is over.
THEOREM TypeCorrect == Spec => []TypeOK
<1>1. Init => TypeOK
  BY TypeInit
<1>2. QED
  BY <1>1, TypeStep, PTL DEF Spec

-----------------------------------------------------------------------------
(* The walks. *)

\* The hooks of S are walked in the order of r, with statuses st: e is awaited, b
\* has not started, the others have ended, and each precedes those after it.
Walked(S, r, st, b, e) ==
    /\ e \in S
    /\ b \subseteq S \ {e}
    /\ st[e] = "running"
    /\ \A h \in b : st[h] = "waiting" /\ Before(r, e, h)
    /\ \A g \in S \ (b \cup {e}) : /\ st[g] \in {"done", "failed"}
                                 /\ \A h \in b \cup {e} : Before(r, g, h)

Walks ==
    /\ \A h \in Hook : rank[h] = 0 => status[h] = "waiting"
    /\ \A h \in entries : rank[h] # 0
    /\ \A h \in Taken : Early(h)
    /\ stage = "idle" => Taken = {}
    /\ stage = "early" => Walked(Taken, rank, status, batch, running)
    /\ stage \notin {"idle", "early"} => \A h \in Taken : Ended(h)
    /\ stage \notin {"hooks", "over"} => \A h \in entries : status[h] = "waiting"
    /\ stage = "hooks" => Walked(entries, rank, status, batch, running)
    /\ stage = "over" => \A h \in entries : Ended(h)

\* Hooks run after the server stopped.
Drains == stage \in {"announcing", "hooks", "over"} => ~accepting

\* A list names the hooks of run() that threw, in the order they ran.
Names(list) ==
    /\ \A i \in 1..Len(list) : list[i] \in entries /\ status[list[i]] = "failed"
    /\ \A h \in entries : status[h] = "failed" => \E i \in 1..Len(list) : list[i] = h
    /\ \A i, j \in 1..Len(list) : i < j => Before(rank, list[i], list[j])

Tallied ==
    /\ Names(failed)
    /\ progress = [ran |-> Cardinality(Started), failed |-> failed]

IInv == TypeOK /\ Walks /\ Drains /\ Tallied /\ ExitTells

\* A walk that starts, or goes on, with the first of the hooks left.
LEMMA WalkStarts ==
    ASSUME NEW S \in SUBSET Hook, NEW H \in SUBSET S, NEW r,
           NEW now \in [Hook -> Status], NEW e \in H,
           \A g \in H : g = e \/ Before(r, e, g),
           \A h \in H : now[h] = "waiting",
           \A g \in S \ H : now[g] \in {"done", "failed"} /\ \A h \in H : Before(r, g, h)
    PROVE  Walked(S, r, [now EXCEPT ![e] = "running"], H \ {e}, e)
BY DEF Walked

\* Ranks given to hooks outside S do not matter to a walk of S.
LEMMA WalkKept ==
    ASSUME NEW S, NEW r, NEW r2, NEW st, NEW b, NEW e, Walked(S, r, st, b, e),
           \A g \in S : r2[g] = r[g]
    PROVE  Walked(S, r2, st, b, e)
BY DEF Walked, Before

\* Every step keeps both walks in order.
LEMMA WalkStep == TypeOK /\ TypeOK' /\ Walks /\ [Next]_vars => Walks'
<1> SUFFICES ASSUME TypeOK, TypeOK', Walks, [Next]_vars PROVE Walks'
  OBVIOUS
<1>0. Taken \subseteq Hook
  BY DEF Taken
<1>1. ASSUME NEW h \in Hook, Register(h) PROVE Walks'
  <2>1. /\ UNCHANGED <<status, stage, batch, running>>
        /\ entries' = entries \cup {h}
        /\ rank' = [rank EXCEPT ![h] = turn + 1]
        /\ rank[h] = 0
        /\ stage \notin {"hooks", "over"}
    BY <1>1 DEF Register, walkVars, TypeOK
  <2>2. Taken' = Taken /\ h \notin Taken
    BY <2>1 DEF Taken, TypeOK
  <2>3. \A g \in Hook : rank'[g] = IF g = h THEN turn + 1 ELSE rank[g]
    BY <2>1 DEF TypeOK
  <2>4. turn + 1 # 0
    BY DEF TypeOK
  <2>5. stage = "early" => Walked(Taken, rank, status, batch, running)'
    BY <1>0, <2>1, <2>2, <2>3, WalkKept DEF Walks
  <2>6. status[h] = "waiting"
    BY <2>1 DEF Walks
  <2>7. QED
    BY <2>1, <2>2, <2>3, <2>4, <2>5, <2>6, <1>0 DEF Walks, Ended, TypeOK
<1>2. ASSUME NEW h \in Disposable, Announce(h) PROVE Walks'
  BY <1>2 DEF Announce, walkVars, Walks, Taken, Ended
<1>3. ASSUME NEW h \in Disposable, Withdraw(h) PROVE Walks'
  BY <1>3 DEF Withdraw, registryVars, walkVars, Walks, Taken, Ended
<1>4. ASSUME NEW bySignal \in BOOLEAN, Begin(bySignal) PROVE Walks'
  <2> DEFINE adopted == {h \in Disposable : heard[h] # 0}
             all == entries \cup adopted
             band == {h \in all : Early(h)}
             order == [h \in Hook |-> IF h \in adopted THEN turn + heard[h] ELSE rank[h]]
  <2>1. /\ stage = "idle"
        /\ rank' = order
        /\ entries' = Left(all)
        /\ IF band = {}
           THEN stage' = "draining" /\ UNCHANGED <<status, batch, running>>
           ELSE stage' = "early" /\ StartFirst(band, order, status)
    BY <1>4 DEF Begin
  <2>2. \A h \in Hook : status[h] = "waiting"
    BY <2>1 DEF Walks, Taken
  <2>3. \A h \in Hook : order[h] # 0 <=> h \in all
    BY <2>1, HookAssumption DEF Walks, Taken, TypeOK
  <2>4. all \subseteq Hook
    BY HookAssumption DEF TypeOK
  <2>5. Taken' = band /\ entries' \cap band = {} /\ entries' \subseteq all
    <3> HIDE DEF all, order
    <3>1. Taken' = {h \in Hook : order[h] # 0} \ Left(all)
      BY <2>1 DEF Taken
    <3>2. QED
      BY <2>1, <2>3, <2>4, <3>1 DEF Left
  <2>6. CASE band = {}
    <3>1. stage' = "draining" /\ UNCHANGED status
      BY <2>1, <2>6
    <3> HIDE DEF all, order, band
    <3>2. QED
      BY <2>1, <2>2, <2>3, <2>4, <2>5, <2>6, <3>1 DEF Walks
  <2>7. CASE band # {}
    <3>1. stage' = "early" /\ StartFirst(band, order, status)
      BY <2>1, <2>7
    <3>2. \A h \in band : Early(h) /\ h \in all
      OBVIOUS
    <3> HIDE DEF all, order, band
    <3>3. band \in SUBSET Hook /\ status \in [Hook -> Status]
      BY <2>4, <3>2 DEF TypeOK
    <3>4. /\ running' \in band
          /\ batch' = band \ {running'}
          /\ status' = [status EXCEPT ![running'] = "running"]
          /\ \A g \in band : g = running' \/ Before(order, running', g)
      BY <3>1, <3>3, StartTyped
    <3>5. \A h \in band : status[h] = "waiting"
      BY <2>2, <3>3
    <3>6. Walked(band, order, [status EXCEPT ![running'] = "running"],
                 band \ {running'}, running')
      BY <3>3, <3>4, <3>5, WalkStarts
    <3>7. Walked(Taken, rank, status, batch, running)'
      BY <2>1, <2>5, <3>4, <3>6
    <3>8. \A h \in Hook : h \notin band => status'[h] = "waiting"
      BY <2>2, <3>3, <3>4
    <3>9. QED
      BY <2>1, <2>3, <2>4, <2>5, <3>1, <3>2, <3>7, <3>8 DEF Walks
  <2>8. QED
    BY <2>6, <2>7
<1>5. ASSUME NEW result \in {"done", "failed"}, EarlyEnds(result) PROVE Walks'
  <2> DEFINE now == [status EXCEPT ![running] = result]
  <2>1. /\ UNCHANGED <<entries, rank>>
        /\ stage = "early"
        /\ IF batch = {}
           THEN stage' = "draining" /\ status' = now
           ELSE StartFirst(batch, rank, now) /\ UNCHANGED stage
    BY <1>5 DEF EarlyEnds, registryVars
  <2>2. Walked(Taken, rank, status, batch, running)
    BY <2>1 DEF Walks
  <2>3. /\ now \in [Hook -> Status]
        /\ batch \in SUBSET Taken
        /\ \A h \in batch : now[h] = "waiting"
        /\ \A g \in Taken \ batch : /\ now[g] \in {"done", "failed"}
                                  /\ \A h \in batch : Before(rank, g, h)
        /\ \A h \in Hook \ Taken : now[h] = status[h]
    <3>1. now = [status EXCEPT ![running] = result] /\ status \in [Hook -> Status]
      BY DEF TypeOK
    <3> HIDE DEF now
    <3>2. QED
      BY <1>0, <2>2, <3>1 DEF Walked, Status
  <2>4. /\ Taken' = Taken
        /\ \A h \in Hook : h \in Taken => rank[h] # 0 /\ h \notin entries
    BY <2>1 DEF Taken
  <2> HIDE DEF now
  <2>5. CASE batch = {}
    <3>1. stage' = "draining" /\ status' = now
      BY <2>1, <2>5
    <3>2. QED
      BY <1>0, <2>1, <2>3, <2>4, <2>5, <3>1 DEF Walks, Ended, TypeOK
  <2>6. CASE batch # {}
    <3>1. StartFirst(batch, rank, now) /\ UNCHANGED stage
      BY <2>1, <2>6
    <3>2. /\ running' \in batch
          /\ batch' = batch \ {running'}
          /\ status' = [now EXCEPT ![running'] = "running"]
          /\ \A g \in batch : g = running' \/ Before(rank, running', g)
      BY <1>0, <2>3, <3>1, StartTyped
    <3>3. Walked(Taken, rank, [now EXCEPT ![running'] = "running"],
                 batch \ {running'}, running')
      BY <1>0, <2>3, <3>2, WalkStarts
    <3>4. Walked(Taken, rank, status, batch, running)'
      BY <2>1, <2>4, <3>2, <3>3
    <3>5. \A h \in Hook \ Taken : status'[h] = status[h]
      BY <1>0, <2>3, <3>2
    <3>6. QED
      BY <1>0, <2>1, <2>4, <3>1, <3>4, <3>5 DEF Walks, TypeOK
  <2>7. QED
    BY <2>5, <2>6
<1>6. CASE Drained
  BY <1>6 DEF Drained, registryVars, Walks, Taken, Ended
<1>7. CASE DrainFails
  BY <1>7 DEF DrainFails, registryVars, Walks, Taken, Ended
<1>8. CASE Announced
  <2>1. /\ UNCHANGED <<entries, rank>>
        /\ stage = "announcing"
        /\ Taken' = Taken
    BY <1>8 DEF Announced, Taken
  <2>2. CASE entries = {}
    <3>1. stage' = "over" /\ UNCHANGED status
      BY <1>8, <2>2 DEF Announced
    <3>2. QED
      BY <2>1, <2>2, <3>1 DEF Walks, Ended
  <2>3. CASE entries # {}
    <3>1. stage' = "hooks" /\ StartFirst(entries, rank, status)
      BY <1>8, <2>3 DEF Announced
    <3>2. entries \in SUBSET Hook /\ status \in [Hook -> Status]
      BY DEF TypeOK
    <3>3. /\ running' \in entries
          /\ batch' = entries \ {running'}
          /\ status' = [status EXCEPT ![running'] = "running"]
          /\ \A g \in entries : g = running' \/ Before(rank, running', g)
      BY <3>1, <3>2, StartTyped
    <3>4. \A h \in entries : status[h] = "waiting"
      BY <2>1 DEF Walks
    <3>5. Walked(entries, rank, [status EXCEPT ![running'] = "running"],
                 entries \ {running'}, running')
      BY <3>2, <3>3, <3>4, WalkStarts
    <3>6. Walked(entries, rank, status, batch, running)'
      BY <2>1, <3>3, <3>5
    <3>7. \A h \in Hook \ entries : status'[h] = status[h]
      BY <3>2, <3>3
    <3>8. QED
      BY <1>0, <2>1, <3>1, <3>2, <3>6, <3>7 DEF Walks, Ended, Taken
  <2>4. QED
    BY <2>2, <2>3
<1>9. ASSUME NEW result \in {"done", "failed"}, HookEnds(result) PROVE Walks'
  <2> DEFINE now == [status EXCEPT ![running] = result]
  <2>1. /\ UNCHANGED <<entries, rank>>
        /\ stage = "hooks"
        /\ Taken' = Taken
        /\ IF batch = {}
           THEN stage' = "over" /\ status' = now
           ELSE StartFirst(batch, rank, now) /\ UNCHANGED stage
    BY <1>9 DEF HookEnds, registryVars, Taken
  <2>2. Walked(entries, rank, status, batch, running) /\ entries \in SUBSET Hook
    BY <2>1 DEF Walks, TypeOK
  <2>3. /\ now \in [Hook -> Status]
        /\ batch \in SUBSET entries
        /\ \A h \in batch : now[h] = "waiting"
        /\ \A g \in entries \ batch : /\ now[g] \in {"done", "failed"}
                                    /\ \A h \in batch : Before(rank, g, h)
        /\ \A h \in Hook \ entries : now[h] = status[h]
    <3>1. now = [status EXCEPT ![running] = result] /\ status \in [Hook -> Status]
      BY DEF TypeOK
    <3> HIDE DEF now
    <3>2. QED
      BY <2>2, <3>1 DEF Walked, Status
  <2>4. \A h \in Hook : h \in Taken => rank[h] # 0 /\ h \notin entries
    BY DEF Taken
  <2> HIDE DEF now
  <2>5. CASE batch = {}
    <3>1. stage' = "over" /\ status' = now
      BY <2>1, <2>5
    <3>2. QED
      BY <1>0, <2>1, <2>2, <2>3, <2>4, <2>5, <3>1 DEF Walks, Ended
  <2>6. CASE batch # {}
    <3>1. StartFirst(batch, rank, now) /\ UNCHANGED stage
      BY <2>1, <2>6
    <3>2. batch \in SUBSET Hook
      BY <2>2, <2>3
    <3>3. /\ running' \in batch
          /\ batch' = batch \ {running'}
          /\ status' = [now EXCEPT ![running'] = "running"]
          /\ \A g \in batch : g = running' \/ Before(rank, running', g)
      BY <2>3, <3>1, <3>2, StartTyped
    <3>4. Walked(entries, rank, [now EXCEPT ![running'] = "running"],
                 batch \ {running'}, running')
      BY <2>2, <2>3, <3>3, WalkStarts
    <3>5. Walked(entries, rank, status, batch, running)'
      BY <2>1, <3>3, <3>4
    <3>6. \A h \in Hook \ entries : status'[h] = status[h]
      BY <2>2, <2>3, <3>3
    <3>7. QED
      BY <1>0, <2>1, <2>2, <2>4, <3>1, <3>5, <3>6 DEF Walks, Ended
  <2>7. QED
    BY <2>5, <2>6
<1>10. CASE Deadline
  BY <1>10 DEF Deadline, registryVars, walkVars, Walks, Taken, Ended
<1>11. CASE SecondSignal
  BY <1>11 DEF SecondSignal, registryVars, walkVars, Walks, Taken, Ended
<1>12. CASE UNCHANGED vars
  BY <1>12 DEF vars, registryVars, walkVars, Walks, Taken, Ended
<1>13. QED
  BY <1>1, <1>2, <1>3, <1>4, <1>5, <1>6, <1>7, <1>8, <1>9, <1>10, <1>11, <1>12 DEF Next

-----------------------------------------------------------------------------
(* The tally. *)

\* While the hooks of run() wait, nothing is tallied.
LEMMA NothingTallied ==
    ASSUME TypeOK, Walks, Tallied, stage \notin {"hooks", "over"}
    PROVE  failed = <<>> /\ Started = {} /\ progress = [ran |-> 0, failed |-> <<>>]
<1>1. \A h \in entries : status[h] = "waiting"
  BY DEF Walks
<1>2. Started = {}
  BY <1>1 DEF Started
<1>3. \A i \in 1..Len(failed) : failed[i] \in entries /\ status[failed[i]] = "failed"
  BY DEF Tallied, Names
<1>4. 1..Len(failed) = {}
  BY <1>1, <1>3
<1>5. failed \in Seq(Hook) /\ Len(failed) \in Nat
  BY DEF TypeOK
<1>6. failed = <<>>
  <2>1. Len(failed) # 0 => 1 \in 1..Len(failed)
    BY <1>5
  <2>2. QED
    BY <1>4, <1>5, <2>1, EmptySeq
<1>7. QED
  BY <1>2, <1>6, FS_EmptySet DEF Tallied

\* An empty tally is right as long as they do.
LEMMA StillNothing ==
    ASSUME TypeOK, Walks, Walks', Tallied, stage \notin {"hooks", "over"},
           stage' \notin {"hooks", "over"}, UNCHANGED <<failed, progress>>
    PROVE  Tallied'
<1>1. failed' = <<>> /\ progress' = [ran |-> 0, failed |-> <<>>]
  BY NothingTallied
<1>2. \A h \in entries' : status'[h] = "waiting"
  BY DEF Walks
<1>3. Started' = {}
  BY <1>2 DEF Started
<1>4. QED
  BY <1>1, <1>2, <1>3, FS_EmptySet DEF Tallied, Names

\* The hooks that run() called can be counted.
LEMMA StartedFinite ==
    ASSUME TypeOK
    PROVE  IsFiniteSet(Started) /\ Cardinality(Started) \in Nat
<1>1. Started \in SUBSET Hook
  BY DEF Started, TypeOK
<1>2. QED
  BY <1>1, HookAssumption, FS_Subset, FS_CardinalityType

\* Every step keeps the tally right.
LEMMA TallyStep ==
    TypeOK /\ TypeOK' /\ Walks /\ Walks' /\ Tallied /\ [Next]_vars => Tallied'
<1> SUFFICES ASSUME TypeOK, TypeOK', Walks, Walks', Tallied, [Next]_vars PROVE Tallied'
  OBVIOUS
<1>1. ASSUME NEW h \in Hook, Register(h) PROVE Tallied'
  <2>1. UNCHANGED <<failed, progress, stage>> /\ stage \notin {"hooks", "over"}
    BY <1>1 DEF Register, walkVars, TypeOK
  <2>2. QED
    BY <2>1, StillNothing
<1>2. ASSUME NEW h \in Disposable, Announce(h) PROVE Tallied'
  BY <1>2 DEF Announce, walkVars, Tallied, Names, Started
<1>3. ASSUME NEW h \in Disposable, Withdraw(h) PROVE Tallied'
  BY <1>3 DEF Withdraw, registryVars, walkVars, Tallied, Names, Started
<1>4. ASSUME NEW bySignal \in BOOLEAN, Begin(bySignal) PROVE Tallied'
  <2>1. UNCHANGED <<failed, progress>> /\ stage = "idle" /\ stage' \in {"early", "draining"}
    BY <1>4 DEF Begin
  <2>2. QED
    BY <2>1, StillNothing
<1>5. ASSUME NEW result \in {"done", "failed"}, EarlyEnds(result) PROVE Tallied'
  <2>1. UNCHANGED <<failed, progress>> /\ stage = "early" /\ stage' \in {"early", "draining"}
    BY <1>5 DEF EarlyEnds
  <2>2. QED
    BY <2>1, StillNothing
<1>6. CASE Drained
  <2>1. UNCHANGED <<failed, progress>> /\ stage = "draining" /\ stage' = "announcing"
    BY <1>6 DEF Drained
  <2>2. QED
    BY <2>1, StillNothing
<1>7. CASE DrainFails
  <2>1. UNCHANGED <<failed, progress>> /\ stage = "draining" /\ stage' = "broken"
    BY <1>7 DEF DrainFails
  <2>2. QED
    BY <2>1, StillNothing
<1>8. CASE Announced
  <2>1. UNCHANGED <<entries, rank, failed>> /\ stage = "announcing"
    BY <1>8 DEF Announced
  <2>2. /\ failed = <<>>
        /\ progress = [ran |-> 0, failed |-> <<>>]
        /\ \A h \in entries : status[h] = "waiting"
    BY <2>1, NothingTallied DEF Walks
  <2>3. CASE entries = {}
    <3>1. UNCHANGED progress /\ Started' = {}
      BY <1>8, <2>1, <2>3 DEF Announced, Started
    <3>2. QED
      BY <2>1, <2>2, <2>3, <3>1, FS_EmptySet DEF Tallied, Names
  <2>4. CASE entries # {}
    <3>1. StartFirst(entries, rank, status) /\ progress' = [ran |-> 1, failed |-> <<>>]
      BY <1>8, <2>4 DEF Announced, Publish
    <3>2. entries \in SUBSET Hook /\ status \in [Hook -> Status]
      BY DEF TypeOK
    <3>3. running' \in entries /\ status' = [status EXCEPT ![running'] = "running"]
      BY <3>1, <3>2, StartTyped
    <3>4. Started' = {running'}
      BY <2>1, <2>2, <3>2, <3>3 DEF Started
    <3>5. \A h \in entries : status'[h] # "failed"
      BY <2>2, <3>2, <3>3
    <3>6. QED
      BY <2>1, <2>2, <3>1, <3>4, <3>5, FS_Singleton DEF Tallied, Names
  <2>5. QED
    BY <2>3, <2>4
<1>9. ASSUME NEW result \in {"done", "failed"}, HookEnds(result) PROVE Tallied'
  <2> DEFINE now == [status EXCEPT ![running] = result]
             list == IF result = "failed" THEN Append(failed, running) ELSE failed
  <2>1. /\ UNCHANGED <<entries, rank>>
        /\ stage = "hooks"
        /\ failed' = list
        /\ entries \in SUBSET Hook
        /\ running \in Hook
        /\ failed \in Seq(Hook)
    BY <1>9 DEF HookEnds, registryVars, TypeOK
  <2>2. Walked(entries, rank, status, batch, running)
    BY <2>1 DEF Walks
  <2>3. /\ now \in [Hook -> Status]
        /\ batch \in SUBSET Hook
        /\ \A h \in Hook : now[h] = IF h = running THEN result ELSE status[h]
    BY DEF TypeOK, Status
  <2>4. \A i \in 1..Len(failed) : /\ failed[i] \in entries \ {running}
                                /\ status[failed[i]] = "failed"
                                /\ Before(rank, failed[i], running)
    BY <2>1, <2>2 DEF Tallied, Names, Walked
  <2>5. /\ \A i \in 1..Len(list) : list[i] \in entries /\ now[list[i]] = "failed"
        /\ \A h \in entries : now[h] = "failed" => \E i \in 1..Len(list) : list[i] = h
        /\ \A i, j \in 1..Len(list) : i < j => Before(rank, list[i], list[j])
    <3>1. CASE result = "failed"
      <4>1. /\ Len(list) = Len(failed) + 1
            /\ \A i \in 1..Len(failed) : list[i] = failed[i]
            /\ list[Len(failed) + 1] = running
            /\ Len(failed) \in Nat
        BY <2>1, <3>1
      <4> HIDE DEF now, list
      <4>2. \A i \in 1..Len(list) : i \in 1..Len(failed) \/ i = Len(failed) + 1
        BY <4>1
      <4>3. \A i \in 1..Len(list) : list[i] \in entries /\ now[list[i]] = "failed"
        BY <2>1, <2>2, <2>3, <2>4, <3>1, <4>1, <4>2 DEF Walked
      <4>4. ASSUME NEW h \in entries, now[h] = "failed"
            PROVE  \E i \in 1..Len(list) : list[i] = h
        <5>1. CASE h = running
          BY <4>1, <5>1
        <5>2. CASE h # running
          <6>1. PICK i \in 1..Len(failed) : failed[i] = h
            BY <2>1, <2>3, <4>4, <5>2 DEF Tallied, Names
          <6>2. QED
            BY <4>1, <6>1
        <5>3. QED
          BY <5>1, <5>2
      <4>5. ASSUME NEW i \in 1..Len(list), NEW j \in 1..Len(list), i < j
            PROVE  Before(rank, list[i], list[j])
        <5>1. i \in 1..Len(failed)
          BY <4>1, <4>5
        <5>2. QED
          BY <2>4, <4>1, <4>2, <4>5, <5>1 DEF Tallied, Names
      <4>6. QED
        BY <4>3, <4>4, <4>5
    <3>2. CASE result # "failed"
      <4>1. list = failed
        BY <3>2
      <4> HIDE DEF now, list
      <4>2. QED
        BY <2>1, <2>3, <2>4, <3>2, <4>1 DEF Tallied, Names
    <3>3. QED
      BY <3>1, <3>2
  <2>6. progress.ran = Cardinality(Started) /\ IsFiniteSet(Started)
    BY StartedFinite DEF Tallied
  <2>7. CASE batch = {}
    <3>1. status' = now /\ progress' = [ran |-> progress.ran, failed |-> list]
      BY <1>9, <2>7 DEF HookEnds, Publish
    <3> HIDE DEF now, list
    <3>2. Started' = Started
      BY <1>9, <2>1, <2>2, <2>3, <3>1 DEF Started, Walked
    <3>3. QED
      BY <2>1, <2>5, <2>6, <3>1, <3>2 DEF Tallied, Names
  <2>8. CASE batch # {}
    <3>1. StartFirst(batch, rank, now) /\ progress' = [ran |-> progress.ran + 1, failed |-> list]
      BY <1>9, <2>8 DEF HookEnds, Publish
    <3> HIDE DEF now, list
    <3>2. running' \in batch /\ status' = [now EXCEPT ![running'] = "running"]
      BY <2>3, <3>1, StartTyped
    <3>3. running' \in entries /\ running' # running /\ status[running'] = "waiting"
      BY <2>2, <3>2 DEF Walked
    <3>4. \A h \in Hook : status'[h] = IF h = running' THEN "running" ELSE now[h]
      BY <2>3, <3>2
    <3>5. Started' = Started \cup {running'} /\ running' \notin Started
      BY <1>9, <2>1, <2>2, <2>3, <3>3, <3>4 DEF Started, Walked
    <3>6. Cardinality(Started') = Cardinality(Started) + 1
      BY <2>6, <3>5, FS_AddElement
    <3>7. \A h \in entries : status'[h] = "failed" <=> now[h] = "failed"
      BY <2>1, <2>3, <3>3, <3>4
    <3>8. QED
      BY <2>1, <2>5, <2>6, <3>1, <3>6, <3>7 DEF Tallied, Names
  <2>9. QED
    BY <2>7, <2>8
<1>10. CASE Deadline
  BY <1>10 DEF Deadline, registryVars, walkVars, Tallied, Names, Started
<1>11. CASE SecondSignal
  BY <1>11 DEF SecondSignal, registryVars, walkVars, Tallied, Names, Started
<1>12. CASE UNCHANGED vars
  BY <1>12 DEF vars, registryVars, walkVars, Tallied, Names, Started
<1>13. QED
  BY <1>1, <1>2, <1>3, <1>4, <1>5, <1>6, <1>7, <1>8, <1>9, <1>10, <1>11, <1>12 DEF Next

-----------------------------------------------------------------------------
(* The invariant. *)

\* The server, once stopped, stays so.
LEMMA DrainStep == TypeOK /\ Drains /\ [Next]_vars => Drains'
BY DEF Drains, Next, vars, registryVars, walkVars, TypeOK, Register, Announce, Withdraw,
       Begin, EarlyEnds, Drained, DrainFails, Announced, HookEnds, Deadline, SecondSignal

\* What run() settles with ends the process as "clean" only when it says that
\* no hook threw and the deadline had not expired.
LEMMA CleanExit ==
    ASSUME exit # "clean", NEW r \in Report \cup {Rejected}, Settle(r), exit' = "clean"
    PROVE  r # Rejected /\ r.failed = <<>> /\ ~r.timedOut
BY DEF Settle, ExitCode, endVars

\* Every step that ends the process as "clean" is one that may.
LEMMA ExitStep ==
    TypeOK /\ TypeOK' /\ Walks' /\ Tallied' /\ ExitTells /\ [Next]_vars => ExitTells'
<1> SUFFICES ASSUME TypeOK, TypeOK', Walks', Tallied', ExitTells, [Next]_vars,
                    exit' = "clean"
             PROVE  frozen' /\ \A h \in entries' : status'[h] = "done"
  BY DEF ExitTells
<1>1. CASE UNCHANGED vars
  BY <1>1 DEF vars, registryVars, walkVars, endVars, ExitTells
<1>2. CASE Next /\ ~UNCHANGED vars
  <2>1. exit # "clean"
    BY <1>2 DEF Next, Alive, Register, Announce, Withdraw, Begin, EarlyEnds, Drained,
                DrainFails, Announced, HookEnds, Deadline, SecondSignal
  <2>2. \/ DrainFails
        \/ Announced /\ entries = {}
        \/ \E result \in {"done", "failed"} : HookEnds(result) /\ batch = {}
        \/ Deadline
    BY <1>2, <2>1 DEF Next, endVars, Register, Announce, Withdraw, Begin, EarlyEnds,
                      Drained, Announced, HookEnds, SecondSignal
  <2>3. CASE DrainFails
    BY <2>1, <2>3, CleanExit DEF DrainFails
  <2>4. CASE Announced /\ entries = {}
    BY <2>4 DEF Announced
  <2>5. ASSUME NEW result \in {"done", "failed"}, HookEnds(result), batch = {}
        PROVE  frozen' /\ \A h \in entries' : status'[h] = "done"
    <3> DEFINE list == IF result = "failed" THEN Append(failed, running) ELSE failed
    <3>1. /\ failed' = list
          /\ stage' = "over"
          /\ Settle([ran |-> progress.ran, failed |-> list, timedOut |-> FALSE])
          /\ UNCHANGED <<entries, frozen>>
          /\ frozen
      BY <2>5 DEF HookEnds, registryVars, TypeOK
    <3> HIDE DEF list
    <3>2. [ran |-> progress.ran, failed |-> list, timedOut |-> FALSE] \in Report
      BY <3>1 DEF TypeOK, Tally, Report
    <3>3. failed' = <<>>
      BY <2>1, <3>1, <3>2, CleanExit
    <3>4. \A h \in entries' : Ended(h)' /\ status'[h] # "failed"
      BY <3>1, <3>3 DEF Walks, Tallied, Names
    <3>5. QED
      BY <3>1, <3>4 DEF Ended
  <2>6. CASE Deadline
    BY <2>1, <2>6, DeadlineReports, CleanExit DEF Deadline
  <2>7. QED
    BY <2>2, <2>3, <2>4, <2>5, <2>6
<1>3. QED
  BY <1>1, <1>2

\* The invariant is inductive.
LEMMA InvStep == IInv /\ [Next]_vars => IInv'
<1>1. TypeOK /\ [Next]_vars => TypeOK'
  BY TypeStep
<1>2. QED
  BY <1>1, WalkStep, DrainStep, TallyStep, ExitStep DEF IInv

\* ... and holds.
LEMMA Invariant == Spec => []IInv
<1>1. Init => IInv
  <2> SUFFICES ASSUME Init PROVE IInv
    OBVIOUS
  <2>1. TypeOK
    BY TypeInit
  <2>2. Started = {} /\ Taken = {}
    BY DEF Init, Started, Taken
  <2>3. Walks /\ Drains /\ ExitTells
    BY <2>2 DEF Init, Walks, Drains, ExitTells
  <2>4. Tallied
    BY <2>2, FS_EmptySet DEF Init, Tallied, Names
  <2>5. QED
    BY <2>1, <2>3, <2>4 DEF IInv
<1>2. QED
  BY <1>1, InvStep, PTL DEF Spec

-----------------------------------------------------------------------------
(* What follows. *)

\* The comparator is a strict order.
LEMMA BeforeIsStrict ==
    ASSUME TypeOK, NEW g \in Hook, NEW h \in Hook, Before(rank, g, h)
    PROVE  g # h /\ ~Before(rank, h, g)
BY HookAssumption DEF TypeOK, Before

\* In a walk, whatever precedes a hook that has started has ended.
LEMMA WalkedInOrder ==
    ASSUME TypeOK, NEW S \in SUBSET Hook, Walked(S, rank, status, batch, running),
           NEW g \in S, NEW h \in S, Before(rank, g, h), status[h] # "waiting"
    PROVE  Ended(g)
<1>1. h \notin batch
  BY DEF Walked
<1>2. g \notin batch \cup {running}
  BY <1>1, BeforeIsStrict DEF Walked
<1>3. QED
  BY <1>2 DEF Walked, Ended

\* Hooks run one after the other, in the order the registry promises, whatever
\* is registered, announced or timed out meanwhile.
THEOREM HooksRunInOrder == Spec => []InOrder
<1>1. IInv => InOrder
  <2> SUFFICES ASSUME IInv, NEW g \in Taken \cup entries, NEW h \in Taken \cup entries,
                      Precedes(g, h), status[h] # "waiting"
               PROVE  Ended(g)
    BY DEF InOrder
  <2>1. TypeOK /\ Walks /\ Taken \in SUBSET Hook /\ entries \in SUBSET Hook
    BY DEF IInv, TypeOK, Taken
  <2>2. CASE g \in Taken /\ h \in entries
    BY <2>1, <2>2 DEF Walks, TypeOK, Stage
  <2>3. CASE {g, h} \subseteq Taken /\ Before(rank, g, h)
    <3>1. CASE stage = "early"
      BY <2>1, <2>3, <3>1, WalkedInOrder DEF Walks
    <3>2. CASE stage # "early"
      BY <2>1, <2>3, <3>2 DEF Walks
    <3>3. QED
      BY <3>1, <3>2
  <2>4. CASE {g, h} \subseteq entries /\ Before(rank, g, h)
    <3>1. CASE stage = "hooks"
      BY <2>1, <2>4, <3>1, WalkedInOrder DEF Walks
    <3>2. CASE stage # "hooks"
      BY <2>1, <2>4, <3>2 DEF Walks
    <3>3. QED
      BY <3>1, <3>2
  <2>5. QED
    BY <2>2, <2>3, <2>4 DEF Precedes
<1>2. QED
  BY <1>1, Invariant, PTL

\* No hook runs while requests may still arrive, unless it is of the early band.
THEOREM ServerStopsFirst == Spec => []ServerFirst
<1>1. IInv => ServerFirst
  <2> SUFFICES ASSUME IInv, NEW h \in Hook, status[h] # "waiting", priority[h] > Predrain
               PROVE  ~accepting
    BY DEF ServerFirst
  <2>1. h \notin Taken
    BY HookAssumption DEF IInv, Walks, Early
  <2>2. h \in entries
    BY <2>1 DEF IInv, Walks, Taken
  <2>3. stage \in {"hooks", "over"}
    BY <2>2 DEF IInv, Walks
  <2>4. QED
    BY <2>3 DEF IInv, Drains
<1>2. QED
  BY <1>1, Invariant, PTL

\* A process that exits with 0 has run every hook left after the early band, and
\* none of them threw.
THEOREM ExitCodeTells == Spec => []ExitTells
BY Invariant, PTL DEF IInv

\* A hook starts at most once, and only when registered.
THEOREM HooksStartOnce == Spec => StartsOnce
<1> DEFINE Once == \A h \in Hook :
                     /\ status'[h] = "running" /\ status[h] # "running"
                           => status[h] = "waiting" /\ rank'[h] # 0
                     /\ Ended(h) => status'[h] = status[h]
<1>1. IInv /\ IInv' /\ [Next]_vars => [Once]_vars
  <2> SUFFICES ASSUME IInv, IInv', Next PROVE Once
    BY DEF vars
  <2>1. TypeOK /\ Walks /\ Walks' /\ TypeOK'
    BY DEF IInv
  <2>2. \A h \in Hook : status'[h] = "running" => rank'[h] # 0
    BY <2>1 DEF Walks
  <2>3. CASE UNCHANGED status
    BY <2>2, <2>3 DEF Ended
  <2>4. ASSUME NEW bySignal \in BOOLEAN, Begin(bySignal) PROVE Once
    <3>1. \A h \in Hook : status[h] = "waiting"
      BY <2>1, <2>4 DEF Begin, Walks, Taken
    <3>2. QED
      BY <2>2, <3>1 DEF Ended
  <2>5. ASSUME NEW result \in {"done", "failed"}, EarlyEnds(result) \/ HookEnds(result)
        PROVE  Once
    <3> DEFINE now == [status EXCEPT ![running] = result]
    <3>1. status[running] = "running" /\ \A h \in batch : h # running /\ status[h] = "waiting"
      BY <2>1, <2>5 DEF EarlyEnds, HookEnds, Walks, Walked
    <3>2. /\ now \in [Hook -> Status]
          /\ \A h \in Hook : now[h] = IF h = running THEN result ELSE status[h]
          /\ batch \in SUBSET Hook
      BY <2>1 DEF TypeOK, Status
    <3>3. status' = now \/ StartFirst(batch, rank, now)
      BY <2>5 DEF EarlyEnds, HookEnds
    <3> HIDE DEF now
    <3>4. CASE status' = now
      BY <2>2, <3>1, <3>2, <3>4 DEF Ended
    <3>5. CASE StartFirst(batch, rank, now)
      <4>1. running' \in batch /\ status' = [now EXCEPT ![running'] = "running"]
        BY <3>2, <3>5, StartTyped
      <4>2. \A h \in Hook : status'[h] = IF h = running' THEN "running" ELSE now[h]
        BY <3>2, <4>1
      <4>3. QED
        BY <2>2, <2>5, <3>1, <3>2, <4>1, <4>2 DEF Ended
    <3>6. QED
      BY <3>3, <3>4, <3>5
  <2>6. CASE Announced
    <3>1. UNCHANGED status \/ StartFirst(entries, rank, status)
      BY <2>6 DEF Announced
    <3>2. CASE StartFirst(entries, rank, status)
      <4>1. entries \in SUBSET Hook /\ status \in [Hook -> Status]
        BY <2>1 DEF TypeOK
      <4>2. \A h \in entries : status[h] = "waiting"
        BY <2>1, <2>6 DEF Announced, Walks
      <4>3. running' \in entries /\ status' = [status EXCEPT ![running'] = "running"]
        BY <3>2, <4>1, StartTyped
      <4>4. \A h \in Hook : status'[h] = IF h = running' THEN "running" ELSE status[h]
        BY <4>1, <4>3
      <4>5. QED
        BY <2>2, <4>2, <4>3, <4>4 DEF Ended
    <3>3. QED
      BY <2>3, <3>1, <3>2
  <2>7. QED
    BY <2>3, <2>4, <2>5, <2>6 DEF Next, Register, Announce, Withdraw, Drained, DrainFails,
                                  Deadline, SecondSignal, walkVars
<1>2. QED
  BY <1>1, Invariant, PTL DEF Spec, StartsOnce, Ended

\* What a report says of the registry's hooks is what became of them by then.
THEOREM ReportsTell == Spec => ReportTells
<1> DEFINE Told == report' # report /\ report' \in Report => Tells(report)'
<1>1. IInv /\ IInv' /\ [Next]_vars => [Told]_vars
  <2> SUFFICES ASSUME IInv, IInv', Next, report' # report, report' \in Report
               PROVE  Tells(report)'
    BY DEF vars
  <2>1. TypeOK /\ TypeOK' /\ Walks' /\ Tallied /\ Tallied'
    BY DEF IInv
  <2>2. ASSUME progress'.ran = report'.ran, progress'.failed = report'.failed,
               ~report'.timedOut => stage' = "over"
        PROVE  Tells(report)'
    <3>1. /\ report'.ran = Cardinality(Started')
          /\ report'.failed = failed'
      BY <2>1, <2>2 DEF Tallied
    <3>2. ~report'.timedOut => \A h \in entries' : Ended(h)'
      BY <2>1, <2>2 DEF Walks
    <3>3. Names(failed)'
      BY <2>1 DEF Tallied
    <3>4. QED
      BY <3>1, <3>2, <3>3 DEF Tells, Names
  <2>3. CASE DrainFails
    BY <2>3, ReportAssumption DEF DrainFails, Settle, endVars
  <2>4. CASE Announced
    <3>1. /\ report' = [ran |-> 0, failed |-> <<>>, timedOut |-> FALSE]
          /\ stage' = "over"
          /\ UNCHANGED <<progress, failed>>
          /\ entries' = {}
      BY <2>4 DEF Announced, Settle, endVars
    <3>2. Started' = {}
      BY <3>1 DEF Started
    <3>3. failed' = <<>>
      BY <2>1, <2>4, <3>1, NothingTallied DEF Announced, IInv
    <3>4. progress' = [ran |-> 0, failed |-> <<>>]
      BY <2>1, <3>2, <3>3, FS_EmptySet DEF Tallied
    <3>5. QED
      BY <2>2, <3>1, <3>4
  <2>5. ASSUME NEW result \in {"done", "failed"}, HookEnds(result) PROVE Tells(report)'
    <3> DEFINE list == IF result = "failed" THEN Append(failed, running) ELSE failed
    <3>1. /\ report' = [ran |-> progress.ran, failed |-> list, timedOut |-> FALSE]
          /\ stage' = "over"
          /\ progress' = [ran |-> progress.ran, failed |-> list]
      BY <2>5 DEF HookEnds, Settle, endVars, Publish
    <3> HIDE DEF list
    <3>2. QED
      BY <2>2, <3>1
  <2>6. CASE Deadline
    <3>1. /\ report' = [ran |-> progress.ran, failed |-> progress.failed, timedOut |-> TRUE]
          /\ UNCHANGED progress
      BY <2>6 DEF Deadline, Settle, endVars, walkVars
    <3>2. QED
      BY <2>2, <3>1
  <2>7. QED
    BY <2>3, <2>4, <2>5, <2>6 DEF Next, endVars, Register, Announce, Withdraw, Begin,
                                  EarlyEnds, Drained, SecondSignal
<1>2. QED
  BY <1>1, Invariant, PTL DEF Spec, ReportTells
=============================================================================
