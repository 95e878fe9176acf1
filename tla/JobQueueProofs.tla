---------------------------- MODULE JobQueueProofs ----------------------------
(***************************************************************************)
(* What the queue guarantees for any jobs, attempts, workers and           *)
(* operators, whatever dies and whatever answer is lost: a job has one     *)
(* copy, its attempts are counted, and the ledger is implemented.          *)
(*                                                                         *)
(* The inductive invariant states OneCopy pair by pair (Pairwise) and adds *)
(* that only dispatched jobs have copies or tries (Dispatched).            *)
(***************************************************************************)
EXTENDS JobQueue, TLAPS

\* OneCopy, said of jobs: no two copies anywhere are of the same job.
Pairwise ==
    /\ \A d, e \in queued : d.job = e.job => d = e
    /\ \A d, e \in dead : d.job = e.job => d = e
    /\ \A d \in queued, e \in dead : d.job # e.job
    /\ \A w \in Held : \A e \in queued \cup dead : entry[w].job # e.job
    /\ \A v, w \in Held : entry[v].job = entry[w].job => v = w

Dispatched ==
    /\ \A e \in queued \cup dead : e.job \in sent
    /\ \A w \in Held : entry[w].job \in sent
    /\ \A j \in Job \ sent : tries[j] = 0

IInv == TypeOK /\ Dispatched /\ Pairwise /\ AttemptsCounted

\* The worker's phases, for the provers.
USE DEF Held

LEMMA EntryFields ==
    ASSUME NEW e \in Entry
    PROVE  e.job \in Job /\ e.life \in Nat /\ e.attempts \in Nat
BY DEF Entry

LEMMA InitIInv == Init => IInv
<1> SUFFICES ASSUME Init PROVE IInv
    OBVIOUS
<1>1. TypeOK
    BY ProcessAssumption DEF Init, TypeOK, Driver, Process, Phase, Holding
<1>2. Held = {}
    BY DEF Init, Holding, Process
<1>3. Dispatched /\ Pairwise /\ AttemptsCounted
    BY <1>2 DEF Init, Dispatched, Pairwise, AttemptsCounted
<1> QED
    BY <1>1, <1>3 DEF IInv

-----------------------------------------------------------------------------
\* Steps that make no copy and no attempt: copies stay where they are or go.
LEMMA LosingStep ==
    ASSUME IInv, TypeOK',
           sent' = sent, tries' = tries, queued' \subseteq queued, dead' \subseteq dead,
           \A w \in Worker : pc'[w] \in Holding => pc'[w] = pc[w] /\ entry'[w] = entry[w]
    PROVE  IInv'
<1>1. Dispatched'
    BY DEF IInv, Dispatched
<1>2. Pairwise'
    BY DEF IInv, Pairwise
<1>3. AttemptsCounted'
    BY DEF IInv, AttemptsCounted, WorkerCounted
<1> QED
    BY <1>1, <1>2, <1>3 DEF IInv

LEMMA DispatchStep ==
    ASSUME IInv, NEW j \in Job, NEW delayed \in BOOLEAN, Dispatch(j, delayed)
    PROVE  IInv'
<1> DEFINE e == [job |-> j, life |-> 0, attempts |-> 0]
<1>1. e \in Entry /\ e.job = j /\ e.attempts = 0
    BY DEF Entry
<1>2. queued' = queued \cup {e} /\ late' \subseteq late \cup {e} /\ j \notin sent
    BY DEF Dispatch, Push
<1> HIDE DEF e
<1>3. TypeOK'
    BY <1>1, <1>2 DEF IInv, TypeOK, Dispatch, deadVars
<1>4. Dispatched'
    BY <1>1, <1>2 DEF IInv, TypeOK, Dispatched, Dispatch, deadVars
<1>5. Pairwise'
    BY <1>1, <1>2 DEF IInv, TypeOK, Dispatched, Pairwise, Dispatch, deadVars
<1>6. tries[j] = 0 /\ 0 < MaxAttempts[j]
    BY <1>2, JobAssumption DEF IInv, Dispatched
<1>7. AttemptsCounted'
    BY <1>1, <1>2, <1>6 DEF IInv, AttemptsCounted, WorkerCounted, Dispatch, deadVars
<1> QED
    BY <1>3, <1>4, <1>5, <1>7 DEF IInv

LEMMA DueStep ==
    ASSUME IInv, NEW e \in late, Due(e)
    PROVE  IInv'
<1>1. TypeOK'
    BY DEF IInv, TypeOK, Due, deadVars
<1> QED
    BY <1>1, LosingStep DEF Due, deadVars

LEMMA RestartStep == ASSUME IInv, NEW w \in Worker, Restart(w) PROVE IInv'
<1>1. TypeOK'
    BY DEF IInv, TypeOK, Restart, Goes, Process, Phase, Holding, queueVars, deadVars
<1> QED
    BY <1>1, LosingStep DEF IInv, TypeOK, Process, Restart, Goes, Holding, queueVars, deadVars

LEMMA LookStep == ASSUME IInv, NEW w \in Worker, Look(w) PROVE IInv'
<1>1. TypeOK'
    BY EntryAssumption
    DEF IInv, TypeOK, Look, Goes, Process, Phase, Holding, queueVars, deadVars
<1> QED
    BY <1>1, LosingStep DEF IInv, TypeOK, Process, Look, Goes, Holding, queueVars, deadVars

LEMMA HookEndsStep == ASSUME IInv, NEW w \in Worker, HookEnds(w) PROVE IInv'
<1>1. TypeOK'
    BY DEF IInv, TypeOK, HookEnds, Goes, Process, Phase, Holding, queueVars, deadVars
<1> QED
    BY <1>1, LosingStep DEF IInv, TypeOK, Process, HookEnds, Goes, Holding, queueVars, deadVars

LEMMA ClaimUnansweredStep == ASSUME IInv, NEW w \in Worker, ClaimUnanswered(w) PROVE IInv'
<1>1. TypeOK'
    BY DEF IInv, TypeOK, ClaimUnanswered, Fault, Goes, Drops, Process, Phase, Holding,
           queueVars, deadVars
<1> QED
    BY <1>1, LosingStep
    DEF IInv, TypeOK, Process, ClaimUnanswered, Goes, Drops, Holding, queueVars, deadVars

LEMMA DropUnknownStep == ASSUME IInv, NEW w \in Worker, DropUnknown(w) PROVE IInv'
<1>1. ended' \subseteq sent'
    BY DEF IInv, TypeOK, Dispatched, DropUnknown, Holding
<1>2. TypeOK'
    BY <1>1 DEF IInv, TypeOK, DropUnknown, Goes, Drops, Process, Phase, Holding, queueVars, deadVars
<1> QED
    BY <1>2, LosingStep
    DEF IInv, TypeOK, Process, DropUnknown, Goes, Drops, Holding, queueVars, deadVars

LEMMA SucceedsStep == ASSUME IInv, NEW w \in Worker, Succeeds(w) PROVE IInv'
<1>1. ended' \subseteq sent'
    BY DEF IInv, TypeOK, Dispatched, Succeeds, Holding
<1>2. TypeOK'
    BY <1>1 DEF IInv, TypeOK, Succeeds, Goes, Drops, Process, Phase, Holding, queueVars, deadVars
<1> QED
    BY <1>2, LosingStep
    DEF IInv, TypeOK, Process, Succeeds, Goes, Drops, Holding, queueVars, deadVars

LEMMA LoopDiesStep == ASSUME IInv, NEW w \in Worker, LoopDies(w) PROVE IInv'
<1>1. TypeOK'
    BY DEF IInv, TypeOK, LoopDies, Fault, Goes, Drops, Process, Phase, Holding,
           queueVars, deadVars
<1> QED
    BY <1>1, LosingStep
    DEF IInv, TypeOK, Process, LoopDies, Goes, Drops, Holding, queueVars, deadVars

LEMMA ReviveReadStep == ASSUME IInv, NEW o \in Operator, ReviveRead(o) PROVE IInv'
<1>1. TypeOK'
    BY EntryAssumption, ProcessAssumption
    DEF IInv, TypeOK, ReviveRead, Goes, Process, Phase, Holding, queueVars, deadVars
<1> QED
    BY <1>1, LosingStep, ProcessAssumption
    DEF IInv, TypeOK, Process, ReviveRead, Goes, Holding, queueVars, deadVars

LEMMA PurgeGoesOnTypes ==
    ASSUME TypeOK, NEW p \in Process, NEW J \in SUBSET Job, PurgeGoesOn(p, J),
           pc[p] \in {"listing", "purging"}, UNCHANGED entry
    PROVE  /\ pc' \in [Process -> Phase]
           /\ doomed' \in [Process -> SUBSET Job]
           /\ \A q \in Process :
                  /\ entry'[q] # NoEntry <=> pc'[q] \in Holding \cup {"looking", "reviving"}
                  /\ pc'[q] \in Holding \cup {"looking", "hook", "down"} => q \in Worker
                  /\ pc'[q] = "reviving" => q \in Operator
           /\ \A w \in Worker : pc'[w] \in Holding => pc'[w] = pc[w]
BY DEF TypeOK, PurgeGoesOn, Goes, Process, Phase, Holding

LEMMA PurgedWereSent ==
    ASSUME IInv, NEW E \in SUBSET dead, Purge(E)
    PROVE  /\ dead' \subseteq dead /\ aged' \subseteq dead'
           /\ ended' \subseteq sent
BY DEF IInv, TypeOK, Dispatched, Purge, JobsOf

LEMMA ReadExpiredStep == ASSUME IInv, NEW p \in Process, ReadExpired(p) PROVE IInv'
<1>1. JobsOf(aged) \in SUBSET Job
    BY EntryFields DEF IInv, TypeOK, JobsOf
<1>2. TypeOK'
    BY <1>1, PurgeGoesOnTypes DEF IInv, TypeOK, ReadExpired, queueVars, deadVars
<1> QED
    BY <1>1, <1>2, LosingStep, PurgeGoesOnTypes DEF IInv, ReadExpired, queueVars, deadVars

LEMMA DeleteExpiredStep == ASSUME IInv, NEW p \in Process, DeleteExpired(p) PROVE IInv'
<1>1. PICK j \in doomed[p] : /\ PurgeGoesOn(p, doomed[p] \ {j})
                             /\ Purge({e \in dead : e.job = j})
    BY DEF DeleteExpired
<1>2. doomed[p] \ {j} \in SUBSET Job
    BY DEF IInv, TypeOK
<1>3. dead' \subseteq dead /\ aged' \subseteq dead' /\ ended' \subseteq sent
    BY <1>1, PurgedWereSent
<1>4. TypeOK'
    BY <1>1, <1>2, <1>3, PurgeGoesOnTypes DEF IInv, TypeOK, DeleteExpired, queueVars
<1> QED
    BY <1>1, <1>2, <1>3, <1>4, LosingStep, PurgeGoesOnTypes DEF IInv, DeleteExpired, queueVars

LEMMA ListFailedStep == ASSUME IInv, NEW o \in Operator, ListFailed(o) PROVE IInv'
<1>1. dead' \subseteq dead /\ aged' \subseteq dead' /\ ended' \subseteq sent
    BY PurgedWereSent DEF IInv, TypeOK, ListFailed, deadVars
<1>2. TypeOK'
    BY <1>1, ProcessAssumption
    DEF IInv, TypeOK, ListFailed, Goes, Process, Phase, Holding, queueVars
<1> QED
    BY <1>1, <1>2, LosingStep, ProcessAssumption
    DEF IInv, TypeOK, Process, ListFailed, Goes, Holding, queueVars

LEMMA AgeStep == ASSUME IInv, NEW e \in dead, Age(e) PROVE IInv'
<1>1. dead' \subseteq dead /\ aged' \subseteq dead' /\ ended' \subseteq sent
    BY PurgedWereSent DEF IInv, TypeOK, Age
<1>2. TypeOK'
    BY <1>1 DEF IInv, TypeOK, Age, queueVars
<1> QED
    BY <1>1, <1>2, LosingStep DEF Age, queueVars

LEMMA ClearStep == ASSUME IInv, NEW E \in SUBSET queued, Clear(E) PROVE IInv'
<1>1. ended' \subseteq sent
    BY DEF IInv, TypeOK, Dispatched, Clear, JobsOf
<1>2. TypeOK'
    BY <1>1 DEF IInv, TypeOK, Clear, deadVars
<1> QED
    BY <1>2, LosingStep DEF Clear, deadVars

-----------------------------------------------------------------------------
\* Steps that move a copy, or count an attempt.
LEMMA ClaimStep ==
    ASSUME IInv, NEW w \in Worker, NEW e \in queued, Claim(w, e), pc[w] \notin Holding,
           UNCHANGED <<driver, sent, deadVars, revivals, doomed, tries, ended, faults>>
    PROVE  IInv'
<1>1. /\ queued' = queued \ {e}
      /\ late' = late \ {e}
      /\ pc' = [pc EXCEPT ![w] = "claimed"]
      /\ entry' = [entry EXCEPT ![w] = e]
      /\ e \in Entry /\ e # NoEntry
    BY EntryAssumption DEF Claim, Goes, IInv, TypeOK
<1>2. TypeOK'
    BY <1>1 DEF IInv, TypeOK, Process, Phase, Holding, deadVars
<1>3. \A v \in Worker : /\ pc'[v] = IF v = w THEN "claimed" ELSE pc[v]
                        /\ entry'[v] = IF v = w THEN e ELSE entry[v]
    BY <1>1 DEF IInv, TypeOK, Process
<1>4. Dispatched'
    BY <1>1, <1>3 DEF IInv, Dispatched, deadVars
<1>5. Pairwise'
    BY <1>1, <1>3 DEF IInv, Pairwise, deadVars
<1>6. AttemptsCounted'
    <2>1. e.attempts = tries[e.job] /\ tries[e.job] < MaxAttempts[e.job]
        BY DEF IInv, AttemptsCounted
    <2>2. WorkerCounted(w)'
        BY <1>3, <2>1 DEF WorkerCounted
    <2>3. \A v \in Held' : v # w => WorkerCounted(v)'
        BY <1>3 DEF IInv, AttemptsCounted, WorkerCounted
    <2> QED
        BY <1>1, <2>2, <2>3 DEF IInv, AttemptsCounted, deadVars
<1> QED
    BY <1>2, <1>4, <1>5, <1>6 DEF IInv

LEMMA PopStep == ASSUME IInv, NEW w \in Worker, Pop(w) PROVE IInv'
BY ClaimStep DEF Pop, Holding, deadVars

LEMMA TakeStep == ASSUME IInv, NEW w \in Worker, Take(w) PROVE IInv'
<1>1. CASE entry[w] \in queued
    BY <1>1, ClaimStep DEF Take, Holding, deadVars
<1>2. CASE entry[w] \notin queued
    <2>1. TypeOK'
        BY <1>2 DEF IInv, TypeOK, Take, Goes, Drops, Process, Phase, Holding, queueVars, deadVars
    <2> QED
        BY <1>2, <2>1, LosingStep
        DEF IInv, TypeOK, Process, Take, Goes, Drops, Holding, queueVars, deadVars
<1> QED
    BY <1>1, <1>2

LEMMA BeginStep == ASSUME IInv, NEW w \in Worker, Begin(w) PROVE IInv'
<1>1. /\ w \in Held /\ pc[w] = "claimed"
      /\ entry[w].job \in Job /\ entry[w].attempts \in Nat
      /\ MaxAttempts[entry[w].job] \in Nat
    BY EntryFields, JobAssumption DEF Begin, Holding, IInv, TypeOK, Process
<1> DEFINE j == entry[w].job
<1>2. \A v \in Worker : pc'[v] = IF v = w THEN "handling" ELSE pc[v]
    BY DEF Begin, Goes, IInv, TypeOK, Process
<1>3. /\ \A i \in Job : tries'[i] = IF i = j THEN tries[i] + 1 ELSE tries[i]
      /\ queued' = queued /\ dead' = dead /\ entry' = entry /\ sent' = sent
    BY DEF Begin, IInv, TypeOK, queueVars, deadVars
<1>4. TypeOK'
    BY <1>1 DEF Begin, Goes, IInv, TypeOK, Process, Phase, Holding, queueVars, deadVars
<1>5. Held' = Held
    BY <1>1, <1>2 DEF Holding
<1>6. Dispatched'
    BY <1>1, <1>3, <1>5 DEF IInv, Dispatched
<1>7. Pairwise'
    BY <1>3, <1>5 DEF IInv, Pairwise
<1>8. /\ \A e \in queued \cup dead : e.job \in Job /\ e.job # j
      /\ \A v \in Held : v # w => entry[v].job \in Job /\ entry[v].job # j
    BY <1>1, EntryFields DEF IInv, TypeOK, Pairwise, Process, Holding
<1>9. WorkerCounted(w)'
    <2>1. tries[j] \in Nat /\ entry[w].attempts = tries[j] /\ tries[j] < MaxAttempts[j]
        BY <1>1 DEF IInv, TypeOK, AttemptsCounted, WorkerCounted
    <2> QED
        BY <1>1, <1>2, <1>3, <2>1 DEF WorkerCounted
<1>10. \A v \in Held : v # w => WorkerCounted(v)'
    BY <1>2, <1>3, <1>8 DEF IInv, AttemptsCounted, WorkerCounted
<1>11. AttemptsCounted'
    BY <1>3, <1>5, <1>8, <1>9, <1>10 DEF IInv, AttemptsCounted
<1> QED
    BY <1>4, <1>6, <1>7, <1>11 DEF IInv

LEMMA FailsStep == ASSUME IInv, NEW w \in Worker, Fails(w) PROVE IInv'
<1> DEFINE j == entry[w].job
           attempt == entry[w].attempts + 1
           tried == [entry[w] EXCEPT !.attempts = attempt]
           phase == IF attempt < MaxAttempts[j] THEN "failing" ELSE "burying"
<1>1. /\ w \in Held /\ pc[w] = "handling" /\ entry[w] \in Entry
      /\ j \in Job /\ entry[w].attempts \in Nat
      /\ MaxAttempts[j] \in Nat
    BY EntryFields, JobAssumption DEF Fails, Holding, IInv, TypeOK, Process
<1>2. tried \in Entry /\ tried # NoEntry /\ tried.job = j /\ tried.attempts = attempt
    BY <1>1, EntryAssumption DEF Entry
<1>3. /\ pc' = [pc EXCEPT ![w] = phase]
      /\ entry' = [entry EXCEPT ![w] = tried]
    BY DEF Fails, Goes
<1> HIDE DEF tried
<1>4. \A v \in Worker : /\ pc'[v] = IF v = w THEN phase ELSE pc[v]
                        /\ entry'[v] = IF v = w THEN tried ELSE entry[v]
    BY <1>3 DEF IInv, TypeOK, Process
<1>5. queued' = queued /\ dead' = dead /\ tries' = tries /\ sent' = sent
    BY DEF Fails, queueVars, deadVars
<1>6. TypeOK'
    BY <1>1, <1>2, <1>3 DEF Fails, IInv, TypeOK, Process, Phase, Holding, queueVars, deadVars
<1>7. Held' = Held
    BY <1>1, <1>4 DEF Holding
<1>8. Dispatched'
    BY <1>2, <1>4, <1>5, <1>7 DEF IInv, Dispatched
<1>9. Pairwise'
    BY <1>2, <1>4, <1>5, <1>7 DEF IInv, Pairwise
<1>10. WorkerCounted(w)'
    <2>1. tries[j] \in Nat /\ entry[w].attempts = tries[j] - 1 /\ tries[j] \in 1..MaxAttempts[j]
        BY <1>1 DEF IInv, TypeOK, AttemptsCounted, WorkerCounted
    <2>2. pc'[w] = phase /\ entry'[w] = tried
        BY <1>4
    <2> QED
        BY <1>1, <1>2, <1>5, <2>1, <2>2 DEF WorkerCounted
<1>11. \A v \in Held : v # w => WorkerCounted(v)'
    BY <1>4, <1>5 DEF IInv, AttemptsCounted, WorkerCounted
<1>12. AttemptsCounted'
    BY <1>5, <1>7, <1>10, <1>11 DEF IInv, AttemptsCounted
<1> QED
    BY <1>6, <1>8, <1>9, <1>12 DEF IInv

\* The copy a worker holds goes back to a store: the queue or the dead letters.
LEMMA RequeueStep == ASSUME IInv, NEW w \in Worker, Requeue(w) PROVE IInv'
<1> DEFINE e == entry[w]
<1>1. /\ w \in Held /\ pc[w] = "failing" /\ e \in Entry /\ e # NoEntry
      /\ e.attempts = tries[e.job] /\ tries[e.job] < MaxAttempts[e.job]
    <2>1. w \in Held /\ pc[w] = "failing" /\ e \in Entry /\ e # NoEntry
        BY EntryAssumption DEF Requeue, Holding, IInv, TypeOK, Process
    <2>2. MaxAttempts[e.job] \in Nat
        BY <2>1, EntryFields, JobAssumption
    <2> QED
        BY <2>1, <2>2 DEF IInv, AttemptsCounted, WorkerCounted
<1>2. /\ queued' = queued \cup {e} /\ late' = late \cup {e}
      /\ dead' = dead /\ tries' = tries /\ sent' = sent
    BY DEF Requeue, Push, deadVars
<1>3. /\ pc' = [pc EXCEPT ![w] = "idle"]
      /\ entry' = [entry EXCEPT ![w] = NoEntry]
    BY DEF Requeue, Goes, Drops
<1>4. Held' = Held \ {w} /\ \A v \in Held' : pc'[v] = pc[v] /\ entry'[v] = entry[v]
    BY <1>3 DEF IInv, TypeOK, Process, Holding
<1>5. TypeOK'
    BY <1>1, <1>2, <1>3 DEF Requeue, IInv, TypeOK, Process, Phase, Holding, deadVars
<1>6. Dispatched'
    BY <1>1, <1>2, <1>4 DEF IInv, Dispatched
<1>7. Pairwise'
    BY <1>1, <1>2, <1>4 DEF IInv, Pairwise
<1>8. AttemptsCounted'
    BY <1>1, <1>2, <1>4 DEF IInv, AttemptsCounted, WorkerCounted
<1> QED
    BY <1>5, <1>6, <1>7, <1>8 DEF IInv

\* What deadLetter() makes of the dead letters.
LEMMA BuriedStore ==
    ASSUME IInv, NEW w \in Worker, Bury(w)
    PROVE  /\ dead' \subseteq dead \cup {entry[w]}
           /\ aged' \subseteq aged /\ aged' \subseteq dead'
           /\ ended' \subseteq ended \cup JobsOf(dead) \cup {entry[w].job}
<1> DEFINE same == {e \in dead : e.job = entry[w].job}
           kept == dead \ (aged \cup same)
<1>1. CASE driver = "memory"
    <2>1. PICK out \in {{}, {entry[w]}} \cup {{e} : e \in kept} :
              /\ dead' = (kept \cup {entry[w]}) \ out
              /\ aged' = {}
              /\ ended' = ended \cup JobsOf((aged \ same) \cup out)
        BY <1>1 DEF Bury
    <2>2. aged \subseteq dead
        BY DEF IInv, TypeOK
    <2> QED
        BY <2>1, <2>2 DEF JobsOf
<1>2. CASE driver # "memory"
    BY <1>2 DEF Bury, IInv, TypeOK
<1> QED
    BY <1>1, <1>2

LEMMA BuryStep == ASSUME IInv, NEW w \in Worker, Bury(w) PROVE IInv'
<1> DEFINE e == entry[w]
<1>1. /\ w \in Held /\ pc[w] = "burying" /\ e \in Entry /\ e.job \in sent
      /\ e.attempts = tries[e.job] /\ tries[e.job] = MaxAttempts[e.job]
    <2>1. w \in Held /\ pc[w] = "burying" /\ e \in Entry
        BY EntryAssumption DEF Bury, Holding, IInv, TypeOK, Process
    <2> QED
        BY <2>1 DEF IInv, Dispatched, AttemptsCounted, WorkerCounted
<1>2. /\ queued' = queued /\ dead' \subseteq dead \cup {e}
      /\ tries' = tries /\ sent' = sent
    BY BuriedStore DEF Bury, queueVars
<1>3. /\ pc' = [pc EXCEPT ![w] = IF driver = "redis" THEN "listing" ELSE "hook"]
      /\ entry' = [entry EXCEPT ![w] = NoEntry]
    BY DEF Bury, Goes, Drops
<1>4. Held' = Held \ {w} /\ \A v \in Held' : pc'[v] = pc[v] /\ entry'[v] = entry[v]
    BY <1>3 DEF IInv, TypeOK, Process, Holding
<1>5. ended' \subseteq sent
    BY <1>1, BuriedStore DEF IInv, TypeOK, Dispatched, JobsOf
<1>6. TypeOK'
    BY <1>1, <1>2, <1>3, <1>5, BuriedStore
    DEF Bury, IInv, TypeOK, Process, Phase, Holding, queueVars
<1>7. Dispatched'
    BY <1>1, <1>2, <1>4 DEF IInv, Dispatched
<1>8. Pairwise'
    BY <1>1, <1>2, <1>4 DEF IInv, Pairwise
<1>9. AttemptsCounted'
    BY <1>1, <1>2, <1>4 DEF IInv, AttemptsCounted, WorkerCounted
<1> QED
    BY <1>6, <1>7, <1>8, <1>9 DEF IInv

LEMMA ReviveEntryStep ==
    ASSUME IInv, TypeOK', NEW e \in dead, ReviveEntry(e), sent' = sent,
           \A w \in Worker : pc'[w] = pc[w] /\ entry'[w] = entry[w]
    PROVE  IInv'
<1> DEFINE new == [job |-> e.job, life |-> revivals + 1, attempts |-> 0]
           j == e.job
<1>1. new.job = j /\ new.attempts = 0
    OBVIOUS
<1>2. queued' = queued \cup {new} /\ dead' = dead \ {e}
    BY DEF ReviveEntry, Push
<1> HIDE DEF new
<1>3. j \in Job /\ j \in sent /\ 0 < MaxAttempts[j]
    BY EntryFields, JobAssumption DEF IInv, TypeOK, Dispatched
<1>4. \A i \in Job : tries'[i] = IF i = j THEN 0 ELSE tries[i]
    BY DEF ReviveEntry, IInv, TypeOK
<1>5. /\ \A d \in queued \cup (dead \ {e}) : d.job \in Job /\ d.job # j
      /\ \A w \in Held : entry[w].job \in Job /\ entry[w].job # j
    <2>1. \A w \in Held : entry[w] \in Entry
        BY DEF IInv, TypeOK, Process
    <2> QED
        BY <2>1, EntryFields DEF IInv, TypeOK, Pairwise
<1>6. Dispatched'
    BY <1>1, <1>2, <1>3, <1>4 DEF IInv, Dispatched
<1>7. Pairwise'
    BY <1>1, <1>2, <1>5 DEF IInv, Pairwise
<1>8. AttemptsCounted'
    BY <1>1, <1>2, <1>3, <1>4, <1>5 DEF IInv, AttemptsCounted, WorkerCounted
<1> QED
    BY <1>6, <1>7, <1>8 DEF IInv

\* The entry that retryFailed() enqueues keeps the stores typed.
LEMMA ReviveEntryTypes ==
    ASSUME TypeOK, NEW e \in dead, ReviveEntry(e)
    PROVE  /\ queued' \subseteq Entry /\ late' \subseteq queued'
           /\ dead' \subseteq Entry /\ aged' \subseteq dead'
           /\ revivals' \in Nat /\ tries' \in [Job -> Nat]
<1>1. e.job \in Job
    BY EntryFields DEF TypeOK
<1>2. [job |-> e.job, life |-> revivals + 1, attempts |-> 0] \in Entry
    BY <1>1 DEF TypeOK, Entry
<1> QED
    BY <1>1, <1>2 DEF TypeOK, ReviveEntry, Push

LEMMA ReviveStep == ASSUME IInv, NEW o \in Operator, Revive(o) PROVE IInv'
<1>1. PICK e \in dead : ReviveEntry(e)
    BY DEF Revive
<1>2. TypeOK'
    BY <1>1, ReviveEntryTypes DEF IInv, TypeOK, Revive
<1> QED
    BY <1>1, <1>2, ReviveEntryStep DEF Revive

LEMMA ReviveCommitStep == ASSUME IInv, NEW o \in Operator, ReviveCommit(o) PROVE IInv'
<1>1. /\ pc' = [pc EXCEPT ![o] = "idle"]
      /\ entry' = [entry EXCEPT ![o] = NoEntry]
      /\ pc[o] = "reviving" /\ o \notin Worker
    BY ProcessAssumption DEF ReviveCommit, Goes, Drops
<1>2. \A w \in Worker : pc'[w] = pc[w] /\ entry'[w] = entry[w]
    BY <1>1 DEF IInv, TypeOK, Process
<1>3. CASE entry[o] \in dead
    <2>1. ReviveEntry(entry[o])
        BY <1>3 DEF ReviveCommit
    <2>2. TypeOK'
        BY <1>1, <1>3, <2>1, ReviveEntryTypes
        DEF IInv, TypeOK, ReviveCommit, Process, Phase, Holding
    <2> QED
        BY <1>2, <1>3, <2>1, <2>2, ReviveEntryStep DEF ReviveCommit
<1>4. CASE entry[o] \notin dead
    <2>1. TypeOK'
        BY <1>1, <1>4
        DEF IInv, TypeOK, ReviveCommit, Process, Phase, Holding, queueVars, deadVars
    <2> QED
        BY <1>2, <1>4, <2>1, LosingStep DEF ReviveCommit, queueVars, deadVars
<1> QED
    BY <1>3, <1>4

-----------------------------------------------------------------------------
LEMMA StepIInv == IInv /\ [Next]_vars => IInv'
<1> SUFFICES ASSUME IInv, [Next]_vars PROVE IInv'
    OBVIOUS
<1>1. ASSUME NEW j \in Job, NEW delayed \in BOOLEAN, Dispatch(j, delayed) PROVE IInv'
    BY <1>1, DispatchStep
<1>2. ASSUME NEW e \in late, Due(e) PROVE IInv'
    BY <1>2, DueStep
<1>3. ASSUME NEW w \in Worker, WorkerStep(w) PROVE IInv'
    BY <1>3, PopStep, LookStep, TakeStep, DropUnknownStep, BeginStep, SucceedsStep,
       FailsStep, RequeueStep, BuryStep, HookEndsStep DEF WorkerStep
<1>4. ASSUME NEW w \in Worker, Restart(w) \/ ClaimUnanswered(w) \/ LoopDies(w) PROVE IInv'
    BY <1>4, RestartStep, ClaimUnansweredStep, LoopDiesStep
<1>5. ASSUME NEW p \in Process, PurgeStep(p) PROVE IInv'
    BY <1>5, ReadExpiredStep, DeleteExpiredStep DEF PurgeStep
<1>6. ASSUME NEW o \in Operator, OperatorStep(o) PROVE IInv'
    BY <1>6, ListFailedStep, ReviveStep, ReviveReadStep, ReviveCommitStep DEF OperatorStep
<1>7. ASSUME NEW E \in SUBSET queued, Clear(E) PROVE IInv'
    BY <1>7, ClearStep
<1>8. ASSUME NEW e \in dead, Age(e) PROVE IInv'
    BY <1>8, AgeStep
<1>9. CASE UNCHANGED vars
    <2>1. TypeOK'
        BY <1>9 DEF IInv, TypeOK, vars, queueVars, deadVars
    <2> QED
        BY <1>9, <2>1, LosingStep DEF vars, queueVars, deadVars
<1> QED
    BY <1>1, <1>2, <1>3, <1>4, <1>5, <1>6, <1>7, <1>8, <1>9 DEF Next

LEMMA Invariance == Spec => []IInv
BY InitIInv, StepIInv, PTL DEF Spec

\* Every record, place and phase is as the code types it.
THEOREM TypeCorrect == Spec => []TypeOK
<1>1. IInv => TypeOK
    BY DEF IInv
<1> QED
    BY <1>1, Invariance, PTL

\* No crash, lost answer or race gives a job a second copy.
THEOREM OneCopyAlways == Spec => []OneCopy
<1>1. IInv => OneCopy
    BY DEF IInv, Pairwise, OneCopy, HeldEntries
<1> QED
    BY <1>1, Invariance, PTL

\* The attempts a copy carries are the handle() calls made.
THEOREM AttemptsAreTries == Spec => []AttemptsCounted
<1>1. IInv => AttemptsCounted
    BY DEF IInv
<1> QED
    BY <1>1, Invariance, PTL

-----------------------------------------------------------------------------
(* The queue implements the ledger. *)

\* Where a job is, told by the stores and hands that have a copy of it.
Located(j) ==
    /\ Place[j] = "queued" <=> \E e \in queued : e.job = j
    /\ Place[j] = "held" <=> \E w \in Held : entry[w].job = j
    /\ Place[j] = "dead" <=> \E e \in dead : e.job = j
    /\ Place[j] = "new" <=> j \notin sent
    /\ Place[j] \in {"new", "queued", "held", "dead", "over"}

LEMMA PlacesLocated == ASSUME IInv PROVE \A j \in Job : Located(j)
BY DEF IInv, Pairwise, Dispatched, Located, Place, JobsOf, HeldEntries

LEMMA PlacesLocatedNext == ASSUME IInv' PROVE \A j \in Job : Located(j)'
BY DEF IInv, Pairwise, Dispatched, Located, Place, JobsOf, HeldEntries

LEMMA HeldJobs == ASSUME IInv, NEW w \in Held PROVE entry[w] \in Entry /\ entry[w].job \in Job
BY EntryFields, EntryAssumption DEF IInv, TypeOK, Process

\* A job moved, and others, dead until now, are over.
LEMMA Moved ==
    ASSUME NEW j \in Job, NEW to, NEW purged \in SUBSET Job,
           \A i \in Job : Place'[i] = IF i = j THEN to
                                      ELSE IF i \in purged THEN "over" ELSE Place[i]
    PROVE  Ledger!Moves(j, Place[j], to, purged)
BY DEF Ledger!Moves, Place

\* A job's place changes only with the stores and hands that have its copies.
Unmoved(i) ==
    /\ (\E e \in queued : e.job = i) <=> (\E e \in queued' : e.job = i)
    /\ (\E w \in Held : entry[w].job = i) <=> (\E w \in Held' : entry'[w].job = i)
    /\ (\E e \in dead : e.job = i) <=> (\E e \in dead' : e.job = i)
    /\ i \in sent <=> i \in sent'

LEMMA UnmovedPlace ==
    ASSUME IInv, IInv', NEW i \in Job, Unmoved(i)
    PROVE  Place'[i] = Place[i]
BY PlacesLocated, PlacesLocatedNext DEF Unmoved, Located

LEMMA QuietPlaces ==
    ASSUME IInv, IInv', \A i \in Job : Unmoved(i)
    PROVE  Place' = Place
<1>1. \A i \in Job : Place'[i] = Place[i]
    BY UnmovedPlace
<1> QED
    BY <1>1 DEF Place

\* The steps of a worker that the ledger does not see.
LEMMA LedgerQuiet ==
    ASSUME IInv, IInv', sent' = sent, queued' = queued, dead' = dead, tries' = tries,
           Held' = Held, \A w \in Held : entry'[w].job = entry[w].job
    PROVE  UNCHANGED <<Place, tries>>
BY QuietPlaces DEF Unmoved

LEMMA LedgerDispatch ==
    ASSUME IInv, IInv', NEW j \in Job, NEW delayed \in BOOLEAN, Dispatch(j, delayed)
    PROVE  Ledger!Dispatch(j)
<1>1. PICK e : e.job = j /\ queued' = queued \cup {e}
    BY DEF Dispatch, Push
<1>2. /\ j \notin sent /\ sent' = sent \cup {j} /\ dead' = dead /\ tries' = tries
      /\ Held' = Held /\ entry' = entry
    BY DEF Dispatch, deadVars
<1>3. \A i \in Job : i # j => Place'[i] = Place[i]
    BY <1>1, <1>2, UnmovedPlace DEF Unmoved
<1>4. Place[j] = "new" /\ Place'[j] = "queued"
    BY <1>1, <1>2, PlacesLocated, PlacesLocatedNext DEF Located
<1> QED
    BY <1>2, <1>3, <1>4, Moved DEF Ledger!Dispatch

LEMMA LedgerClaim ==
    ASSUME IInv, IInv', NEW w \in Worker, NEW e \in queued, Claim(w, e), pc[w] \notin Holding,
           UNCHANGED <<sent, deadVars, tries>>
    PROVE  \E j \in Job : Ledger!Take(j)
<1> DEFINE j == e.job
<1>1. /\ j \in Job
      /\ \A d \in queued : d.job = j => d = e
    BY EntryFields DEF IInv, TypeOK, Pairwise
<1>2. /\ queued' = queued \ {e} /\ sent' = sent /\ dead' = dead /\ tries' = tries
      /\ Held' = Held \cup {w} /\ w \notin Held
      /\ \A v \in Held' : entry'[v] = IF v = w THEN e ELSE entry[v]
    BY DEF Claim, Goes, deadVars, IInv, TypeOK, Process, Holding
<1>3. \A i \in Job : i # j => Unmoved(i)
    BY <1>1, <1>2 DEF Unmoved
<1>4. \A i \in Job : i # j => Place'[i] = Place[i]
    BY <1>3, UnmovedPlace
<1>5. Place[j] = "queued" /\ Place'[j] = "held"
    BY <1>1, <1>2, PlacesLocated, PlacesLocatedNext DEF Located
<1> QED
    BY <1>1, <1>2, <1>4, <1>5, Moved DEF Ledger!Take

LEMMA LedgerBegin ==
    ASSUME IInv, IInv', NEW w \in Worker, Begin(w)
    PROVE  \E j \in Job : Ledger!Try(j)
<1> DEFINE j == entry[w].job
<1>1. w \in Held /\ pc[w] = "claimed"
    BY DEF Begin, Holding
<1>2. j \in Job /\ tries[j] < MaxAttempts[j] /\ Place[j] = "held"
    BY <1>1, HeldJobs, PlacesLocated DEF Located, IInv, AttemptsCounted, WorkerCounted
<1>3. /\ \A v \in Worker : pc'[v] = IF v = w THEN "handling" ELSE pc[v]
      /\ UNCHANGED <<sent, queued, dead, entry>>
      /\ tries' = [tries EXCEPT ![j] = @ + 1]
    BY DEF Begin, Goes, IInv, TypeOK, Process, queueVars, deadVars
<1>4. Held' = Held
    BY <1>1, <1>3 DEF Holding
<1>5. \A i \in Job : Unmoved(i)
    BY <1>3, <1>4 DEF Unmoved
<1> QED
    BY <1>2, <1>3, <1>5, QuietPlaces DEF Ledger!Try

LEMMA LedgerRequeue ==
    ASSUME IInv, IInv', NEW w \in Worker, Requeue(w)
    PROVE  \E j \in Job : Ledger!Retry(j)
<1> DEFINE j == entry[w].job
<1>1. w \in Held /\ pc[w] = "failing"
    BY DEF Requeue, Holding
<1>2. /\ j \in Job /\ tries[j] \in Nat /\ MaxAttempts[j] \in Nat
      /\ tries[j] \in 1..(MaxAttempts[j] - 1)
    BY <1>1, HeldJobs, JobAssumption DEF IInv, TypeOK, AttemptsCounted, WorkerCounted
<1>3. /\ queued' = queued \cup {entry[w]} /\ sent' = sent /\ dead' = dead /\ tries' = tries
      /\ Held' = Held \ {w} /\ \A v \in Held' : entry'[v] = entry[v]
    BY DEF Requeue, Push, Goes, Drops, deadVars, IInv, TypeOK, Process, Holding
<1>4. \A v \in Held : v # w => entry[v].job # j
    BY <1>1 DEF IInv, Pairwise
<1>5. \A i \in Job : i # j => Unmoved(i)
    BY <1>1, <1>3 DEF Unmoved
<1>6. \A i \in Job : i # j => Place'[i] = Place[i]
    BY <1>5, UnmovedPlace
<1>7. Place[j] = "held" /\ Place'[j] = "queued"
    BY <1>1, <1>2, <1>3, PlacesLocated, PlacesLocatedNext DEF Located
<1>8. Ledger!Moves(j, "held", "queued", {})
    BY <1>2, <1>6, <1>7, Moved
<1>9. 0 < tries[j] /\ tries[j] < MaxAttempts[j]
    BY <1>2
<1> QED
    BY <1>2, <1>3, <1>8, <1>9 DEF Ledger!Retry

LEMMA LedgerBury ==
    ASSUME IInv, IInv', NEW w \in Worker, Bury(w)
    PROVE  \E j \in Job, purged \in SUBSET Job : Ledger!Bury(j, purged)
<1> DEFINE j == entry[w].job
           purged == {i \in Job : /\ \E e \in dead \cup {entry[w]} : e.job = i
                                  /\ ~ \E e \in dead' : e.job = i}
<1>1. w \in Held /\ pc[w] = "burying"
    BY DEF Bury, Holding
<1>2. j \in Job /\ tries[j] = MaxAttempts[j]
    BY <1>1, HeldJobs DEF IInv, AttemptsCounted, WorkerCounted
<1>3. /\ queued' = queued /\ sent' = sent /\ tries' = tries
      /\ dead' \subseteq dead \cup {entry[w]}
      /\ Held' = Held \ {w} /\ \A v \in Held' : entry'[v] = entry[v]
    BY BuriedStore DEF Bury, Goes, Drops, queueVars, IInv, TypeOK, Process, Holding
<1>4. \A v \in Held : v # w => entry[v].job # j
    BY <1>1 DEF IInv, Pairwise
<1>5. \A e \in dead : e.job # j
    BY <1>1 DEF IInv, Pairwise
<1>6. \A i \in Job : i # j /\ i \notin purged => Unmoved(i)
    BY <1>1, <1>3 DEF Unmoved
<1>7. \A i \in Job : i # j /\ i \notin purged => Place'[i] = Place[i]
    BY <1>6, UnmovedPlace
<1>8. \A i \in purged \ {j} : Place[i] = "dead" /\ Place'[i] = "over"
    <2> SUFFICES ASSUME NEW i \in purged, i # j PROVE Place[i] = "dead" /\ Place'[i] = "over"
        OBVIOUS
    <2>1. Place[i] = "dead"
        BY PlacesLocated DEF Located
    <2>2. ~(\E e \in queued' : e.job = i) /\ ~(\E v \in Held' : entry'[v].job = i) /\ i \in sent'
        BY <1>3, <2>1, PlacesLocated DEF Located
    <2> QED
        BY <2>1, <2>2, PlacesLocatedNext DEF Located
<1>9. Place[j] = "held"
    BY <1>1, <1>2, PlacesLocated DEF Located
<1>10. Place'[j] = IF j \in purged THEN "over" ELSE "dead"
    <2>1. ~(\E e \in queued' : e.job = j) /\ ~(\E v \in Held' : entry'[v].job = j) /\ j \in sent'
        BY <1>1, <1>2, <1>3, <1>4, <1>9, PlacesLocated DEF Located
    <2> QED
        BY <1>2, <2>1, PlacesLocatedNext DEF Located
<1>11. Ledger!Moves(j, "held", IF j \in purged THEN "over" ELSE "dead", purged)
    <2>1. \A i \in Job : Place'[i] = IF i = j THEN IF j \in purged THEN "over" ELSE "dead"
                                     ELSE IF i \in purged THEN "over" ELSE Place[i]
        BY <1>7, <1>8, <1>10
    <2> HIDE DEF purged
    <2>2. purged \in SUBSET Job
        BY DEF purged
    <2> QED
        BY <1>2, <1>9, <2>1, <2>2, Moved
<1> HIDE DEF purged
<1>12. purged \in SUBSET Job
    BY DEF purged
<1> QED
    BY <1>2, <1>3, <1>8, <1>11, <1>12 DEF Ledger!Bury

\* A copy in hand is gone: handled, unknown, or lost.
LEMMA LedgerFinish ==
    ASSUME IInv, IInv', NEW w \in Held,
           UNCHANGED <<sent, queueVars, deadVars, tries>>,
           Held' = Held \ {w}, \A v \in Held' : entry'[v] = entry[v]
    PROVE  \E j \in Job : Ledger!Finish(j)
<1> DEFINE j == entry[w].job
<1>1. j \in Job /\ \A v \in Held : v # w => entry[v].job # j
    BY HeldJobs DEF IInv, Pairwise
<1>2. /\ queued' = queued /\ dead' = dead
    BY DEF queueVars, deadVars
<1>3. \A i \in Job : i # j => Unmoved(i)
    BY <1>2 DEF Unmoved
<1>4. \A i \in Job : i # j => Place'[i] = Place[i]
    BY <1>3, UnmovedPlace
<1>5. Place[j] = "held"
    BY <1>1, PlacesLocated DEF Located
<1>6. Place'[j] = "over"
    <2>1. ~(\E e \in queued' : e.job = j) /\ ~(\E v \in Held' : entry'[v].job = j) /\ j \in sent'
        BY <1>1, <1>2, <1>5, PlacesLocated DEF Located
    <2>2. ~(\E e \in dead' : e.job = j)
        BY <1>1, <1>2, <1>5, PlacesLocated DEF Located
    <2> QED
        BY <1>1, <2>1, <2>2, PlacesLocatedNext DEF Located
<1>7. Ledger!Moves(j, "held", "over", {})
    BY <1>1, <1>4, <1>5, <1>6, Moved
<1> QED
    BY <1>1, <1>7 DEF Ledger!Finish

\* Copies leave the queue, or the dead letters, for good.
LEMMA LedgerDiscard ==
    ASSUME IInv, IInv', NEW from \in {"queued", "dead"},
           sent' = sent, tries' = tries, Held' = Held, \A w \in Held : entry'[w] = entry[w],
           IF from = "queued" THEN queued' \subseteq queued /\ dead' = dead
                              ELSE dead' \subseteq dead /\ queued' = queued
    PROVE  \E J \in SUBSET Job : Ledger!Discard(J, from)
<1> DEFINE J == {j \in Job : ~Unmoved(j)}
<1>1. \A j \in Job \ J : Place'[j] = Place[j]
    BY UnmovedPlace
<1>2. \A j \in J : Place[j] = from
    BY PlacesLocated DEF Located, Unmoved
<1>3. \A j \in J : Place'[j] = "over"
    <2> SUFFICES ASSUME NEW j \in J PROVE Place'[j] = "over"
        OBVIOUS
    <2>1. /\ ~(\E e \in queued' : e.job = j) /\ ~(\E e \in dead' : e.job = j)
        BY <1>2, PlacesLocated DEF Located, Unmoved, IInv, Pairwise
    <2>2. ~(\E v \in Held' : entry'[v].job = j) /\ j \in sent'
        BY <1>2, PlacesLocated DEF Located
    <2> QED
        BY <2>1, <2>2, PlacesLocatedNext DEF Located
<1>4. J \in SUBSET Job
    OBVIOUS
<1> HIDE DEF J
<1>5. Place' = [j \in Job |-> IF j \in J THEN "over" ELSE Place[j]]
    <2>1. Place' = [j \in Job |-> Place'[j]]
        BY DEF Place
    <2> QED
        BY <1>1, <1>3, <1>4, <2>1
<1>6. Ledger!Discard(J, from)
    BY <1>2, <1>5 DEF Ledger!Discard
<1> QED
    BY <1>4, <1>6

LEMMA LedgerRevive ==
    ASSUME IInv, IInv', NEW e \in dead, ReviveEntry(e), sent' = sent,
           Held' = Held, \A w \in Held : entry'[w] = entry[w]
    PROVE  \E j \in Job : Ledger!Revive(j)
<1> DEFINE j == e.job
<1>1. j \in Job /\ \A d \in dead : d.job = j => d = e
    BY EntryFields DEF IInv, TypeOK, Pairwise
<1>2. PICK new : new.job = j /\ queued' = queued \cup {new}
    BY DEF ReviveEntry, Push
<1>3. dead' = dead \ {e} /\ tries' = [tries EXCEPT ![j] = 0]
    BY DEF ReviveEntry
<1>4. \A i \in Job : i # j => Unmoved(i)
    BY <1>1, <1>2, <1>3 DEF Unmoved
<1>5. \A i \in Job : i # j => Place'[i] = Place[i]
    BY <1>4, UnmovedPlace
<1>6. Place[j] = "dead" /\ Place'[j] = "queued"
    BY <1>1, <1>2, PlacesLocated, PlacesLocatedNext DEF Located
<1>7. Ledger!Moves(j, "dead", "queued", {})
    BY <1>1, <1>5, <1>6, Moved
<1> QED
    BY <1>1, <1>3, <1>7 DEF Ledger!Revive

-----------------------------------------------------------------------------
LEMMA LedgerInit == Init => Ledger!Init
BY DEF Init, Ledger!Init, Place, JobsOf, HeldEntries, Holding, Process

\* Which steps of a worker empty its hands.
LEMMA LedgerWorkerStep ==
    ASSUME IInv, IInv', NEW w \in Worker,
           WorkerStep(w) \/ Restart(w) \/ ClaimUnanswered(w) \/ LoopDies(w)
    PROVE  [Ledger!Next]_(Ledger!vars)
<1>1. CASE Pop(w)
    BY <1>1, LedgerClaim DEF Pop, Holding, Ledger!Next
<1>2. CASE Take(w)
    <2>1. CASE entry[w] \in queued
        BY <1>2, <2>1, LedgerClaim DEF Take, Holding, Ledger!Next
    <2>2. CASE entry[w] \notin queued
        <3>1. Held' = Held /\ \A v \in Held : entry'[v] = entry[v]
            BY <1>2, <2>2 DEF Take, Goes, Drops, Holding, IInv, TypeOK, Process
        <3> QED
            BY <1>2, <2>2, <3>1, LedgerQuiet DEF Take, queueVars, deadVars, Ledger!vars
    <2> QED
        BY <2>1, <2>2
<1>3. CASE Begin(w)
    BY <1>3, LedgerBegin DEF Ledger!Next
<1>4. CASE Requeue(w)
    BY <1>4, LedgerRequeue DEF Ledger!Next
<1>5. CASE Bury(w)
    BY <1>5, LedgerBury DEF Ledger!Next
<1>6. CASE DropUnknown(w) \/ Succeeds(w) \/ ClaimUnanswered(w) \/ (LoopDies(w) /\ w \in Held)
    <2>1. /\ w \in Held /\ Held' = Held \ {w} /\ \A v \in Held' : entry'[v] = entry[v]
          /\ UNCHANGED <<sent, queueVars, deadVars, tries>>
        BY <1>6 DEF DropUnknown, Succeeds, ClaimUnanswered, LoopDies, Goes, Drops, Holding,
                    IInv, TypeOK, Process
    <2> QED
        BY <2>1, LedgerFinish DEF Ledger!Next
<1>7. CASE \/ Look(w) \/ HookEnds(w) \/ Restart(w) \/ Fails(w)
           \/ LoopDies(w) /\ w \notin Held
    <2>1. CASE Fails(w)
        <3>1. \A v \in Held : entry'[v].job = entry[v].job
            BY <2>1, HeldJobs DEF Fails, IInv, TypeOK, Process, Entry
        <3>2. Held' = Held
            BY <2>1 DEF Fails, Goes, Holding, IInv, TypeOK, Process
        <3> QED
            BY <2>1, <3>1, <3>2, LedgerQuiet DEF Fails, queueVars, deadVars, Ledger!vars
    <2>2. CASE ~Fails(w)
        <3>1. Held' = Held /\ \A v \in Held : entry'[v] = entry[v]
            BY <1>7, <2>2 DEF Look, HookEnds, Restart, LoopDies, Goes, Drops, Holding,
                              IInv, TypeOK, Process
        <3>2. UNCHANGED <<sent, queueVars, deadVars, tries>>
            BY <1>7, <2>2 DEF Look, HookEnds, Restart, LoopDies
        <3> QED
            BY <3>1, <3>2, LedgerQuiet DEF queueVars, deadVars, Ledger!vars
    <2> QED
        BY <2>1, <2>2
<1> QED
    BY <1>1, <1>2, <1>3, <1>4, <1>5, <1>6, <1>7 DEF WorkerStep

\* Purges, operators, clears and time, as the ledger sees them.
LEMMA LedgerStoreStep ==
    ASSUME IInv, IInv', UNCHANGED <<sent, queueVars, tries>>, dead' \subseteq dead,
           \A w \in Worker : /\ pc[w] \in Holding => pc'[w] = pc[w] /\ entry'[w] = entry[w]
                             /\ pc'[w] \in Holding => pc[w] \in Holding
    PROVE  [Ledger!Next]_(Ledger!vars)
<1>1. Held' = Held /\ \A w \in Held : entry'[w] = entry[w]
    OBVIOUS
<1> QED
    BY <1>1, LedgerDiscard DEF queueVars, Ledger!Next

LEMMA LedgerPurgeStep ==
    ASSUME IInv, IInv', NEW p \in Process, PurgeStep(p)
    PROVE  [Ledger!Next]_(Ledger!vars)
<1>1. dead' \subseteq dead
    BY DEF PurgeStep, ReadExpired, DeleteExpired, Purge, deadVars
<1>2. \A w \in Worker : /\ pc[w] \in Holding => pc'[w] = pc[w] /\ entry'[w] = entry[w]
                        /\ pc'[w] \in Holding => pc[w] \in Holding
    BY DEF PurgeStep, ReadExpired, DeleteExpired, PurgeGoesOn, Goes, Holding,
           IInv, TypeOK, Process
<1> QED
    BY <1>1, <1>2, LedgerStoreStep DEF PurgeStep, ReadExpired, DeleteExpired

LEMMA LedgerOperatorStep ==
    ASSUME IInv, IInv', NEW o \in Operator, OperatorStep(o)
    PROVE  [Ledger!Next]_(Ledger!vars)
<1>1. \A w \in Worker : pc'[w] = pc[w] /\ entry'[w] = entry[w]
    BY ProcessAssumption
    DEF OperatorStep, ListFailed, Revive, ReviveRead, ReviveCommit, Goes, Drops,
        IInv, TypeOK, Process
<1>2. Held' = Held /\ \A w \in Held : entry'[w] = entry[w]
    BY <1>1
<1>3. CASE ListFailed(o)
    BY <1>1, <1>3, LedgerStoreStep DEF ListFailed, Purge, deadVars
<1>4. CASE Revive(o)
    BY <1>2, <1>4, LedgerRevive DEF Revive, Ledger!Next
<1>5. CASE ReviveRead(o)
    BY <1>1, <1>5, LedgerStoreStep DEF ReviveRead, deadVars
<1>6. CASE ReviveCommit(o)
    <2>1. CASE entry[o] \in dead
        BY <1>2, <1>6, <2>1, LedgerRevive DEF ReviveCommit, Ledger!Next
    <2>2. CASE entry[o] \notin dead
        BY <1>2, <1>6, <2>2, LedgerQuiet DEF ReviveCommit, queueVars, deadVars, Ledger!vars
    <2> QED
        BY <2>1, <2>2
<1> QED
    BY <1>3, <1>4, <1>5, <1>6 DEF OperatorStep

LEMMA LedgerStep == IInv /\ IInv' /\ [Next]_vars => [Ledger!Next]_(Ledger!vars)
<1> SUFFICES ASSUME IInv, IInv', [Next]_vars PROVE [Ledger!Next]_(Ledger!vars)
    OBVIOUS
<1>1. ASSUME NEW j \in Job, NEW delayed \in BOOLEAN, Dispatch(j, delayed)
      PROVE  [Ledger!Next]_(Ledger!vars)
    BY <1>1, LedgerDispatch DEF Ledger!Next
<1>2. ASSUME NEW e \in late, Due(e) PROVE [Ledger!Next]_(Ledger!vars)
    BY <1>2, LedgerQuiet DEF Due, deadVars, Ledger!vars
<1>3. ASSUME NEW w \in Worker,
             WorkerStep(w) \/ Restart(w) \/ ClaimUnanswered(w) \/ LoopDies(w)
      PROVE  [Ledger!Next]_(Ledger!vars)
    BY <1>3, LedgerWorkerStep
<1>4. ASSUME NEW p \in Process, PurgeStep(p) PROVE [Ledger!Next]_(Ledger!vars)
    BY <1>4, LedgerPurgeStep
<1>5. ASSUME NEW o \in Operator, OperatorStep(o) PROVE [Ledger!Next]_(Ledger!vars)
    BY <1>5, LedgerOperatorStep
<1>6. ASSUME NEW E \in SUBSET queued, Clear(E) PROVE [Ledger!Next]_(Ledger!vars)
    BY <1>6, LedgerDiscard DEF Clear, deadVars, Ledger!Next
<1>7. ASSUME NEW e \in dead, Age(e) PROVE [Ledger!Next]_(Ledger!vars)
    BY <1>7, LedgerStoreStep DEF Age, Purge
<1>8. CASE UNCHANGED vars
    BY <1>8, LedgerQuiet DEF vars, queueVars, deadVars, Ledger!vars
<1> QED
    BY <1>1, <1>2, <1>3, <1>4, <1>5, <1>6, <1>7, <1>8 DEF Next

\* Queue, workers and dead letters, over any of the three drivers, implement
\* the ledger of jobs.
THEOREM Refinement == Spec => ImplementsLedger
BY LedgerInit, LedgerStep, Invariance, PTL DEF Spec, ImplementsLedger, Ledger!Spec
=============================================================================
