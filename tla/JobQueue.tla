------------------------------- MODULE JobQueue -------------------------------
(***************************************************************************)
(* Jobs, from dispatch to their end (packages/queue): worker loops that    *)
(* pop and process jobs (worker.ts), operators who list, revive and clear  *)
(* them (dispatch.ts), and the memory, Redis and Deno KV drivers between.  *)
(*                                                                         *)
(* A command of the Redis driver is one atomic script or command.  The     *)
(* Deno KV driver pops and revives by reading an entry and committing a    *)
(* transaction that checks its versionstamp.  The Redis driver purges the  *)
(* dead-letter hash by reading it whole, then deleting by job id.          *)
(*                                                                         *)
(* The copy of a job that is queued, held or dead is an Entry; `life`      *)
(* tells the copies made by different revivals apart, as availableAt and   *)
(* the versionstamp do.  Times are left out: a job that is late becomes    *)
(* due, and a dead letter outlives its retention, at any moment.           *)
(***************************************************************************)
EXTENDS Naturals, FiniteSets

CONSTANTS Job,          \* jobs that may be dispatched
          MaxAttempts,  \* SerializedJob.maxAttempts of each job
          Worker,       \* worker loops
          Operator,     \* callers of listFailed, retryFailed and clear
          MaxDead,      \* deadLetterMaxEntries of the memory driver
          MaxRevivals,  \* bound: no revival begins after so many
          MaxFaults,    \* bound: loops that die, claims whose answer is lost
          NoEntry

ASSUME JobAssumption == MaxAttempts \in [Job -> Nat \ {0}]
ASSUME BoundAssumption == MaxDead \in Nat /\ MaxRevivals \in Nat /\ MaxFaults \in Nat
ASSUME ProcessAssumption == Worker \cap Operator = {}

VARIABLES
    driver,   \* the configured driver
    sent,     \* history: jobs dispatched
    queued,   \* entries in the queue
    late,     \* those whose availableAt is still to come
    dead,     \* entries in the dead-letter store
    aged,     \* those past the retention window
    revivals, \* history: dead jobs revived so far
    pc,       \* where each worker and operator is
    entry,    \* the entry it holds, or has read
    doomed,   \* job ids it found expired and will delete
    tries,    \* history: handle() calls since the job was enqueued afresh
    ended,    \* history: jobs handled, dropped, cleared or purged
    faults    \* faults so far

queueVars == <<queued, late>>
deadVars == <<dead, aged>>
vars == <<driver, sent, queueVars, deadVars, revivals, pc, entry, doomed, tries, ended, faults>>

Process == Worker \cup Operator

Driver == {"memory", "redis", "deno-kv"}

\* A SerializedJob, in a store or in hand.
Entry == [job : Job, life : Nat, attempts : Nat]

ASSUME EntryAssumption == NoEntry \notin Entry

\* A worker has a job in its hands from the claim to its next enqueue or end.
Holding == {"claimed", "handling", "failing", "burying"}

Phase == Holding \cup {"idle", "looking", "reviving", "listing", "purging", "hook", "down"}

JobsOf(E) == {e.job : e \in E}

-----------------------------------------------------------------------------
Init == /\ driver \in Driver
        /\ sent = {}
        /\ queued = {}
        /\ late = {}
        /\ dead = {}
        /\ aged = {}
        /\ revivals = 0
        /\ pc = [p \in Process |-> IF p \in Worker THEN "down" ELSE "idle"]
        /\ entry = [p \in Process |-> NoEntry]
        /\ doomed = [p \in Process |-> {}]
        /\ tries = [j \in Job |-> 0]
        /\ ended = {}
        /\ faults = 0

Goes(p, phase) == pc' = [pc EXCEPT ![p] = phase]

Drops(p) == entry' = [entry EXCEPT ![p] = NoEntry]

Fault == faults < MaxFaults /\ faults' = faults + 1

\* push(): one more entry, due now or later.
Push(e, delayed) ==
    /\ queued' = queued \cup {e}
    /\ late' = IF delayed THEN late \cup {e} ELSE late

\* dispatch(job, {delay}).
Dispatch(j, delayed) ==
    /\ j \notin sent
    /\ sent' = sent \cup {j}
    /\ Push([job |-> j, life |-> 0, attempts |-> 0], delayed)
    /\ UNCHANGED <<driver, deadVars, revivals, pc, entry, doomed, tries, ended, faults>>

\* availableAt comes.
Due(e) ==
    /\ e \in late
    /\ late' = late \ {e}
    /\ UNCHANGED <<driver, sent, queued, deadVars, revivals, pc, entry, doomed, tries, ended, faults>>

-----------------------------------------------------------------------------
(* The worker loop. *)

\* start(), again after a crash or a rejection that ended the loop.
Restart(w) ==
    /\ pc[w] = "down"
    /\ Goes(w, "idle")
    /\ UNCHANGED <<driver, sent, queueVars, deadVars, revivals, entry, doomed, tries, ended, faults>>

\* The claim is made in the store; the answer is still to come.
Claim(w, e) ==
    /\ queued' = queued \ {e}
    /\ late' = late \ {e}
    /\ Goes(w, "claimed")
    /\ entry' = [entry EXCEPT ![w] = e]

\* pop() of the memory and Redis drivers: splice, or ZRANGEBYSCORE and ZREM.
Pop(w) ==
    /\ driver # "deno-kv"
    /\ pc[w] = "idle"
    /\ \E e \in queued \ late : Claim(w, e)
    /\ UNCHANGED <<driver, sent, deadVars, revivals, doomed, tries, ended, faults>>

\* pop() of the Deno KV driver: a due entry read from the list ...
Look(w) ==
    /\ driver = "deno-kv"
    /\ pc[w] = "idle"
    /\ Goes(w, "looking")
    /\ \E e \in queued \ late : entry' = [entry EXCEPT ![w] = e]
    /\ UNCHANGED <<driver, sent, queueVars, deadVars, revivals, doomed, tries, ended, faults>>

\* Bug: the transaction deletes the entry without checking it.
TakeUnchecked(w) ==
    /\ pc[w] = "looking"
    /\ Claim(w, entry[w])
    /\ UNCHANGED <<driver, sent, deadVars, revivals, doomed, tries, ended, faults>>

\* ... and deleted by a transaction that checks it; else the next one is read.
Take(w) ==
    /\ pc[w] = "looking"
    /\ IF entry[w] \in queued
       THEN Claim(w, entry[w])
       ELSE Goes(w, "idle") /\ Drops(w) /\ UNCHANGED queueVars
    /\ UNCHANGED <<driver, sent, deadVars, revivals, doomed, tries, ended, faults>>

\* pop() rejects though the claim was made: warned about, polled again.
ClaimUnanswered(w) ==
    /\ driver # "memory"
    /\ pc[w] = "claimed"
    /\ Fault
    /\ Goes(w, "idle")
    /\ Drops(w)
    /\ UNCHANGED <<driver, sent, queueVars, deadVars, revivals, doomed, tries, ended>>

\* processJob(): a job whose class this worker's process did not register is
\* reported and left ...
DropUnknown(w) ==
    /\ pc[w] = "claimed"
    /\ Goes(w, "idle")
    /\ Drops(w)
    /\ ended' = ended \cup {entry[w].job}
    /\ UNCHANGED <<driver, sent, queueVars, deadVars, revivals, doomed, tries, faults>>

\* ... else handle() begins.
Begin(w) ==
    /\ pc[w] = "claimed"
    /\ Goes(w, "handling")
    /\ tries' = [tries EXCEPT ![entry[w].job] = @ + 1]
    /\ UNCHANGED <<driver, sent, queueVars, deadVars, revivals, entry, doomed, ended, faults>>

\* handle() resolves; complete() does nothing in any driver.
Succeeds(w) ==
    /\ pc[w] = "handling"
    /\ Goes(w, "idle")
    /\ Drops(w)
    /\ ended' = ended \cup {entry[w].job}
    /\ UNCHANGED <<driver, sent, queueVars, deadVars, revivals, doomed, tries, faults>>

\* Bug: the last attempt is taken for one of several.
FailsForgiving(w) ==
    /\ pc[w] = "handling"
    /\ entry' = [entry EXCEPT ![w].attempts = @ + 1]
    /\ Goes(w, IF entry[w].attempts < MaxAttempts[entry[w].job] THEN "failing" ELSE "burying")
    /\ UNCHANGED <<driver, sent, queueVars, deadVars, revivals, doomed, tries, ended, faults>>

\* handle() rejects: the attempt is counted; another one, or the dead letters.
Fails(w) ==
    LET attempt == entry[w].attempts + 1
    IN  /\ pc[w] = "handling"
        /\ entry' = [entry EXCEPT ![w].attempts = attempt]
        /\ Goes(w, IF attempt < MaxAttempts[entry[w].job] THEN "failing" ELSE "burying")
        /\ UNCHANGED <<driver, sent, queueVars, deadVars, revivals, doomed, tries, ended, faults>>

\* Bug: fail() rewrites the entry it popped, and insists until it finds it.
RequeueInPlace(w) ==
    /\ pc[w] = "failing"
    /\ entry[w] \in queued
    /\ Push(entry[w], TRUE)
    /\ Goes(w, "idle")
    /\ Drops(w)
    /\ UNCHANGED <<driver, sent, deadVars, revivals, doomed, tries, ended, faults>>

\* fail(): the entry goes back, due after its backoff.  (A push whose answer is
\* lost is this step followed by LoopDies.)
Requeue(w) ==
    /\ pc[w] = "failing"
    /\ Push(entry[w], TRUE)
    /\ Goes(w, "idle")
    /\ Drops(w)
    /\ UNCHANGED <<driver, sent, deadVars, revivals, doomed, tries, ended, faults>>

\* Entries leave the dead-letter store for good.
Purge(E) ==
    /\ dead' = dead \ E
    /\ aged' = aged \ E
    /\ ended' = ended \cup JobsOf(E \cap dead)

\* deadLetter(): the store is keyed by job id.  The memory driver sweeps what
\* has aged and evicts the oldest above its cap; the Redis driver goes on to
\* purge; Deno KV leaves expiry to the store.
Bury(w) ==
    LET new  == entry[w]
        same == {e \in dead : e.job = new.job}
        kept == dead \ (aged \cup same)
        full == Cardinality(kept) >= MaxDead
    IN  /\ pc[w] = "burying"
        /\ IF driver = "memory"
           THEN \E out \in IF ~full THEN {{}} ELSE IF kept = {} THEN {{new}} ELSE {{e} : e \in kept} :
                    /\ dead' = (kept \cup {new}) \ out
                    /\ aged' = {}
                    /\ ended' = ended \cup JobsOf((aged \ same) \cup out)
           ELSE /\ dead' = (dead \ same) \cup {new}
                /\ aged' = aged \ same
                /\ UNCHANGED ended
        /\ Goes(w, IF driver = "redis" THEN "listing" ELSE "hook")
        /\ Drops(w)
        /\ UNCHANGED <<driver, sent, queueVars, revivals, doomed, tries, faults>>

\* The purge deletes the jobs J next; after the last a worker goes on to the
\* job's failed() hook.
PurgeGoesOn(p, J) ==
    /\ doomed' = [doomed EXCEPT ![p] = J]
    /\ Goes(p, IF J # {} THEN "purging" ELSE IF p \in Worker THEN "hook" ELSE "idle")

\* HVALS: the ids of the entries past the retention window.
ReadExpired(p) ==
    /\ pc[p] = "listing"
    /\ PurgeGoesOn(p, JobsOf(aged))
    /\ UNCHANGED <<driver, sent, queueVars, deadVars, revivals, entry, tries, ended, faults>>

\* HDEL of one of them, whatever entry has that id by now.
DeleteExpired(p) ==
    /\ pc[p] = "purging"
    /\ \E j \in doomed[p] :
           /\ PurgeGoesOn(p, doomed[p] \ {j})
           /\ Purge({e \in dead : e.job = j})
    /\ UNCHANGED <<driver, sent, queueVars, revivals, entry, tries, faults>>

HookEnds(w) ==
    /\ pc[w] = "hook"
    /\ Goes(w, "idle")
    /\ UNCHANGED <<driver, sent, queueVars, deadVars, revivals, entry, doomed, tries, ended, faults>>

\* The loop ends: its process crashed, or fail(), deadLetter(), the job's
\* constructor or its failed() hook threw and start() rejected.  The memory
\* driver never rejects, and does not outlive its process.
LoopDies(w) ==
    /\ pc[w] # "down"
    /\ driver = "memory" => pc[w] \in {"claimed", "hook"}
    /\ Fault
    /\ Goes(w, "down")
    /\ Drops(w)
    /\ doomed' = [doomed EXCEPT ![w] = {}]
    /\ UNCHANGED <<driver, sent, queueVars, deadVars, revivals, tries, ended>>

-----------------------------------------------------------------------------
(* Operators, and the passing of time. *)

\* listFailed(): the memory driver sweeps, the Redis driver purges.
ListFailed(o) ==
    /\ driver # "deno-kv"
    /\ pc[o] = "idle"
    /\ IF driver = "memory"
       THEN Purge(aged) /\ UNCHANGED pc
       ELSE Goes(o, "listing") /\ UNCHANGED <<deadVars, ended>>
    /\ UNCHANGED <<driver, sent, queueVars, revivals, entry, doomed, tries, faults>>

\* The dead entry e becomes a fresh entry of the queue.
ReviveEntry(e) ==
    /\ revivals' = revivals + 1
    /\ Push([job |-> e.job, life |-> revivals + 1, attempts |-> 0], FALSE)
    /\ tries' = [tries EXCEPT ![e.job] = 0]
    /\ dead' = dead \ {e}
    /\ aged' = aged \ {e}

\* retryFailed() of the memory and Redis drivers (RETRY_SCRIPT).
Revive(o) ==
    /\ driver # "deno-kv"
    /\ pc[o] = "idle"
    /\ revivals < MaxRevivals
    /\ \E e \in dead : ReviveEntry(e)
    /\ UNCHANGED <<driver, sent, pc, entry, doomed, ended, faults>>

\* retryFailed() of the Deno KV driver: read the dead letter ...
ReviveRead(o) ==
    /\ driver = "deno-kv"
    /\ pc[o] = "idle"
    /\ revivals < MaxRevivals
    /\ Goes(o, "reviving")
    /\ \E e \in dead : entry' = [entry EXCEPT ![o] = e]
    /\ UNCHANGED <<driver, sent, queueVars, deadVars, revivals, doomed, tries, ended, faults>>

\* Bug: the transaction does not check the dead letter it read.
ReviveUnchecked(o) ==
    /\ pc[o] = "reviving"
    /\ ReviveEntry(entry[o])
    /\ Goes(o, "idle")
    /\ Drops(o)
    /\ UNCHANGED <<driver, sent, doomed, ended, faults>>

\* ... and move it in one transaction that checks it; else answer false.
ReviveCommit(o) ==
    /\ pc[o] = "reviving"
    /\ IF entry[o] \in dead
       THEN ReviveEntry(entry[o])
       ELSE UNCHANGED <<queueVars, deadVars, revivals, tries>>
    /\ Goes(o, "idle")
    /\ Drops(o)
    /\ UNCHANGED <<driver, sent, doomed, ended, faults>>

\* clear(): the queue is dropped whole, or (Deno KV) key by key.
Clear(E) ==
    /\ E # {}
    /\ IF driver = "deno-kv" THEN \E e \in queued : E = {e} ELSE E = queued
    /\ queued' = queued \ E
    /\ late' = late \ E
    /\ ended' = ended \cup JobsOf(E)
    /\ UNCHANGED <<driver, sent, deadVars, revivals, pc, entry, doomed, tries, faults>>

\* A dead letter outlives the retention window; Deno KV expires it itself.
Age(e) ==
    /\ e \in dead \ aged
    /\ IF driver = "deno-kv"
       THEN Purge({e})
       ELSE aged' = aged \cup {e} /\ UNCHANGED <<dead, ended>>
    /\ UNCHANGED <<driver, sent, queueVars, revivals, pc, entry, doomed, tries, faults>>

-----------------------------------------------------------------------------
WorkerStep(w) ==
    \/ Pop(w) \/ Look(w) \/ Take(w) \/ DropUnknown(w) \/ Begin(w)
    \/ Succeeds(w) \/ Fails(w) \/ Requeue(w) \/ Bury(w) \/ HookEnds(w)

PurgeStep(p) == ReadExpired(p) \/ DeleteExpired(p)

OperatorStep(o) == ListFailed(o) \/ Revive(o) \/ ReviveRead(o) \/ ReviveCommit(o)

Next == \/ \E j \in Job, delayed \in BOOLEAN : Dispatch(j, delayed)
        \/ \E e \in late : Due(e)
        \/ \E w \in Worker : Restart(w) \/ WorkerStep(w) \/ ClaimUnanswered(w) \/ LoopDies(w)
        \/ \E p \in Process : PurgeStep(p)
        \/ \E o \in Operator : OperatorStep(o)
        \/ \E E \in SUBSET queued : Clear(E)
        \/ \E e \in dead : Age(e)

Spec == Init /\ [][Next]_vars

\* Backoffs pass, workers are restarted, and a loop that runs goes on.
Fairness ==
    /\ \A j \in Job : WF_vars(\E e \in late : e.job = j /\ Due(e))
    /\ \A w \in Worker : WF_vars(Restart(w)) /\ WF_vars(WorkerStep(w) \/ PurgeStep(w))

FairSpec == Spec /\ Fairness

-----------------------------------------------------------------------------
TypeOK ==
    /\ driver \in Driver
    /\ sent \subseteq Job
    /\ queued \subseteq Entry
    /\ late \subseteq queued
    /\ dead \subseteq Entry
    /\ aged \subseteq dead
    /\ revivals \in Nat
    /\ pc \in [Process -> Phase]
    /\ entry \in [Process -> Entry \cup {NoEntry}]
    /\ doomed \in [Process -> SUBSET Job]
    /\ tries \in [Job -> Nat]
    /\ ended \subseteq sent
    /\ faults \in Nat
    /\ \A p \in Process :
           /\ entry[p] # NoEntry <=> pc[p] \in Holding \cup {"looking", "reviving"}
           /\ pc[p] \in Holding \cup {"looking", "hook", "down"} => p \in Worker
           /\ pc[p] = "reviving" => p \in Operator

\* The entries of the jobs in the hands of workers.
Held == {w \in Worker : pc[w] \in Holding}

HeldEntries == {entry[w] : w \in Held}

\* A job has one copy: two workers never take the same job, and no crash, lost
\* answer, concurrent revival or purge leaves it both queued and dead-lettered
\* ("so a crash can never leave the job both queued and dead-lettered", "so a
\* concurrent retry cannot double-enqueue", redis.ts and deno_kv.ts).
OneCopy ==
    /\ \A d, e \in queued \cup dead \cup HeldEntries : d.job = e.job => d = e
    /\ queued \cap dead = {}
    /\ HeldEntries \cap (queued \cup dead) = {}
    /\ \A v, w \in Held : entry[v] = entry[w] => v = w

\* The attempts on the record in a worker's hands, by what it does with it.
WorkerCounted(w) ==
    LET j == entry[w].job
    IN  /\ entry[w].attempts = IF pc[w] = "handling" THEN tries[j] - 1 ELSE tries[j]
        /\ pc[w] = "claimed"  => tries[j] < MaxAttempts[j]
        /\ pc[w] = "handling" => tries[j] \in 1..MaxAttempts[j]
        /\ pc[w] = "failing"  => tries[j] \in 1..(MaxAttempts[j] - 1)
        /\ pc[w] = "burying"  => tries[j] = MaxAttempts[j]

\* The attempts a copy carries through stores and workers are the handle()
\* calls really made: a queued job has one left, a dead one has none.
AttemptsCounted ==
    /\ \A e \in queued : e.attempts = tries[e.job] /\ tries[e.job] < MaxAttempts[e.job]
    /\ \A e \in dead : e.attempts = tries[e.job] /\ tries[e.job] = MaxAttempts[e.job]
    /\ \A w \in Held : WorkerCounted(w)

\* A queued job is taken and brought to an end, or cleared, whatever loops die
\* and are restarted meanwhile.
JobsSettle ==
    \A j \in Job : (j \in JobsOf(queued \cup HeldEntries))
                      ~> (j \notin JobsOf(queued \cup HeldEntries))

-----------------------------------------------------------------------------
\* Queue, workers and dead letters implement the ledger.
Place == [j \in Job |-> IF j \in JobsOf(queued) THEN "queued"
                        ELSE IF j \in JobsOf(HeldEntries) THEN "held"
                        ELSE IF j \in JobsOf(dead) THEN "dead"
                        ELSE IF j \in sent THEN "over" ELSE "new"]

Ledger == INSTANCE JobLedger WITH place <- Place

ImplementsLedger == Ledger!Spec
=============================================================================
