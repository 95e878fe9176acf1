------------------------------- MODULE Shutdown -------------------------------
(***************************************************************************)
(* The shutdown of an application (packages/core/kernel): the registry of  *)
(* teardown hooks, the sequence that runs them, bounded by a deadline, and *)
(* the signal handlers; with the process-wide set in which packages        *)
(* announce what is to be disposed of (contract/lifecycle/disposables.ts). *)
(*                                                                         *)
(*   idle -> early -> draining -> announcing -> hooks -> over              *)
(*                        \-> broken                                       *)
(*                                                                         *)
(* early and hooks are the two walks of #execute over an ordered list: the *)
(* rest of the list is `batch`, the hook awaited is `running`.  A hook may *)
(* take for ever, and so may the server's drain.  Durations are left out:  *)
(* the deadline expires at any moment after run() was called.              *)
(***************************************************************************)
EXTENDS Integers, Sequences, FiniteSets

CONSTANTS Hook,         \* teardowns that may be registered, or announced
          Disposable,   \* those announced with registerDisposable()
          priority,     \* the priority of each
          Predrain,     \* SHUTDOWN_PRIORITY.PREDRAIN
          MaxTurns,     \* bound: calls of register() and registerDisposable()
          NoHook, NoReport, Rejected

ASSUME HookAssumption == /\ IsFiniteSet(Hook)
                         /\ Disposable \subseteq Hook
                         /\ priority \in [Hook -> Int]
                         /\ Predrain \in Int
ASSUME BoundAssumption == MaxTurns \in Nat
ASSUME ValueAssumption == NoHook \notin Hook

VARIABLES
    heard,      \* the disposables set: when each was announced, 0 when not
    entries,    \* #entries
    rank,       \* the place of each hook in registration order, 0 before it
    turn,       \* counts registrations and announcements
    frozen,     \* #started
    status,     \* history: what has become of each hook
    stage,      \* where the sequence is
    batch,      \* hooks of the list being walked that have not started
    running,    \* the hook awaited
    accepting,  \* whether an HTTP server accepts requests
    failed,     \* `failed` of the registry's run()
    progress,   \* #progress
    report,     \* what run() settled with
    armed,      \* whether the deadline's timer is set
    signalled,  \* whether a signal handler called run()
    exit        \* how the process ended

registryVars == <<entries, rank, turn, frozen>>
walkVars == <<status, stage, batch, running, failed, progress>>
endVars == <<report, armed, exit>>
vars == <<heard, registryVars, walkVars, accepting, endVars, signalled>>

Status == {"waiting", "running", "done", "failed"}
Stage == {"idle", "early", "draining", "announcing", "hooks", "over", "broken"}
Tally == [ran : Nat, failed : Seq(Hook)]
Report == [ran : Nat, failed : Seq(Hook), timedOut : BOOLEAN]

ASSUME ReportAssumption == /\ NoReport \notin Report \cup {Rejected}
                           /\ Rejected \notin Report

-----------------------------------------------------------------------------
Init == /\ heard = [h \in Disposable |-> 0]
        /\ entries = {}
        /\ rank = [h \in Hook |-> 0]
        /\ turn = 0
        /\ frozen = FALSE
        /\ status = [h \in Hook |-> "waiting"]
        /\ stage = "idle"
        /\ batch = {}
        /\ running = NoHook
        /\ accepting \in BOOLEAN
        /\ failed = <<>>
        /\ progress = [ran |-> 0, failed |-> <<>>]
        /\ report = NoReport
        /\ armed = FALSE
        /\ signalled = FALSE
        /\ exit = "alive"

Alive == exit = "alive"

(* Announcing and registering. *)

\* register(), by @OnShutdown and onShutdown(): refused once run() began its walk.
Register(h) ==
    /\ Alive
    /\ h \notin Disposable
    /\ turn < MaxTurns
    /\ rank[h] = 0
    /\ ~frozen
    /\ entries' = entries \cup {h}
    /\ rank' = [rank EXCEPT ![h] = turn + 1]
    /\ turn' = turn + 1
    /\ UNCHANGED <<heard, frozen, walkVars, accepting, endVars, signalled>>

\* registerDisposable(), at any time.
Announce(h) ==
    /\ Alive
    /\ turn < MaxTurns
    /\ heard[h] = 0
    /\ heard' = [heard EXCEPT ![h] = turn + 1]
    /\ turn' = turn + 1
    /\ UNCHANGED <<entries, rank, frozen, walkVars, accepting, endVars, signalled>>

\* deregisterDisposable(); after the drain it finds nothing.
Withdraw(h) ==
    /\ Alive
    /\ heard[h] # 0
    /\ heard' = [heard EXCEPT ![h] = 0]
    /\ UNCHANGED <<registryVars, walkVars, accepting, endVars, signalled>>

-----------------------------------------------------------------------------
(* The sequence. *)

\* The hooks that asked to run before the server stops accepting.
Early(h) == priority[h] <= Predrain

\* The registry's one comparator, stable: r holds registration order.
Before(r, g, h) == \/ priority[g] < priority[h]
                   \/ priority[g] = priority[h] /\ r[g] < r[h]

\* Bug: highest first, the order of @OnBoot.
StartLast(H, r, now) ==
    \E h \in H : /\ \A g \in H : g = h \/ Before(r, g, h)
                 /\ running' = h
                 /\ batch' = H \ {h}
                 /\ status' = [now EXCEPT ![h] = "running"]

\* #execute calls the first of the hooks H, in the order of r.
StartFirst(H, r, now) ==
    \E h \in H : /\ \A g \in H : g = h \/ Before(r, h, g)
                 /\ running' = h
                 /\ batch' = H \ {h}
                 /\ status' = [now EXCEPT ![h] = "running"]

\* Bug: the hooks of the band are run, and stay.
LeftAll(H) == H

\* What runBand() leaves in the list: it takes out what it selects.
Left(H) == {h \in H : ~Early(h)}

\* The first run(): the deadline is armed, what was announced is adopted in the
\* order it came, and the early band leaves the list and starts.  (A later call
\* gets the same promise.)
Begin(bySignal) ==
    LET adopted == {h \in Disposable : heard[h] # 0}
        all == entries \cup adopted
        band == {h \in all : Early(h)}
        order == [h \in Hook |-> IF h \in adopted THEN turn + heard[h] ELSE rank[h]]
    IN  /\ Alive
        /\ stage = "idle"
        /\ armed' = TRUE
        /\ signalled' = bySignal
        /\ heard' = [h \in Disposable |-> 0]
        /\ rank' = order
        /\ turn' = turn + turn
        /\ entries' = Left(all)
        /\ IF band = {}
           THEN stage' = "draining" /\ UNCHANGED <<status, batch, running>>
           ELSE stage' = "early" /\ StartFirst(band, order, status)
        /\ UNCHANGED <<frozen, failed, progress, accepting, report, exit>>

\* Bug: the deadline alone decides.
ExitCodeIgnoresFailures(r) == IF r = Rejected \/ r.timedOut THEN "degraded" ELSE "clean"

\* exitCodeFor(), and the handler's catch: "clean" is 0, "degraded" is 1.
ExitCode(r) ==
    IF r # Rejected /\ r.failed = <<>> /\ ~r.timedOut THEN "clean" ELSE "degraded"

\* Bug: progress is published before the failure is pushed.
PublishStale(ran, list) == progress' = [ran |-> ran, failed |-> failed]

\* onProgress: hooks called so far, and those that threw.
Publish(ran, list) == progress' = [ran |-> ran, failed |-> list]

\* run() settles, unless it has: the timer is cleared, and a handler that
\* waits for it ends the process.
Settle(r) ==
    IF report = NoReport
    THEN /\ report' = r
         /\ armed' = FALSE
         /\ exit' = IF signalled THEN ExitCode(r) ELSE exit
    ELSE UNCHANGED endVars

\* The hook awaited resolves or throws, in the early band: what the band's
\* runBand() returns is not looked at.
EarlyEnds(result) ==
    LET now == [status EXCEPT ![running] = result]
    IN  /\ Alive
        /\ stage = "early"
        /\ IF batch = {}
           THEN /\ stage' = "draining"
                /\ running' = NoHook
                /\ status' = now
                /\ UNCHANGED batch
           ELSE StartFirst(batch, rank, now) /\ UNCHANGED stage
        /\ UNCHANGED <<heard, registryVars, failed, progress, accepting, endVars, signalled>>

\* The server, if there is one, has stopped ...
Drained ==
    /\ Alive
    /\ stage = "draining"
    /\ stage' = "announcing"
    /\ accepting' = FALSE
    /\ UNCHANGED <<heard, registryVars, status, batch, running, failed, progress,
                   endVars, signalled>>

\* ... or its promise, or that of its shutdown(), rejects, and run() with it.
DrainFails ==
    /\ Alive
    /\ accepting
    /\ stage = "draining"
    /\ stage' = "broken"
    /\ Settle(Rejected)
    /\ UNCHANGED <<heard, registryVars, status, batch, running, failed, progress,
                   accepting, signalled>>

\* The listeners of KernelTerminating are done, or their share of the deadline
\* is over: the registry is frozen and its hooks walked.
Announced ==
    /\ Alive
    /\ stage = "announcing"
    /\ frozen' = TRUE
    /\ IF entries = {}
       THEN /\ stage' = "over"
            /\ Settle([ran |-> 0, failed |-> <<>>, timedOut |-> FALSE])
            /\ UNCHANGED <<status, batch, running, progress>>
       ELSE /\ stage' = "hooks"
            /\ StartFirst(entries, rank, status)
            /\ Publish(1, <<>>)
            /\ UNCHANGED endVars
    /\ UNCHANGED <<heard, entries, rank, turn, failed, accepting, signalled>>

\* The hook awaited resolves or throws, in run(): the next one starts, and
\* progress is published; after the last the sequence is over.  The deadline
\* having expired changes nothing here.
HookEnds(result) ==
    LET now == [status EXCEPT ![running] = result]
        all == IF result = "failed" THEN Append(failed, running) ELSE failed
    IN  /\ Alive
        /\ stage = "hooks"
        /\ failed' = all
        /\ IF batch = {}
           THEN /\ stage' = "over"
                /\ running' = NoHook
                /\ status' = now
                /\ Publish(progress.ran, all)
                /\ Settle([ran |-> progress.ran, failed |-> all, timedOut |-> FALSE])
                /\ UNCHANGED batch
           ELSE /\ StartFirst(batch, rank, now)
                /\ Publish(progress.ran + 1, all)
                /\ UNCHANGED <<stage, endVars>>
        /\ UNCHANGED <<heard, registryVars, accepting, signalled>>

\* Bug: the timer bounds the hooks alone.
DeadlineOfHooks ==
    /\ Alive
    /\ armed
    /\ stage = "hooks"
    /\ Settle([ran |-> progress.ran, failed |-> progress.failed, timedOut |-> TRUE])
    /\ UNCHANGED <<heard, registryVars, walkVars, accepting, signalled>>

\* The deadline expires: run() settles with the progress made so far, and the
\* sequence goes on by itself.
Deadline ==
    /\ Alive
    /\ armed
    /\ Settle([ran |-> progress.ran, failed |-> progress.failed, timedOut |-> TRUE])
    /\ UNCHANGED <<heard, registryVars, walkVars, accepting, signalled>>

\* SIGINT or SIGTERM while a sequence is under way, or after it: exit at once.
SecondSignal ==
    /\ Alive
    /\ stage # "idle"
    /\ exit' = "degraded"
    /\ UNCHANGED <<heard, registryVars, walkVars, accepting, report, armed, signalled>>

-----------------------------------------------------------------------------
Next == \/ \E h \in Hook : Register(h)
        \/ \E h \in Disposable : Announce(h)
        \/ \E h \in Disposable : Withdraw(h)
        \/ \E bySignal \in BOOLEAN : Begin(bySignal)
        \/ \E result \in {"done", "failed"} : EarlyEnds(result)
        \/ Drained
        \/ DrainFails
        \/ Announced
        \/ \E result \in {"done", "failed"} : HookEnds(result)
        \/ Deadline
        \/ SecondSignal

Spec == Init /\ [][Next]_vars

\* Only the deadline's timer is relied on: hooks and the drain may hang.
FairSpec == Spec /\ WF_vars(Deadline)

-----------------------------------------------------------------------------
Ended(h) == status[h] \in {"done", "failed"}

\* The hooks the early band took out of the list.
Taken == {h \in Hook : rank[h] # 0} \ entries

TypeOK ==
    /\ heard \in [Disposable -> Nat]
    /\ entries \subseteq Hook
    /\ rank \in [Hook -> Nat]
    /\ turn \in Nat
    /\ frozen \in BOOLEAN
    /\ status \in [Hook -> Status]
    /\ stage \in Stage
    /\ batch \subseteq Hook
    /\ running \in Hook \cup {NoHook}
    /\ accepting \in BOOLEAN
    /\ failed \in Seq(Hook)
    /\ progress \in Tally
    /\ report \in Report \cup {NoReport, Rejected}
    /\ armed \in BOOLEAN
    /\ signalled \in BOOLEAN
    /\ exit \in {"alive", "clean", "degraded"}
    /\ running # NoHook <=> stage \in {"early", "hooks"}
    /\ frozen <=> stage \in {"hooks", "over"}
    /\ armed <=> stage # "idle" /\ report = NoReport
    /\ stage = "idle" => report = NoReport
    /\ stage \in {"over", "broken"} => report # NoReport

\* Hooks run one after the other, never concurrently, whatever was registered
\* or timed out meanwhile: when a hook has started, those before it -- the early
\* band, then lower priorities, then earlier registrations -- have ended ("a
\* hook at a higher priority may depend on a lower one having finished").
Precedes(g, h) == \/ g \in Taken /\ h \in entries
                  \/ /\ {g, h} \subseteq Taken \/ {g, h} \subseteq entries
                     /\ Before(rank, g, h)

InOrder == \A g, h \in Taken \cup entries :
               Precedes(g, h) /\ status[h] # "waiting" => Ended(g)

\* No hook runs while requests may still arrive, unless it asked for the early
\* band by name ("a hook that ran before this could tear down a resource that
\* an arriving request is about to use").
ServerFirst == \A h \in Hook : status[h] # "waiting" /\ priority[h] > Predrain => ~accepting

\* A hook starts at most once, and only when registered: whatever mixture of
\* bands, announcements, callers and signals led to it ("ten calls, one
\* teardown").
StartsOnce ==
    [][\A h \in Hook :
          /\ status'[h] = "running" /\ status[h] # "running"
                => status[h] = "waiting" /\ rank'[h] # 0
          /\ Ended(h) => status'[h] = status[h]]_vars

Started == {h \in entries : status[h] # "waiting"}

\* What a report says of the registry's hooks is what became of them by then: as
\* many as it says were attempted, it names those that threw in the order they
\* ran, and when the deadline had not expired all of them were attempted.
Tells(r) ==
    /\ r.ran = Cardinality(Started)
    /\ \A h \in entries : status[h] = "failed" <=> \E i \in 1..Len(r.failed) : r.failed[i] = h
    /\ \A i, j \in 1..Len(r.failed) : i < j => Before(rank, r.failed[i], r.failed[j])
    /\ ~r.timedOut => \A h \in entries : Ended(h)

ReportTells == [][report' # report /\ report' \in Report => Tells(report)']_vars

\* A process that exits with 0 has run every hook left after the early band, and
\* none of them threw ("0 when every teardown ran clean").
ExitTells == exit = "clean" => frozen /\ \A h \in entries : status[h] = "done"

\* Though hooks, listeners and the drain may hang, run() settles, and a process
\* that was signalled exits ("the whole sequence is bounded").
Bounded == /\ stage # "idle" ~> report # NoReport \/ exit # "alive"
           /\ signalled ~> exit # "alive"
=============================================================================
