# Lockness: a verification project

Lockness is a TypeScript web framework for Deno, published as a set of packages
(`packages/*`).  Most of it is stateless within a request: routing, views,
validation, mail, generators.  The parts worth a formal model are the ones that
live across requests and share state with timers, other callbacks, other
processes and stores: the scheduler and its distributed lock, the job queue, the
shutdown of the kernel, the Redis connections, the real-time drivers, sessions
and the cache.

This directory models them in TLA+, checks them with TLC and proves the main
results with TLAPS.  Paths below are relative to the repository's `packages/`
directory unless they start with `docs/`; `PROJECT.json` names the exact lines each
definition stands for.

Contents: 1 inventory; 2 the modules and the code; 3 the runs; 4 the proofs;
5 what the code does otherwise than it says; 6 what is not modelled; 7 the plan;
8 how to run.

## 1. Inventory

JavaScript runs one callback at a time, so everything below interleaves only at
`await`s, timer callbacks, and commands of other processes on a shared store.

| Component | State it keeps | Operations | Talks to | What is hard | What makes it correct |
|---|---|---|---|---|---|
| Scheduler timers `scheduler/timer_registry.ts` | map key -> pending handle, map key -> resolver of a sleeping promise | `arm`, `sleep`, `cancel`, `clear`, the `setTimeout` callback | the scheduler; the platform's 32-bit timers | two maps that must agree; delays waited in legs | never early; a sleeper is settled by whatever removes its timer |
| Scheduler `scheduler/scheduler.ts`, `task_runner.ts` | tasks (paused, running slot, generation, next run), started / stopped, runs in progress | `register`, `start`, `stop`, `pause`, `resume`, `runNow`; occurrences; retries with backoff | timers, the lock, user callbacks | occurrences arriving in mid-run and mid-backoff; API calls at every await; state read before `await acquire()` | timers match tasks; `overlap: 'skip'` runs one at a time; every run ends |
| Scheduler lock `scheduler/memory_lock.ts`, `core/scheduler/locks.ts` | claims in a store, `#owned` tokens per replica | `acquire`, `release` of three adapters | Redis, Deno KV | lost replies, TTLs passing under a run, crashes, read-then-delete | a live claim stands; no two runs at once within a TTL |
| Job queue `queue/worker.ts`, `dispatch.ts`, `drivers/*` | queue, dead letters, the record in a worker's hands | dispatch, `pop`, `handle`, `fail`, `deadLetter`, purge, `listFailed`, `retryFailed`, `clear` | Redis scripts, Deno KV transactions, user jobs | racing claims and revivals, loops that die with a job, purge by id | one copy of a job; attempts are tries; what is queued settles |
| Kernel shutdown `core/kernel/shutdown_*.ts`, `signals.ts` | hooks by priority, memoised run, deadline timer, progress | `register`, `run`, `runBand`, signals | disposables, the HTTP server, every stateful package | a deadline racing hooks that go on; late registrations; an early band | each hook once, in order; the report tells what happened; the process exits |
| Disposables `contract/lifecycle/disposables.ts` | a process-wide set | register, withdraw, drain | drivers, shutdown | registration after the drain | taken whole once |
| Deno KV handles `queue`, `session`, `cache` drivers | memoised open, handle | `getKv`, `close` | Deno KV | open in flight during close | no handle left open, none used after close |
| Redis client `redis/client.ts`, `connection.ts` | one socket, its dial, the chain of commands, failure streak and refusal window, shutdown handle | `command`, `connect`, `close` | Redis; the session, queue, cache and lock drivers | faults behind queued commands; frames carried out after their caller was told; `close()` amid dials | each reply goes to its command; a flapping server is not dialled without pause; no open socket escapes the shutdown |
| Redis subscriber `redis/subscriber.ts`, `connection.ts` | names wanted; one socket's generation: claimed, acknowledged, write chain, keepalive; retry timer, reconnect intent | `psubscribe`, `subscribeOne`, `unsubscribeOne`, `close`; activation, read loop, keepalive, retry | Redis; the broadcast drivers' reconnect handlers | callbacks of an older socket; acknowledgements that come late; several causes folded into one retry | what the socket is recorded to have is what Redis will have; nothing wanted is forgotten; an outage is reported |
| Realtime runs `realtime/roster_read_barrier.ts`, `drivers/lapse_run.ts`, `roster_maintenance_run.ts`, `close_drain.ts`, `enforcement_deadline.ts` | batches per channel; one run and one trailing run; one budget | ask, open, settle; trigger, close; wait | manager and Redis driver | freshness of a shared read; a trigger during a run; three waits on one budget | a caller is answered by a read issued after it asked; a trigger is never swallowed |
| Realtime replay window `realtime/control_replay_window.ts` | seen frames by origin | admit, expire, evict | drivers | the cap | a frame is admitted once while it is remembered |
| Realtime channel manager `realtime/manager.ts` | sockets by id, channels by id, ids by channel, presence members, write tails per slot, owed releases, revocation tail | hooks of a socket, `subscribe`, `unsubscribe`, `disconnect`, `evict`, `revokeChannel`; rechecks, re-assertion, drain | the application's authorizer, a driver | a socket that goes, or is replaced under its id, during any await; revocations whose frame is lost; a write that fails after the caller has gone on | nothing outlives its socket or passes to the next one; revocations reach; no ghost and no lost member |
| Realtime drivers `realtime/drivers/redis.ts`, `memory.ts` | roster hashes and sets in Redis, liveness keys, revocation records, pass timers | three roster scripts, heartbeat, sweep, reconcile pass | Redis | scripts of many instances in any order; keys that lapse under a living instance; lost replies; crashes | the roster stays consistent; only dead instances are swept; the roster converges |
| Sessions `session/*` | records per session id | read, save, regenerate, destroy | three stores | two requests on one session | a destroyed session does not come back |
| Cache `cache/*` | entries, tag sets | `add`, `remember`, tags, invalidation | three stores | test-then-set, compute-then-store, tag written after value | one winner of `add`; no value outlives its invalidation |
| Events, SSE `events/*`, `sse/*` | listeners; clients | emit, once; broadcast | user callbacks | a concurrent emit | a once-listener runs once |

The other packages (routing, views, validation, mail, CLI, database wrappers,
generators, documentation site, demo application) keep no state whose
interleavings matter; `PROJECT.json` lists each with the reason.  The hazards of
the code, each at its line, with the property that covers it or the module
planned for it, are listed there as well.

## 2. The modules and the code

```
   PendingTimers    OccurrenceLease                 JobLedger   RosterStore     OrderedCalls   what is promised
        ^                ^                              ^            ^               ^         (implemented by)
   TimerRegistry    SchedulerLock <- SchedulerFleet  JobQueue   PresenceRoster  RedisClient    what the code does
        : (abstracted in)
   Scheduler        Shutdown    RosterReadBarrier    RedisSubscriber    ChannelMembership
```

### TimerRegistry, PendingTimers

`TimerRegistry` is the class of that name, one action per method (`Arm`, `Sleep`,
`Cancel`, `Clear`) and two for the `setTimeout` callback (`NextLeg` when some delay
is left, `Fire` when none is).  `entries` and `resolvers` are `#entries` and
`#resolvers`; `ArmLeg` is `#armLeg`, `Clamp` the minimum of `arm()`, and
`SetTimeout` the platform's rule that a delay above 2^31-1 ms fires at once.  Time
is a countdown (`Tick`).  `owed` is a history variable: what is left of the delay
the caller asked for.

`PendingTimers` is what the scheduler relies on: a timer waits its whole delay in
one piece, and whatever removes it settles its sleeper.  The refinement maps an
entry to its key's `owed` and `resolvers`, so it says both that legs add up and
that the two maps agree.

### Scheduler

One action per public method, per timer callback and per continuation of a run:
the code between two awaits.  `running`, `paused` and `nextRunAt` are the fields of a
`Task`; `armed` and `sleeper` are the registry's keys `schedule:<name>` and
`retry:<name>`, used as `PendingTimers` allows.  A run captures its task's
generation and compares it later for equality only, so the model keeps the set
`superseded` of runs whose captured generation is no longer the task's.

Times, cron expressions, counters and reports are left out: an armed timer may
fire at any moment and a body takes any time, which covers every schedule, backoff
and duration.  Two details of the event loop are kept because the results
depend on them: a timer callback starts only when no microtask is pending
(`Drained`), and several runs that start in one callback start in one step.

### SchedulerLock, OccurrenceLease, SchedulerFleet

`SchedulerLock` models the three adapters against their one caller, `#run`.  `Claim`
is `SET NX PX` or `check(null).set()`, `Won`/`Lost` the answer, `Unreachable` a command or
answer that got lost, `Release`, `Read`, `Delete` the compare-and-delete script or
the read-then-checked-delete, `Lapse` a TTL, `Crash` the death of a replica with its
`#owned` map.  `OccurrenceLease` is the promise of the `SchedulerLock` interface.
`SchedulerFleet` adds the wall clock in minutes, each replica's schedule timer and
`runNow()` (`Fire`, `RunNow`, both by `AskNow`); every step of the fleet is a step of the lock.

A replica has any number of runs: `overlap: 'allow'`, `runNow()` and a release still
under way all let a second one ask.  `#owned` keeps one token per occurrence, so when a
replica claims an occurrence anew while a run of its own is at work on it, which takes
a TTL that has passed, the two runs release each other's claims.  The history variable
`doubled` records such pairs of replica and occurrence, `Sole(r)` is their absence, and
what the module and the lease promise is promised to `Sole` runs.

Left out: a Redis frame carried out after its caller was told of a fault (see
`PresenceRoster`).  A late claim is nobody's and blocks its occurrence until its TTL, as one
whose answer is lost does (`Unreachable`); a late delete compares tokens, and finds its own
claim, whose run is over, or nothing.

### JobQueue, JobLedger

`JobQueue` is the worker loop (`Pop` or `Look`/`Take`, `Begin`, `Succeeds`, `Fails`,
`Requeue`, `Bury`, the purge, `HookEnds`), the operators' calls and the three
drivers, chosen in `Init`.  A Redis script or command is one step; the Deno KV
driver's read and its version-checked commit are two; the Redis purge reads the
hash, then deletes id by id.  Faults are a claim whose answer is lost
(`ClaimUnanswered`) and a loop that ends (`LoopDies`: a crash, or a rejection that
leaves `start()`).  `JobLedger` is the promise: where a job is, and how often it may be
tried.  Left out: a Redis command carried out after its caller was told of a fault.  A
late claim loses its job as one whose answer is lost does; a late push or burial puts
back the one copy of a job whose loop ended with it.

### Shutdown

`Shutdown` is the sequence of `shutdown_sequence.ts` as a chain of stages, with the
registry it walks, the signal handlers and the process-wide set of disposables.
`entries`, `frozen` and `progress` are `#entries`, `#started` and `#progress`; `heard` is the
set of disposables, in the order they came.  `#execute` of the registry walks an
ordered list twice, for the early band and for the rest: `batch` is what is left of
the list and `running` the hook awaited, so each walk is a start (`Begin`, `Announced`)
and an end per hook (`EarlyEnds`, `HookEnds`).  Registration order is a number, `rank`.
The server's drain ends or rejects (`Drained`, `DrainFails`); the listeners of
`KernelTerminating` take any time, and their own budget makes no difference to what
happens next, so both are in `Announced`.  `Deadline` may come at any moment while the
timer is armed, and the sequence goes on after it, as it does in the code.

### RosterReadBarrier

The reads of one channel's roster (`realtime/roster_read_barrier.ts`): one in
flight, the rest queued in batches of member ids.  `AskFirst` and `AskQueued` are
`snapshot()` without and with a slot, `BatchFor` is `#batchFor`, `ReadSettles` the end of a
read, good or bad, with what `#watch` does next (`Unindexed`, `Promote`).  Batches are
numbered as they are opened, reads as they are issued; `askedAt` is a history
variable.

### RosterStore, PresenceRoster

`RosterStore` is the presence roster as Redis keeps it: the three Lua scripts of
`drivers/redis.ts`, one step each, and the liveness keys.  A slot is one member of
one channel, and an entry is told by the instance that wrote it.  As a
specification (`StoreSpec`) it is also the promise: whatever instances do, Redis
sees nothing but these scripts.

`PresenceRoster` is several instances that share it.  On each of them the manager
joins and leaves (`Join`, `Leave`, up to the watch or unwatch they await; `Enqueue` into
the slot's tail), writes what is wanted when the write's turn comes (`StartWrite`,
`SendWrite`, `WriteReply`, `WriteFails`, `Settle`), compensates a join that failed,
records a release it owes (`RecordOwed`), drains what is owed and holds every slot
again after a lapse.  The driver beats (`BeatDue` to `BeatEnds`), sweeps the holds of
instances whose key is gone (`SweepSelects` to `SweepDeregisters`) and announces what its
replies tell it.  `LapseRun` and `DrainRun` are the two run-with-one-trailing-run
classes.  The faults: a command fails before it runs, a reply is lost after it
ran, a key lapses, an instance crashes.

A command that fails before it runs may still run later: the client gives up its
socket with the frame already written (`redis/client.ts:317-326`), and the server carries
it out after other commands of the same instance, sent on the next socket, or never.
`GivenUp` puts such a command into `adrift`, for every kind of command the instance sends;
`CarriedOutLate` is its effect, in the store alone, at any later moment, also after a
crash; its reply counts as lost.  A late hold or release can undo what the instance
wrote meanwhile; a late heartbeat can renew a key that had lapsed, so that the next one
finds nothing to repair.  The history variable `astray` keeps the slots so put wrong, until the
instance writes them again.  A late sweep, registration or deregistration puts nothing
wrong: the scripts ask again who lives and what is owned.

An instance sends one command at a time (`wire`), and which of its callers is next
is left open: the client's queue is one of those orders.  Left out: overlapping
beats, keys of a foreign type (which the scripts heal), the cap of 1000 owed
releases, `close()`, the rechecks of revocations inside a re-assertion.  A pass over
several dead instances is several passes; a drain with nothing owed is
skipped; the `EXISTS` and `SSCAN` that authorise no write are one step.

### RedisClient, OrderedCalls

`RedisClient` is the command client of one connection.  `tail` is `commandTail`, one
entry per link of that chain, and `step` how far its first link is: `Refuse`, `BeginOnSocket`
and `BeginDial` are what `#serializedExchange` does until it waits, `ReadReply`, `ReadError` and
`Fault` what it does after; `NothingToQuit`, `SendQuit` and `QuitEnds` are the link of `close()`.
`CallConnect` dials outside the chain, and `DialSucceeds` and `DialFails` resume whoever
waits for the one dial.  `Discard` and `Enrol` are the two things everything shares: giving
a socket up, and the handle the shutdown holds.

A reply carries nothing that says whose it is, so `outbox` is a queue and `got`
records what each caller was given.  `Fault` gives up a socket with the frames the
server has not read; `ServerReadsLate` may still carry them out (`adrift`).  Times are
two flags, `window` and `aged`.  `OrderedCalls` is the promise to the drivers: one request
at a time, in order; an answered request was carried out once, a failed one at
most once, perhaps later.

`unproven`, `served` and `cooling` are history variables: they count faults and replies by
what happened on the wire, where the code counts with `#attempts`, `#liveConn` and
`#successesOnConn`.  A reply is read whole or not at all (section 5).  The shutdown's
call of the handle is a `close()`.

### RedisSubscriber

One subscribe-mode connection (`redis/subscriber.ts`).  `Psubscribe`, `SubscribeOne`,
`UnsubscribeOne` and `Close` are the calls.  An activation is one run of `#activate()`: it
suspends at the dial (`Opens`, then `Resume`), at each write and at the reconnect
handler (`Tell`, `HandlerReturns`), and runs without interruption in between, which
`Settled` enforces.  `gen` is the `SocketGeneration`: what is claimed, what is
acknowledged, and the write chain.  `KeepaliveStalls`, `LoopFaults`, `LoopStops`,
`WriteFails` and `WriteAbandoned` are the ways an outage shows, `ScheduleRetry` where they
meet, `peer` what Redis has and will answer.  `PeerGone` loses the peer in silence.

A frame's landing and its effect in Redis are one step.  Left out: backoff
delays, attempt counters, log throttling, oversized frames, the steps of the
handshake, `PING`s in the write chain (a keepalive may stall at any time), the
wait of `close()` for the read loop.  A name is subscribed in one way only, and the
handler is always there and returns.

### ChannelMembership

Who is in which channel on one instance: the manager's maps `connections`
(`bound`), `subscriptions`, `channelsByClient` and `#retired`, all keyed by connection id
or, for `#retired`, by object, which is the point: two sockets may present one id.
`Opens` and `Closed` are the hooks; `Subscribe` and `Authorized` the two halves of
`subscribe()` around the authorizer; `Begin`, `Advance` and `LeavesNext` the teardown with one
await per channel.  `Revoke`, `MarkLands`, `MarkFails` and `Proceeds` are the steps of `evict()`
and `revokeChannel()`, made here or on another instance; `FrameArrives` the control frame;
`RevokeLocal`, `RevokeChannelLocal` and `ClearRevocation` their effect; `PassReads`, `PassApplies`
and `PassEnds` the reconcile pass, which the driver runs one at a time.

Presence channels are `PresenceRoster`'s.  Left out: the share of the cap kept for
identified connections, frames to clients, the expiry of records, the paging of
the listing (it is read at one instant; a failed one changes nothing), a mark or a
clear carried out after its caller was told of a fault, the deprecated form of `disconnect()` by id, warnings.  In which order a teardown takes
the channels, and a pass the groups, is left open.  `joined` and `answered` are history
variables.

## 3. The runs

| Run | Shows | Instance |
|---|---|---|
| `timer_registry` | `ImplementsWholeTimers`: no timer fires early, no sleeper is left behind; `SleepEnds`: every sleep ends | 2 keys, 2 sleepers, delays 0, 2, 3, 5 with limits 1..2 and a platform limit of 3 |
| `scheduler` | `ArmedExactly`: timers match tasks; `ParkedIsAwaited`: no lost wake-up; `AtMostOneInFlight`; `RunsEnd` | a task that skips, one that overlaps under a lock, 3 runs, 1 retry |
| `scheduler_fleet` | `NoDoubleRunWithinTTL`, `ImplementsLease` | 3 replicas, one of them with 2 runs and `runNow()`, 2 minutes, 3 tokens, each adapter |
| `job_queue` | `OneCopy`, `AttemptsCounted`, `ImplementsLedger`; `JobsSettle` | jobs of 1 and 2 attempts, 2 workers, 2 operators, room for 1 dead letter, 1 revival, 1 fault, each driver |
| `shutdown` | `InOrder`, `StartsOnce`; `ReportTells`, `ExitTells`; `Bounded`: `run()` settles and a signalled process exits | 5 hooks (one of the early band, one at -1, one at 60; a disposable of the early band and one at 60), 4 registrations or announcements, with and without a server |
| `roster_reads` | `Fresh`; `EveryoneAnswered` | 5 callers (two tabs of a member, two more members, one of none), 2 ids to a read, 4 reads |
| `presence_roster` | `StoreConsistent`, `NoGhostOfTheLiving`, `NoLostMember`, `AnnouncedOnce`, `OnlyTheDeadAreSwept` | 2 instances, 1 member, 2 connections on one and 1 on the other; 3 calls and 2 troubles, 4 together |
| `presence_recovery` | `Converges`: the roster comes to be what the running instances have; `ImplementsStore` | 2 instances, 2 members, a connection of one on each and of the other on one; 2 calls and 2 troubles, 3 together |
| `redis_client` | `ImplementsCalls`: each caller gets its own reply or an error, in order; `NoOrphanSocket`; `RefusalsAreEarned`; `CallersSettle` | 5 commands (the third too large to send), 1 `close()`, 1 `connect()`, any number of faults |
| `redis_subscriber` | `WireMatchesRecord`, `NeverDeaf`, `ClosedHoldsNothing`; `Converges` | a control topic, a channel, a pattern; 3 activations; 3 calls and 2 faults, 4 together |
| `channel_membership` | `HeldByTheOwner`, `OnlyTheClosedAreTornDown`; `ClearedOnceApplied`; `RevocationsReach` | 2 sockets of one id, 1 channel that needs the authorizer, 1 subscribe in it, 2 revocations, 1 fault, frames lost at will |
| `scheduler_slot` | a defect (section 5) | as `scheduler` |

The type invariant of a module, which besides types relates the phase of each
process to what it holds, is proved of every module with a run (section 4).  Proved for every instance, and so not repeated
in the runs: `AwaitedIsArmed`, `LiveClaimStands`, `FetchesSelf`, `NoReadTooMany`.

**Bounds.**  The constraints on the instances are constants of the modules, named
with "bound" where they are declared, and appear in guards.

- Delays: the smallest below the minimum, one of exactly one leg, one of two and
  one of three, against a platform limit just above a leg, so that both limits bite.
- Three runs: a parked run, one that supersedes it, and one more that finds the
  slot taken.  One retry gives every attempt both a successor and a last one.
- Three replicas: a holder, a late releaser and a new claimant; the two runs of the
  first are one that lost its TTL and one that claims the same minute anew.  Tokens are
  as many as claims can be made, so a fourth claim is out of the instance.
- Four of the five hooks get registered: two walks of at least two hooks fit in
  one behaviour, with a registration after the early band has left, and two hooks
  of equal priority.
- One revival with two operators makes the revivals race; one fault puts a
  crash or a lost answer at every point of one behaviour.  The theorems
  have no such bounds: they hold for any number of each.
- Five callers and two ids to a read fill one queued batch and open the next,
  with a caller of no member in between.
- The roster: two instances are a sweeper and the one it takes for dead, or two
  that announce the same transition.  Two troubles are a lost reply and the lapse that hides
  it, or a crash and a failed sweep, or two commands adrift; with four events a late one
  can meet a join and a leave that came after it.  Two sweepers of one dead instance need
  a third: the proofs alone cover that.  `c1` and `c2`, two connections of one
  member and instance, are exchanged by symmetry, in the run without liveness.
- The client: five commands are two faults in a row, a dial that meets the window,
  and two successes that end the row; the frames of the first are then still
  adrift.  One `connect()` and one `close()` meet every state of the chain.
- The subscriber: one activation at each of its awaits while another call, a
  retry and a fault go by.
- The membership: one socket torn down while the other waits for its id; two
  revocations of one membership, of which a leave answers one or both.  With one
  channel the caps on channels do not bite and a teardown is one leave; the
  branch of public channels, a subscribe without its wait, is not taken.

**Fairness.**  Fairness is weak, unless it says otherwise.

- `TimerRegistry`: time passes and a callback that stays due is run, as an event
  loop does.  A cancelled or replaced timer owes nothing.
- `Scheduler`: lock calls and bodies settle (the code has its own timeout for
  bodies; the model lets a body take any finite time), backoffs end, microtasks
  run.  No API call is fair, and no occurrence: a stopped or paused scheduler may
  stay so.
- `JobQueue`: backoffs pass, a loop that ended is started again (by a
  supervisor; without that assumption nothing would be claimed), and a running
  loop goes on.  Operators and faults are not fair, and `Due` is fair per job.
- `RosterReadBarrier`: reads settle, as the store's own deadline sees to.
- `PresenceRoster`: replies arrive, timers fire, microtasks run; a dead instance's
  key expires.  What needs the instance's one client (a write, a beat, a step of a
  sweep) has strong fairness: the client serves its callers in the order they came,
  so none waits for ever while others are served.  One condition stands for the steps of
  one actor that exclude each other: a connection's queueing, a slot's local steps, a lapse run, a
  drain.  No late command is owed.
- `RedisClient`: the chain goes on; an exchange ends by its deadline (`READ_TIMEOUT_MS`) at the
  latest, with a reply or with a fault; a dial ends.  The last is an assumption on the
  platform, since this client sets no `handshakeTimeoutMs`.  The server owes nothing.
- `RedisSubscriber`: dials, writes and reads end, by their deadlines at the latest;
  the retry timer fires; the handler returns.
- `ChannelMembership`: teardowns go on, the pass runs and clears what it applied.
  No frame, call, clear of a call or authorizer is fair: `RevocationsReach` rests on the
  pass alone.
- `Shutdown`: the deadline's timer alone.  Hooks, listeners and the drain may hang,
  and no caller or signal is owed.

**Deadlock.**  It is checked for the timers and the scheduler.  The fleet
really stops after its last minute, the queue once every job has ended and the
shutdown once the process has, and the
real-time and Redis models when the bounds are used up, so these configurations switch the check off.

## 4. The proofs

Eight modules hold proofs, every leaf checked; that of the scheduler holds those of its
timers, and that of the roster those of the reads in front of it.  Every
safety property of the passing runs, invariant, action property or refinement, is a theorem.

| Module | Theorems | Inductive invariant |
|---|---|---|
| `SchedulerProofs` | `TypeCorrect`, `NoLostWakeUp`, `LiveTasksStayArmed`, `OneRunInFlight` | `TypeOK /\ ParkedIsAwaited`, then `ArmedExactly` and `AtMostOneInFlight` over it |
| of the timers | `TimersTypeCorrect`, `NeverEarly`, `NoSleeperLeftBehind`, `Refinement` | `TimersType`, `LegsCoverDelay` and `AwaitedIsArmed`, each inductive over `TimersType` |
| `SchedulerLockProofs` | `TypeCorrect`, `ClaimProtects`, `AtMostOnceWithinTTL`, `AtMostOnceBeforeALapse`, `Refinement`; of the fleet `FleetUsesLock`, `FleetAtMostOnceWithinTTL` | `LockInv`: claims are distinct, and of runs that are `Sole` the claim is the one `#owned` has and stands while it is live; doubles are noted, and need a lapse; in the fleet, the clock shows a minute that exists |
| `JobQueueProofs` | `TypeCorrect`, `OneCopyAlways`, `AttemptsAreTries`, `Refinement` | `IInv`: types, what was ever dispatched, the pairwise form of `OneCopy`, and `AttemptsCounted` |
| `ShutdownProofs` | `TypeCorrect`, `HooksRunInOrder`, `ServerStopsFirst`, `HooksStartOnce`, `ReportsTell`, `ExitCodeTells` | `IInv`: types, `Walks`, `Drains`, `Tallied` and `ExitTells` |
| `PresenceRosterProofs` | `StoreStaysConsistent`, `TypeCorrect`, `Refinement`, `RosterStaysConsistent`, `SweepsSpareTheLiving`, `NoGhosts`, `NoMemberIsLost`, `TransitionsAnnouncedOnce` | `StoreInv` for the scripts; `IInv` with `Wired` for the types; over them `GhostInv`, then `LossInv`; `Balanced` for the announcements |
| of the reads | `ReadsTypeCorrect`, `Freshness`, `SelfIsFetched`, `ReadsAreFull` | types, `Fresh`, `NoReadTooMany`, and who rides which batch (`Riders`, `Indexed`, `Sizes`, `Retired`) |
| `RedisClientProofs` | `TypeCorrect`, `SocketsAreOwned`, `WindowIsEarned`, `Refinement` | `IInv`: types, `Chain`, `Wire`, `Owned`, `Streak` |
| `RedisSubscriberProofs` | `TypeCorrect`, `RecordMatchesWire`, `NobodyIsForgotten`, `CloseIsFinal` | `IInv`: types, `Linked`, `Engaged`, `Queued`, `Shut`, `WireMatchesRecord` and `NeverDeaf` |
| `ChannelMembershipProofs` | `TypeCorrect`, `OwnersHold`, `TeardownsAreOwned`, `ClearsAreEarned` | `IInv`: types, `Owned`, `Recorded` |

Why the strengthenings are needed:


- A run is woken by removing the retry timer of its task, so that types alone
  are not inductive in `Scheduler`: that the woken run is a parked run of that task
  is `ParkedIsAwaited`.  One run in flight holds because whoever supersedes a
  *parked* run takes its slot over, while one that meets an *executing* run finds
  the slot held; the invariant therefore carries "and it holds the slot".
- In the lock, a release deletes the claim `#owned` names, not the one the run
  made.  `OwnsItsClaim` says that they are the same for a `Sole` run, and `DoublesAreNoted` that
  two runs of one replica at work on one occurrence are not `Sole`.  The theorems have no
  hypothesis on the number of runs.  What the exception costs is bounded by
  `DoublesNeedALapse`: an occurrence is doubled only after a TTL passed under a run of it.
  `AtMostOnceBeforeALapse` therefore has no exception: until a claim outlives its TTL,
  an occurrence has one run at work.
- In the queue, `OneCopy` quantifies over three kinds of places; the proof uses the
  form in which every pair of copies, wherever they are, is the same.  The
  Deno KV steps carry an entry read earlier, harmless because the commit's check
  is membership of exactly that entry: `life` stands for the versionstamp.
- In the shutdown, order is a statement about any two hooks, but a step moves one:
  `Walked` says of the list in hand that what has ended precedes the hook awaited,
  which precedes what waits.  A report may be made at any moment by the deadline,
  so `Tallied` ties the progress published to the statuses at every state.

- In the barrier, that a caller is answered by a fresh read follows from its
  batch not having been issued when it joined; that holds because the index of
  ids names queued batches only, which is what `Unindexed` keeps true.
- The store's consistency is proved of the scripts alone, in any order and from
  any sender.  That the instances keep it, late commands included, is then the refinement,
  and not a proof about instances.
- A late command is none of the steps an instance takes, so nothing accounts for what it
  does: `Known` is a hold, and `Missing` the absence of one, that no late command has had
  a part in since the slot was last written, and `GhostInv` and `LossInv` speak of those.  That a
  late step makes nothing known and nothing missing needs the agreement of the holders with the
  owned sets, which the store's consistency gives.
- `NoGhostOfTheLiving` allows a release under way, but a release may be a lapse's or
  a drain's, whose failure nobody records.  `Accounted` is stronger: a *call's*
  release, which is recorded as owed when it fails.  `Overtaken` is
  what a step needs to keep it: a hold under way whose members have left has a
  call behind it.  `Filed` says whose calls a tail holds.
- A member is restored, after a lapse took its hold, by a write that waits, a lapse
  being worked off, or a drain.  `LossInv` says of every slot which of them (`Regained`).
  A write already on the wire does not count among them if it is a release, and
  before an instance has sent its first hold no lapse is noticed, so there the write
  itself must be due.  `Drained` is the drain's half: what it has in hand stays owed until
  it is settled.
- That a transition is announced once is a count.  `Balanced` says, for one slot, that
  what was announced, what was lost with a reply, and what the replies on the wire will
  announce (`Coming`), add up to whether anybody holds the slot.
- In the subscriber, each property needs the others.  A wanted name that is not on
  the socket is safe because a dial has somebody waiting for it and an activation
  past its dial stands on the live socket (`Engaged`), which holds because giving a
  socket up leaves nothing of it (`Linked`).  The record agrees with the wire because a frame
  in the queue is the one its activation waits for (`Queued`), so that no
  activation moves on with a frame behind it.  After `close()`, a socket exists only in the
  hands of a dial that has not looked at `closed` yet (`Shut`).
- In the membership, that what a connection holds is the owner's is not inductive: a
  teardown under way takes channels of an id that may have changed hands.
  `Owned` adds that the map of connections and a socket's stage agree
  (`Registered`), that a teardown is the closed socket's, and that a socket has one, with
  every channel its id is in still before it (`OneTeardown`).  For `ClearedOnceApplied`, `Recorded`
  adds that a mark is of one call and one pair of id and channel, and that whoever is
  about to clear a mark still in the store has answered it.
- In the client, that a reply is the reader's own is a statement about the wire as
  a whole.  `Wire` says where the one frame of an exchange is: in the inbox, or
  its reply alone in the outbox, or, when nothing is being exchanged, nowhere;
  and that what is adrift belongs to callers who were told of a fault.  `Owned` relates
  the field `#handle` to the registration, and `Streak` the code's counters to the
  history of faults and replies.

The assumptions are those named in the modules: the limits are positive and a leg
is within what the platform waits; options name tasks that exist; the hooks and the instances of
the roster are finitely many; the bounds of the membership are numbers; sentinel values
are not members of the sets they are added to.

Only model-checked: the liveness properties (`SleepEnds`, `RunsEnd`,
`JobsSettle`, `Bounded`, `EveryoneAnswered`, `CallersSettle`, the two `Converges`,
`RevocationsReach`), which are out of the prover's reach under fairness, and the violation.

## 5. What the code does otherwise than it says

One is a run that TLC must find violated; `PROJECT.json` quotes both sides.

- `scheduler_slot` (a defect): an occurrence that arrives while a body executes
  bumps the generation, then is skipped.  The body's end sees another generation and
  leaves `running` set for ever: the task never runs again in that process.

The others were met while modelling; the models show the behaviours, and no run
is kept for them.

- `locks.ts:81-89` checks the owner of a claim by the replica's token for the occurrence.  When
  a run outlives its TTL and its replica claims the same minute anew (`runNow()`, `'allow'`), the
  first release takes the second run's token and deletes its live claim, though
  `SchedulerLock` promises that a claim re-acquired survives; another replica may then
  run the occurrence as well (`doubled`).
- A hold or a release that timed out, carried out after the slot was written again, leaves
  a member on the roster after its leave, or takes one off who is here; a late heartbeat can
  hide a lapse.  No beat, drain or sweep repairs it before the slot's next write.  The comment at
  `manager.ts:2254-2260` means to exclude the first: it asks for the removal because
  the sweep of a healthy process's orphan "is never", but reckons only with a reply
  lost after the commit.

- A body that fails after `stop()` arms its backoff on the stopped scheduler, though
  "nothing will arm again" (`scheduler.ts:336-338`).
- With `onOneServer`, the slot is tested before `acquire()` is awaited and taken after
  it, so two runs of a `'skip'` task execute at once (`docs/DOCS.md:179`).
- The claim is released when the run ends, so a replica whose timer fires later in
  the same minute runs the occurrence again (`scheduler.ts:499-503`).
- A job leaves the Deno KV store when it is handed out; a process that stops before
  `fail()` or `deadLetter()` loses it (`docs/DOCS.md:219`).
- The Redis purge of dead letters deletes by job id what it read as expired, and may
  delete the fresh dead letter of a job revived in between (`redis.ts:214-219`).
- What the early band's `runBand()` returns is discarded, so a process whose early hook
  threw exits with 0 (`docs/lifecycle-events.md:466-467`).
- `signals.ts:104` says that `run()` never rejects; it does when the server's promise, or
  its `shutdown()`, rejects (`DrainFails`), after which no hook is run; the handler's
  `catch` then exits with 1.  And the first signal after a shutdown the program
  began is treated as a second one.
- A connection joins a presence channel, leaves while the first join's write is in
  flight, and joins again.  When that first write fails, its compensation takes back
  the second join's claim, whose `subscribe` still answers `ok`; the comment at
  `manager.ts:2201-2205` says that the call "is provably the one that created both".
- A dial or an `AUTH` that fails counts as no failure: `connect()` is awaited outside
  the `try` (`client.ts:285`), so no window follows however many dials fail, while
  `client.ts:348-359` speaks of bounding the dials of a wedged peer (`DialFails`).
- `close()` while a dial begun by `connect()` is under way finds no socket in its turn and
  resolves; the dial then opens one and enrols it again.  `client.ts:432-448` says that
  it resolves once the socket is closed.  `NoOrphanSocket` says what is left: the
  shutdown has that socket's handle.
- An array reply with an error among its elements makes the parser throw in the middle
  of it, as it does after a whole error reply, and the socket is kept with the rest
  unread (`resp.ts:819-826`).  No command of the repository has such a reply; the
  model takes replies as read whole.
- After an outage, a `subscribeOne` that dials before the retry does calls the
  reconnect handler with the control topic not subscribed, and the retry that
  subscribes it calls nothing (`subscriber.ts:1184-1191`, `redis/README.md:51-53`).
- `redis/README.md:57-62` says that delivery resumes before the handler completes;
  when the handler is called from within the write loop (`subscriber.ts:1199`), it is
  awaited before the read loop starts.
- A `subscribe` that waits for the authorizer while a revocation leaves the same
  channel finds, when it joins, that the leave has cleared the record that was to
  catch it; the comment at `manager.ts:4009-4020` reasons about the revocation that
  finds nothing to leave.

The passing properties state what does hold beside these: for instance
`AtMostOneInFlight` excludes tasks under a lock, `NoDoubleRunWithinTTL` speaks of
runs at work together and not of one after the other, and excepts the replicas that
doubled an occurrence; the roster's properties except what a late command put
wrong; and `JobLedger` lets a held job be over without saying why.

## 6. What is not modelled

In the modelled components: dates, cron arithmetic, durations and the order of
timers (any order is allowed); statistics, run ids, reports, warnings and hooks that
only observe; `setLock()` and `setReporter()`, called at boot; the
execution of a timed-out body that ignores its abort signal (its run goes on
without it); the loop control of the worker (`stop`, `maxJobs`, `stopWhenEmpty`) and
the Deno KV handle, which are planned; `size()`, which reads; `setServer()` and
`setDeadlineMs()`, called at boot; a hook of the early band that calls `run()` in its
synchronous part, when the memo is not yet assigned; several applications of one
process that share the disposables.  What the real-time and Redis models leave out
is said with each in section 2; besides, publication and broadcast of messages,
the memory driver, roster reads of the Redis driver, the close drain and the
enforcement deadline are not modelled.

The other components of section 1 are the plan; those of `PROJECT.json` that are
not in it have no interleavings of interest, are pure functions, or are I/O.

## 7. The plan

Done: steps 1 to 7, most important first.

1. Timers, scheduler, lock and fleet, with their promises and proofs.
2. The job queue with its ledger and proofs.
3. `Shutdown` and its proofs.  An abstract `ShutdownPromise` was weighed and left out:
   `InOrder`, `StartsOnce` and `ReportTells` say what it would.
4. `RosterReadBarrier` and its proofs.
5. `RosterStore` and `PresenceRoster`, the refinement, and the proofs of consistency, of
   sparing the living, of the absence of ghosts and of losses, and of the announcements.
6. `RedisSubscriber` and `ChannelMembership`, with the proofs of all their safety properties.
7. `RedisClient`, its promise `OrderedCalls`, and the proofs of the refinement, of the
   handle and of the refusal window.

Next:

8. An abstract promise of `RedisSubscriber`, a set of names that Redis has or will have,
   and the proof that the connection implements it.
9. The composition of `ChannelMembership` with `PresenceRoster` for presence channels, and
   of `RedisSubscriber` with the passes its reconnect handler starts.
10. `KvHandle`: the memoised open and the close shared by three drivers, then its
   composition with `Shutdown` and a worker's loop control.
11. `Cache` and `Sessions`: concurrent callers over a store.  `add()` and its use as a
   lock, `remember()` against invalidation, tags; a save after a destroy.
12. `ReplayWindow`, `CloseDrain`, `Events`, and the cron parser against a reference
   definition.

## 8. How to run

`tlc -workers 2 -config <cfg> <module>` for each run of `PROJECT.json`
(the modules named `MC...`).  The fleet takes about three
minutes, the queue, the roster, the client, the subscriber and the membership one or two each, the
others seconds.
`tlapm <module>` for the eight modules named `...Proofs`.  The definitions commented "Bug:" are variants of the definition after them: replacing it by
the variant must make the property named in `PROJECT.json` fail, which shows
that the property depends on that code.
