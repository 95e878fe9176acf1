---------------------------- MODULE PresenceRoster ----------------------------
(***************************************************************************)
(* Instances of the realtime service that share one Redis roster.  On each *)
(* instance the channel manager keeps the presence of its own connections  *)
(* and writes it through one tail per slot (manager.ts, #syncRosterMember);*)
(* the Redis driver renews the instance's liveness key, finds out that the *)
(* key had lapsed, sweeps the holds of dead instances, and retries the     *)
(* releases still owed.  An instance's commands go one at a time over one  *)
(* client (wire); the order in which its callers queue there is left open. *)
(* The reply of a command may be lost after it ran.  A command that fails  *)
(* before it runs is given up with its socket (redis/client.ts, discard),  *)
(* but its frame may be written by then: it runs later or never (adrift).  *)
(***************************************************************************)
EXTENDS RosterStore, Integers, Sequences, FiniteSets

CONSTANTS Conn, homeOf, slotOf,     \* a connection, its instance and its slot
          None,                     \* no connection, slot or instance
          MaxCalls, MaxTroubles,    \* bounds, each and
          MaxEvents                 \* together

ASSUME RosterAssumption == /\ IsFiniteSet(Instance)
                           /\ homeOf \in [Conn -> Instance]
                           /\ slotOf \in [Conn -> Slot]
                           /\ None \notin Conn \cup Slot \cup Instance

VARIABLES up,           \* instances that run
          local,        \* connections in their instance's presence map
          waiting,      \* calls that await the channel's watch or unwatch
          tail,         \* tail[i][s]: the writes queued for a slot
          step,         \* step[i][s]: how far the first of them has got
          wire,         \* wire[i]: the reply on its way to the instance
          started,      \* the sweep and the heartbeat: "no", "boot", "yes"
          holdIssued,   \* instances that have sent a hold
          beat,         \* beat[i]: the heartbeat in progress, or its outcome
          suspected,    \* instances that suspect a lapse
          lapse,        \* lapse[i]: the run that holds every slot again
          owed,         \* owed[i]: slots whose release could not be written
          drain,        \* drain[i]: the run that retries them
          sweep,        \* sweep[i]: the pass over a dead instance
          announced,    \* history: "joined" less "left", by slot
          lost,         \* history: transitions whose reply nobody read
          adrift,       \* commands given up that Redis may yet carry out
          astray,       \* history: astray[i]: slots such a command has put
                        \* wrong since the instance last wrote them
          used          \* bounds: calls; failures, lapses and crashes

membership == <<local, waiting>>
writes == <<tail, step>>
beating == <<started, holdIssued, beat, suspected>>
runs == <<lapse, owed, drain>>
history == <<announced, lost, adrift, astray>>
vars == <<storeVars, up, membership, writes, wire, beating, runs, sweep,
          history, used>>

-----------------------------------------------------------------------------
Job == [kind : {"join", "leave", "reclaim"}, conn : Conn]
       \cup [kind : {"lapse", "drain"}, conn : {None}]

Command == [op : {"hold", "release", "sweep"},
            of : Instance, slot : Slot, no : Nat]
           \cup [op : {"renew", "register", "deregister"},
                 of : Instance, slot : {None}, no : Nat]

Quiet == [op |-> "none", slot |-> None, reply |-> "none"]
NoLapse == [state |-> "off", left |-> {}, at |-> None,
            failed |-> FALSE, trailing |-> FALSE]
NoDrain == [on |-> FALSE, left |-> {}, at |-> None,
            fresh |-> {}, trailing |-> FALSE]
NoSweep == [target |-> None, todo |-> {}]

RosterInit == /\ StoreInit
              /\ up = Instance
              /\ local = {}
              /\ waiting = {}
              /\ tail = [i \in Instance |-> [s \in Slot |-> <<>>]]
              /\ step = [i \in Instance |-> [s \in Slot |-> "idle"]]
              /\ wire = [i \in Instance |-> Quiet]
              /\ started = [i \in Instance |-> "no"]
              /\ holdIssued = {}
              /\ beat = [i \in Instance |-> "idle"]
              /\ suspected = {}
              /\ lapse = [i \in Instance |-> NoLapse]
              /\ owed = [i \in Instance |-> {}]
              /\ drain = [i \in Instance |-> NoDrain]
              /\ sweep = [i \in Instance |-> NoSweep]
              /\ announced = [s \in Slot |-> 0]
              /\ lost = [s \in Slot |-> 0]
              /\ adrift = {}
              /\ astray = [i \in Instance |-> {}]
              /\ used = [calls |-> 0, troubles |-> 0]

\* What #localRoster finds: some connection of the member is here.
Desired(i, s) == \E c \in local : homeOf[c] = i /\ slotOf[c] = s

Idle(i) == i \in up /\ wire[i] = Quiet

MayCall == /\ used.calls < MaxCalls
           /\ used.calls + used.troubles < MaxEvents
Troubled == /\ used.troubles < MaxTroubles
            /\ used.calls + used.troubles < MaxEvents

Spend(what) == used' = [used EXCEPT ![what] = @ + 1]

\* The caller of a command has been told that it failed; "no" tells equal ones
\* apart.
GivenUp(op, of, slot) == adrift' = adrift \cup
             {[op |-> op, of |-> of, slot |-> slot, no |-> used.troubles]}

\* The transition a reply reports: the slot filled or emptied.
Change(reply) == CASE reply = "arrived" -> 1
                   [] reply = "emptied" -> -1
                   [] OTHER -> 0

\* #announcePresence: straight from the reply, the local emit first.
Announce(i) == announced' = [s \in Slot |-> announced[s] +
                    IF s = wire[i].slot THEN Change(wire[i].reply) ELSE 0]

Lose(i) == lost' = [s \in Slot |-> lost[s] +
                    IF s = wire[i].slot THEN Change(wire[i].reply) ELSE 0]

-----------------------------------------------------------------------------
(* Calls of the manager.                                                   *)

\* subscribe: claimed before the first await (#joinPresence, #joinLocal).
Join(c) == LET job == [kind |-> "join", conn |-> c]
           IN /\ homeOf[c] \in up
              /\ c \notin local
              /\ job \notin waiting
              /\ MayCall
              /\ local' = local \cup {c}
              /\ waiting' = waiting \cup {job}
              /\ Spend("calls")
              /\ UNCHANGED <<storeVars, up, writes, wire, beating, runs, sweep,
                             history>>

\* unsubscribe: forgotten before the leave is awaited.
Leave(c) == LET job == [kind |-> "leave", conn |-> c]
            IN /\ homeOf[c] \in up
               /\ c \in local
               /\ job \notin waiting
               /\ MayCall
               /\ local' = local \ {c}
               /\ waiting' = waiting \cup {job}
               /\ Spend("calls")
               /\ UNCHANGED <<storeVars, up, writes, wire, beating, runs, sweep,
                             history>>

\* The watch or unwatch is over: the write joins the slot's tail.
Enqueue(job) == LET i == homeOf[job.conn]
                    s == slotOf[job.conn]
                IN /\ waiting' = waiting \ {job}
                   /\ tail' = [tail EXCEPT ![i][s] = Append(@, job)]
                   /\ UNCHANGED <<storeVars, up, local, step, wire, beating,
                                  runs, sweep, history, used>>

-----------------------------------------------------------------------------
(* A queued write: #syncRosterMember's run, holdMember, releaseMember.     *)

\* It reads what is wanted now.  The first hold of an instance waits for a
\* first heartbeat (#ensureSweepStarted).
StartWrite(i, s) ==
    /\ i \in up
    /\ tail[i][s] # <<>>
    /\ step[i][s] = "idle"
    /\ \/ /\ Desired(i, s)
          /\ started[i] = "no"
          /\ step' = [step EXCEPT ![i][s] = "boot"]
          /\ started' = [started EXCEPT ![i] = "boot"]
          /\ beat' = [beat EXCEPT ![i] = "set"]
          /\ UNCHANGED holdIssued
       \/ /\ Desired(i, s)
          /\ started[i] # "no"
          /\ step' = [step EXCEPT ![i][s] = "hold"]
          /\ holdIssued' = holdIssued \cup {i}
          /\ UNCHANGED <<started, beat>>
       \/ /\ ~Desired(i, s)
          /\ step' = [step EXCEPT ![i][s] = "release"]
          /\ UNCHANGED <<started, holdIssued, beat>>
    /\ UNCHANGED <<storeVars, up, membership, tail, wire, suspected, runs,
                   sweep, history, used>>

\* The boot heartbeat is over, whatever its outcome.
Booted(i, s) == /\ step[i][s] = "boot"
                /\ started[i] = "yes"
                /\ step' = [step EXCEPT ![i][s] = "hold"]
                /\ holdIssued' = holdIssued \cup {i}
                /\ UNCHANGED <<storeVars, up, membership, tail, wire, started,
                               beat, suspected, runs, sweep, history, used>>

SendWrite(i, s) ==
    /\ Idle(i)
    /\ \/ /\ step[i][s] = "hold"
          /\ HoldMember(i, s)
          /\ wire' = [wire EXCEPT ![i] = [op |-> "write", slot |-> s,
                                          reply |-> HoldReply(i, s)]]
       \/ /\ step[i][s] = "release"
          /\ ReleaseMember(i, s, FALSE)
          /\ wire' = [wire EXCEPT ![i] = [op |-> "write", slot |-> s,
                                          reply |-> ReleaseReply(i, s, FALSE)]]
    /\ step' = [step EXCEPT ![i][s] = "sent"]
    /\ astray' = [astray EXCEPT ![i] = @ \ {s}]
    /\ UNCHANGED <<up, membership, tail, beating, runs, sweep, announced, lost,
                   adrift, used>>

\* Bug: a failed release is forgotten.
NothingOwed(i, s) == UNCHANGED <<owed, drain>>

\* What each caller does once its write has settled.
RecordOwed(i, s) == /\ owed' = [owed EXCEPT ![i] = @ \cup {s}]
                    /\ drain' = IF drain[i].on
                                  THEN [drain EXCEPT ![i].fresh = @ \cup {s}]
                                  ELSE drain

\* A failed join undoes its claim and asks for the release it may need
\* (#joinPresence); a failed leave or reclaim is owed (#recordOwedRelease).
CallSettles(i, s, job, ok) ==
    /\ UNCHANGED lapse
    /\ \/ /\ ok
          /\ UNCHANGED <<membership, owed, drain>>
       \/ /\ ~ok
          /\ job.kind = "join"
          /\ local' = local \ {job.conn}
          /\ waiting' = waiting \cup {[kind |-> "reclaim", conn |-> job.conn]}
          /\ UNCHANGED <<owed, drain>>
       \/ /\ ~ok
          /\ job.kind # "join"
          /\ RecordOwed(i, s)
          /\ UNCHANGED membership

\* Bug: a slot that could not be held again fails nothing.
LapseSwallows(i, s, ok) ==
    /\ lapse' = [lapse EXCEPT ![i].at = None]
    /\ UNCHANGED <<membership, owed, drain>>

\* #reassertRoster records a failure and goes on.
LapseSettles(i, s, ok) ==
    /\ lapse' = [lapse EXCEPT ![i].at = None, ![i].failed = @ \/ ~ok]
    /\ UNCHANGED <<membership, owed, drain>>

\* #drainOwedReleases forgets a slot only if nobody owed it again meanwhile.
DrainSettles(i, s, ok) ==
    /\ drain' = [drain EXCEPT ![i].at = None]
    /\ owed' = IF ok /\ s \notin drain[i].fresh
                  THEN [owed EXCEPT ![i] = @ \ {s}] ELSE owed
    /\ UNCHANGED <<membership, lapse>>

\* The tail always settles, so that the next write of the slot can start.
Settle(i, s, ok) ==
    LET job == Head(tail[i][s])
    IN /\ tail' = [tail EXCEPT ![i][s] = Tail(@)]
       /\ step' = [step EXCEPT ![i][s] = "idle"]
       /\ CASE job.kind = "lapse" -> LapseSettles(i, s, ok)
            [] job.kind = "drain" -> DrainSettles(i, s, ok)
            [] OTHER -> CallSettles(i, s, job, ok)

WriteReply(i, s) == /\ step[i][s] = "sent"
                    /\ Settle(i, s, TRUE)
                    /\ Announce(i)
                    /\ wire' = [wire EXCEPT ![i] = Quiet]
                    /\ UNCHANGED <<storeVars, up, beating, sweep, lost, adrift,
                                   astray, used>>

\* The command failed before it ran, or its reply was lost after it ran.
WriteFails(i, s) == /\ Troubled
                    /\ \/ /\ Idle(i)
                          /\ step[i][s] \in {"hold", "release"}
                          /\ GivenUp(step[i][s], i, s)
                       \/ /\ step[i][s] = "sent"
                          /\ UNCHANGED adrift
                    /\ Settle(i, s, FALSE)
                    /\ Lose(i)
                    /\ wire' = [wire EXCEPT ![i] = Quiet]
                    /\ Spend("troubles")
                    /\ UNCHANGED <<storeVars, up, beating, sweep, announced,
                                   astray>>

-----------------------------------------------------------------------------
(* The heartbeat (#heartbeat) and the two runs it triggers.                *)

\* SET ... GET: nil says that the key had lapsed.  The first beat is asked for
\* by a hold, the others by the interval's timer.
BeatDue(i) == beat[i] = "set" \/ (beat[i] = "idle" /\ started[i] = "yes")

SendBeat(i) == /\ Idle(i)
               /\ BeatDue(i)
               /\ Renew(i)
               /\ wire' = [wire EXCEPT ![i] =
                     [op |-> "beat", slot |-> None,
                      reply |-> IF i \in alive THEN "continuous" ELSE "lapsed"]]
               /\ beat' = [beat EXCEPT ![i] = "sent"]
               /\ UNCHANGED <<up, membership, writes, started, holdIssued,
                              suspected, runs, sweep, history, used>>

BeatReply(i) == /\ beat[i] = "sent"
                /\ beat' = [beat EXCEPT ![i] = wire[i].reply]
                /\ wire' = [wire EXCEPT ![i] = Quiet]
                /\ UNCHANGED <<storeVars, up, membership, writes, started,
                        holdIssued, suspected, runs, sweep, history, used>>

BeatFails(i) == /\ Troubled
                /\ \/ Idle(i) /\ BeatDue(i) /\ GivenUp("renew", i, None)
                   \/ beat[i] = "sent" /\ UNCHANGED adrift
                /\ beat' = [beat EXCEPT ![i] = "failed"]
                /\ wire' = [wire EXCEPT ![i] = Quiet]
                /\ Spend("troubles")
                /\ UNCHANGED <<storeVars, up, membership, writes, started,
                               holdIssued, suspected, runs, sweep, announced,
                               lost, astray>>

\* Bug: a trigger during a run is dropped.
NotTrailing(run, first) == IF run = first.idle THEN first.begun ELSE run

\* A run in flight is followed by one more (lapse_run.ts, trigger()).
Triggered(run, first) == IF run = first.idle THEN first.begun
                         ELSE [run EXCEPT !.trailing = TRUE]

LapseRun == [idle |-> NoLapse, begun |-> [NoLapse EXCEPT !.state = "revoking"]]

\* Bug: the run begins with nothing to retry.
DrainsNothing(i) == [idle |-> NoDrain, begun |-> [NoDrain EXCEPT !.on = TRUE]]

\* A run takes the slots owed when it begins.
DrainRun(i) == [idle |-> NoDrain,
                begun |-> [NoDrain EXCEPT !.on = TRUE, !.left = owed[i]]]

\* The registration, which may fail alone, then the two decisions.  A drain
\* with nothing owed would be over at once.
BeatEnds(i) ==
    LET outcome == beat[i]
        overdue == i \in holdIssued /\ outcome # "failed"
                   /\ (outcome = "lapsed" \/ i \in suspected)
    IN /\ Idle(i)
       /\ outcome \in {"continuous", "lapsed", "failed"}
       /\ \/ /\ Register(i)
             /\ UNCHANGED <<adrift, used>>
          \/ /\ Troubled
             /\ GivenUp("register", i, None)
             /\ Spend("troubles")
             /\ UNCHANGED storeVars
       /\ drain' = IF outcome = "failed" \/ owed[i] = {} THEN drain
                   ELSE [drain EXCEPT ![i] = Triggered(@, DrainRun(i))]
       /\ suspected' = IF overdue THEN suspected \ {i}
                       ELSE IF outcome = "failed" /\ i \in holdIssued
                         THEN suspected \cup {i} ELSE suspected
       /\ lapse' = IF overdue THEN [lapse EXCEPT ![i] = Triggered(@, LapseRun)]
                   ELSE lapse
       /\ beat' = [beat EXCEPT ![i] = "idle"]
       /\ started' = [started EXCEPT ![i] = "yes"]
       /\ UNCHANGED <<up, membership, writes, wire, holdIssued, owed, sweep,
                      announced, lost, astray>>

\* #reassertRoster: revocations first, then the slots as they are now.
LapseSnapshot(i) ==
    /\ lapse[i].state = "revoking"
    /\ lapse' = [lapse EXCEPT ![i].state = "holding",
                              ![i].left = {s \in Slot : Desired(i, s)}]
    /\ UNCHANGED <<storeVars, up, membership, writes, wire, beating, owed,
                   drain, sweep, history, used>>

\* One slot at a time, through the slot's tail.
LapseWrites(i, s) ==
    /\ lapse[i].at = None
    /\ s \in lapse[i].left
    /\ lapse' = [lapse EXCEPT ![i].at = s, ![i].left = @ \ {s}]
    /\ tail' = [tail EXCEPT ![i][s] = Append(@, [kind |-> "lapse", conn |-> None])]
    /\ UNCHANGED <<storeVars, up, membership, step, wire, beating, owed, drain,
                   sweep, history, used>>

\* A failed run is suspected, for the next good beat; then the trailing run.
LapseEnds(i) ==
    /\ lapse[i].state = "holding"
    /\ lapse[i].at = None
    /\ lapse[i].left = {}
    /\ suspected' = IF lapse[i].failed THEN suspected \cup {i} ELSE suspected
    /\ lapse' = [lapse EXCEPT ![i] = IF @.trailing THEN LapseRun.begun
                                     ELSE NoLapse]
    /\ UNCHANGED <<storeVars, up, membership, writes, wire, started, holdIssued,
                   beat, owed, drain, sweep, history, used>>

DrainWrites(i, s) ==
    /\ drain[i].at = None
    /\ s \in drain[i].left
    /\ drain' = [drain EXCEPT ![i].at = s, ![i].left = @ \ {s}]
    /\ tail' = [tail EXCEPT ![i][s] = Append(@, [kind |-> "drain", conn |-> None])]
    /\ UNCHANGED <<storeVars, up, membership, step, wire, beating, lapse, owed,
                   sweep, history, used>>

DrainEnds(i) ==
    /\ drain[i].on
    /\ drain[i].at = None
    /\ drain[i].left = {}
    /\ drain' = [drain EXCEPT ![i] = IF @.trailing THEN DrainRun(i).begun
                                     ELSE NoDrain]
    /\ UNCHANGED <<storeVars, up, membership, writes, wire, beating, lapse, owed,
                   sweep, history, used>>

-----------------------------------------------------------------------------
(* The ghost sweep (#reconcile, #sweepInstance): one pass at a time; a     *)
(* pass over several dead instances is as many passes here.                *)

others == <<up, membership, writes, beating, runs>>

\* EXISTS, then SSCAN of the owned set: reads that authorise no write.
SweepSelects(i, dead) ==
    /\ Idle(i)
    /\ started[i] = "yes"
    /\ sweep[i] = NoSweep
    /\ dead \in instances \ (alive \cup {i})
    /\ sweep' = [sweep EXCEPT ![i] = [target |-> dead, todo |-> owned[dead]]]
    /\ UNCHANGED <<storeVars, others, wire, history, used>>

\* Liveness is asked again inside every write.
SweepReleases(i, s) ==
    LET dead == sweep[i].target
    IN /\ Idle(i)
       /\ sweep[i] # NoSweep
       /\ s \in sweep[i].todo
       /\ ReleaseMember(dead, s, TRUE)
       /\ wire' = [wire EXCEPT ![i] = [op |-> "sweep", slot |-> s,
                                       reply |-> ReleaseReply(dead, s, TRUE)]]
       /\ UNCHANGED <<others, sweep, history, used>>

\* A refusal ends the pass; an emptied slot is announced from the reply.
SweepReply(i) ==
    /\ wire[i].op = "sweep"
    /\ Announce(i)
    /\ wire' = [wire EXCEPT ![i] = Quiet]
    /\ sweep' = [sweep EXCEPT ![i] = IF wire[i].reply = "refused" THEN NoSweep
                                     ELSE [sweep[i] EXCEPT !.todo = @ \ {wire[i].slot}]]
    /\ UNCHANGED <<storeVars, others, lost, adrift, astray, used>>

\* Bug: the pass deletes the owned set and the registration.
SweepDeletes(i) ==
    /\ Idle(i)
    /\ sweep[i] # NoSweep
    /\ sweep[i].todo = {}
    /\ owned' = [owned EXCEPT ![sweep[i].target] = {}]
    /\ instances' = instances \ {sweep[i].target}
    /\ sweep' = [sweep EXCEPT ![i] = NoSweep]
    /\ UNCHANGED <<holders, shown, alive, others, wire, history, used>>

SweepDeregisters(i) ==
    /\ Idle(i)
    /\ sweep[i] # NoSweep
    /\ sweep[i].todo = {}
    /\ Deregister(sweep[i].target)
    /\ sweep' = [sweep EXCEPT ![i] = NoSweep]
    /\ UNCHANGED <<others, wire, history, used>>

SweepFails(i) ==
    /\ Troubled
    /\ sweep[i] # NoSweep
    /\ \/ /\ Idle(i)
          /\ \/ \E s \in sweep[i].todo : GivenUp("sweep", sweep[i].target, s)
             \/ /\ sweep[i].todo = {}
                /\ GivenUp("deregister", sweep[i].target, None)
       \/ /\ wire[i].op = "sweep"
          /\ UNCHANGED adrift
    /\ Lose(i)
    /\ wire' = [wire EXCEPT ![i] = Quiet]
    /\ sweep' = [sweep EXCEPT ![i] = NoSweep]
    /\ Spend("troubles")
    /\ UNCHANGED <<storeVars, others, announced, astray>>

-----------------------------------------------------------------------------
(* What the environment does.                                              *)

\* A liveness key expires: of a dead instance, or of one that beats too late.
KeyLapses(i) == /\ Lapse(i)
                /\ IF i \in up THEN Troubled /\ Spend("troubles")
                   ELSE UNCHANGED used
                /\ UNCHANGED <<others, wire, sweep, history>>

\* Everything the instance knew is gone; what it wrote stays.
Crash(i) ==
    /\ i \in up
    /\ Troubled
    /\ up' = up \ {i}
    /\ local' = {c \in local : homeOf[c] # i}
    /\ waiting' = {job \in waiting : homeOf[job.conn] # i}
    /\ tail' = [tail EXCEPT ![i] = [s \in Slot |-> <<>>]]
    /\ step' = [step EXCEPT ![i] = [s \in Slot |-> "idle"]]
    /\ Lose(i)
    /\ wire' = [wire EXCEPT ![i] = Quiet]
    /\ started' = [started EXCEPT ![i] = "no"]
    /\ holdIssued' = holdIssued \ {i}
    /\ beat' = [beat EXCEPT ![i] = "idle"]
    /\ suspected' = suspected \ {i}
    /\ lapse' = [lapse EXCEPT ![i] = NoLapse]
    /\ owed' = [owed EXCEPT ![i] = {}]
    /\ drain' = [drain EXCEPT ![i] = NoDrain]
    /\ sweep' = [sweep EXCEPT ![i] = NoSweep]
    /\ astray' = [astray EXCEPT ![i] = {}]
    /\ Spend("troubles")
    /\ UNCHANGED <<storeVars, announced, adrift>>

\* The frame of a command given up reaches Redis after all; its reply finds no
\* reader.  A hold or release that changes the slot, or a renewal that hides a
\* lapse from the next beat, is a change the instance knows nothing of.
CarriedOutLate(command) ==
    LET i == command.of
        s == command.slot
        Unread(reply) == lost' = [lost EXCEPT ![s] = @ + Change(reply)]
        Astray(slots) == astray' = [astray EXCEPT ![i] = @ \cup slots]
    IN /\ adrift' = adrift \ {command}
       /\ \/ /\ command.op = "hold"
             /\ HoldMember(i, s)
             /\ Unread(HoldReply(i, s))
             /\ Astray({s} \ owned[i])
          \/ /\ command.op = "release"
             /\ ReleaseMember(i, s, FALSE)
             /\ Unread(ReleaseReply(i, s, FALSE))
             /\ Astray({s} \cap owned[i])
          \/ /\ command.op = "sweep"
             /\ ReleaseMember(i, s, TRUE)
             /\ Unread(ReleaseReply(i, s, TRUE))
             /\ UNCHANGED astray
          \/ /\ command.op = "renew"
             /\ Renew(i)
             /\ Astray(IF i \in alive THEN {} ELSE Slot \ owned[i])
             /\ UNCHANGED lost
          \/ /\ command.op = "register"
             /\ Register(i)
             /\ UNCHANGED <<lost, astray>>
          \/ /\ command.op = "deregister"
             /\ Deregister(i)
             /\ UNCHANGED <<lost, astray>>
       /\ UNCHANGED <<others, wire, sweep, announced, used>>

-----------------------------------------------------------------------------
Write(i, s) == \/ StartWrite(i, s)
               \/ Booted(i, s)
               \/ SendWrite(i, s)
               \/ WriteReply(i, s)
               \/ WriteFails(i, s)

Beat(i) == \/ SendBeat(i)
           \/ BeatReply(i)
           \/ BeatFails(i)
           \/ BeatEnds(i)

Recover(i) == \/ LapseSnapshot(i)
              \/ \E s \in Slot : LapseWrites(i, s) \/ DrainWrites(i, s)
              \/ LapseEnds(i)
              \/ DrainEnds(i)

Sweep(i) == \/ \E dead \in Instance : SweepSelects(i, dead)
            \/ \E s \in Slot : SweepReleases(i, s)
            \/ SweepReply(i)
            \/ SweepDeregisters(i)
            \/ SweepFails(i)

RosterNext == \/ \E c \in Conn : Join(c) \/ Leave(c)
              \/ \E job \in waiting : Enqueue(job)
              \/ \E i \in Instance, s \in Slot : Write(i, s)
              \/ \E i \in Instance : \/ Beat(i)
                                     \/ Recover(i)
                                     \/ Sweep(i)
                                     \/ KeyLapses(i)
                                     \/ Crash(i)
              \/ \E command \in adrift : CarriedOutLate(command)

\* Timers fire, replies and failures arrive, and the client's queue serves
\* every command (strong fairness: other callers may be served first).
RosterFairness ==
    /\ \A c \in Conn : WF_vars(\E job \in waiting : job.conn = c /\ Enqueue(job))
    /\ \A i \in Instance, s \in Slot :
          /\ WF_vars(StartWrite(i, s) \/ Booted(i, s) \/ WriteReply(i, s))
          /\ SF_vars(SendWrite(i, s))
    /\ \A i \in Instance :
          /\ WF_vars(BeatReply(i) \/ SweepReply(i))
          /\ SF_vars(SendBeat(i) \/ BeatEnds(i))
          /\ WF_vars(\/ LapseSnapshot(i)
                     \/ \E s \in Slot : LapseWrites(i, s)
                     \/ LapseEnds(i))
          /\ WF_vars((\E s \in Slot : DrainWrites(i, s)) \/ DrainEnds(i))
          /\ SF_vars(\/ \E dead \in Instance : SweepSelects(i, dead)
                     \/ \E s \in Slot : SweepReleases(i, s)
                     \/ SweepDeregisters(i))
          /\ WF_vars(i \notin up /\ KeyLapses(i))

RosterSafety == RosterInit /\ [][RosterNext]_vars

RosterSpec == RosterSafety /\ RosterFairness

-----------------------------------------------------------------------------
RosterType ==
    /\ StoreType
    /\ up \subseteq Instance
    /\ local \subseteq Conn
    /\ waiting \subseteq {job \in Job : job.conn # None}
    /\ tail \in [Instance -> [Slot -> Seq(Job)]]
    /\ step \in [Instance -> [Slot ->
                   {"idle", "boot", "hold", "release", "sent"}]]
    /\ wire \in [Instance ->
            [op : {"none", "write", "beat", "sweep"}, slot : Slot \cup {None},
             reply : {"none", "arrived", "held", "emptied", "kept", "absent",
                      "refused", "continuous", "lapsed"}]]
    /\ started \in [Instance -> {"no", "boot", "yes"}]
    /\ holdIssued \subseteq Instance
    /\ beat \in [Instance -> {"idle", "set", "sent", "continuous", "lapsed",
                              "failed"}]
    /\ suspected \subseteq Instance
    /\ lapse \in [Instance ->
            [state : {"off", "revoking", "holding"}, left : SUBSET Slot,
             at : Slot \cup {None}, failed : BOOLEAN, trailing : BOOLEAN]]
    /\ owed \in [Instance -> SUBSET Slot]
    /\ drain \in [Instance ->
            [on : BOOLEAN, left : SUBSET Slot, at : Slot \cup {None},
             fresh : SUBSET Slot, trailing : BOOLEAN]]
    /\ sweep \in [Instance ->
            [target : Instance \cup {None}, todo : SUBSET Slot]]
    /\ announced \in [Slot -> Int]
    /\ lost \in [Slot -> Int]
    /\ adrift \subseteq Command
    /\ astray \in [Instance -> SUBSET Slot]
    /\ used \in [{"calls", "troubles"} -> Nat]

\* Some write of the slot has yet to read what is wanted, or is releasing.
WriteDue(i, s) ==
    \/ \E job \in waiting : homeOf[job.conn] = i /\ slotOf[job.conn] = s
    \/ Len(tail[i][s]) > (IF step[i][s] = "idle" THEN 0 ELSE 1)

\* A hold of an instance that runs, whose last connection of the member has
\* left, is about to be released or owed: no member stays on the roster of a
\* healthy instance after its leave, whatever failed (unsubscribe,
\* #joinPresence, #recordOwedRelease, #drainOwedReleases).  Except a hold that
\* was given up and carried out late: nothing repairs it before the instance
\* writes the slot again.
NoGhostOfTheLiving ==
    \A i \in up, s \in Slot : i \in holders[s] /\ ~Desired(i, s) =>
        \/ WriteDue(i, s) \/ step[i][s] = "release"
        \/ s \in owed[i] \cup astray[i]

\* The next good beat of i starts a run that holds its slots again.
LapseDue(i) == \/ i \notin alive
               \/ i \in suspected
               \/ beat[i] \in {"lapsed", "failed"}
               \/ wire[i].op = "beat" /\ wire[i].reply = "lapsed"

\* A member who is here but not on the roster is about to be held: no lapse,
\* sweep or failure of a write drops a member for good (#heartbeat,
\* lapse_run.ts, #reassertRoster).  Except, again, what a late command did: a
\* release, or a heartbeat that made a lapsed key look continuous.
NoLostMember ==
    \A i \in up, s \in Slot : Desired(i, s) /\ i \notin holders[s] =>
        \/ WriteDue(i, s) \/ step[i][s] \in {"boot", "hold"}
        \/ LapseDue(i)
        \/ lapse[i].state = "revoking" \/ lapse[i].trailing \/ lapse[i].failed
        \/ s \in lapse[i].left \cup owed[i] \cup astray[i]

\* What the instances announced is what the roster became: the joins less the
\* lefts of a slot, with the replies on their way and those nobody read, say
\* whether it is held.  Every transition is announced once, by the write that
\* made it, also when two instances sweep the same dead one.
AnnouncedOnce ==
    \A s \in Slot :
        LET coming == [i \in Instance |->
                         IF wire[i].slot = s THEN Change(wire[i].reply) ELSE 0]
        IN announced[s] + lost[s]
             + Cardinality({i \in Instance : coming[i] = 1})
             - Cardinality({i \in Instance : coming[i] = -1})
           = IF holders[s] = {} THEN 0 ELSE 1

\* While the key of an instance exists, only the instance itself lets go of
\* what it holds (ADR 006), though perhaps late.
OnlyTheDeadAreSwept ==
    [][\A i \in alive, s \in Slot : i \in holders[s] \ holders'[s] =>
            \/ step[i][s] = "release" /\ step'[i][s] = "sent"
            \/ \E command \in adrift \ adrift' :
                  command.op = "release" /\ command.of = i /\ command.slot = s]_vars

\* Once calls, failures, lapses and crashes are over, the roster comes to be
\* what the running instances have, and stays so, but for the slots that a
\* late command has put wrong; if one of them sweeps, no hold of a dead
\* instance is left, late or not.
RosterSettled ==
    \A s \in Slot :
        /\ \A i \in up : s \notin astray[i] => (i \in holders[s] <=> Desired(i, s))
        /\ (\E i \in up : started[i] = "yes") => holders[s] \subseteq up

Converges == <>[]RosterSettled

\* Every step of an instance is, for Redis, one of the scripts or nothing.
ImplementsStore == StoreSpec
=============================================================================
