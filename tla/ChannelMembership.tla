-------------------------- MODULE ChannelMembership --------------------------
(***************************************************************************)
(* Who is in which channel on one instance (realtime/manager.ts): sockets  *)
(* that open and close, subscriptions that wait for the application's      *)
(* authorizer, teardowns that leave one channel at a time, and evictions   *)
(* and channel revocations, made here or on another instance, recorded     *)
(* durably and carried by frames that may be lost.  Every map is keyed by  *)
(* connection id, which two sockets may present one after the other.       *)
(***************************************************************************)
EXTENDS Integers, FiniteSets

CONSTANTS Id, Socket, IdOf, Channel,
          Public,           \* the channels that need no authorizer
          None, All,        \* no socket or id; the scope of an eviction
          MaxWatched, MaxPerConnection,   \* the caps of the manager
          MaxAsking, MaxRevocations, MaxFaults   \* bounds on what is modelled

ASSUME MembershipAssumption == /\ IdOf \in [Socket -> Id]
                               /\ None \notin Socket \cup Nat
                               /\ All \notin Channel
                               /\ MaxRevocations \in Nat /\ MaxFaults \in Nat

VARIABLES bound,             \* connections: the socket registered under an id
          retired,           \* the sockets whose teardown has begun
          stage,             \* stage[s]: the socket, and its close hook
          subscriptions,     \* the ids in a channel
          channelsByClient,  \* the channels of an id
          asking,            \* subscribes that wait for the authorizer
          loops,             \* teardowns under way, with the channels left to leave
          calls,             \* evict() and revokeChannel() calls, here and elsewhere
          store,             \* the durable records
          frames,            \* control frames on the bus
          applies,           \* revocations that have left a channel, and what they still clear
          pass,              \* the reconcile pass
          minted,            \* the ids of revocations: 1 to minted
          faults,
          joined,            \* history: which socket holds which channel
          answered           \* history: the records their connection has left a channel under

membership == <<subscriptions, channelsByClient, joined, answered>>
teardown == <<bound, retired, loops>>
revoking == <<calls, store, frames, applies, pass, minted, faults>>
vars == <<membership, teardown, stage, asking, revoking>>

Init == /\ bound = [i \in Id |-> None] /\ retired = {} /\ loops = {}
        /\ stage = [s \in Socket |-> "fresh"]
        /\ subscriptions = [c \in Channel |-> {}]
        /\ channelsByClient = [i \in Id |-> {}]
        /\ asking = {} /\ calls = {} /\ store = {} /\ frames = {} /\ applies = {}
        /\ pass = [stage |-> "idle", todo |-> {}, waits |-> None]
        /\ minted = 0 /\ faults = 0
        /\ joined = {} /\ answered = {}

Fault == faults < MaxFaults /\ faults' = faults + 1

\* Bug: the owner of an id is asked by id.
OwnsById(s) == bound[IdOf[s]] # None
IsOwner(s) == bound[IdOf[s]] = s
Admissible(s) == s \notin retired /\ bound[IdOf[s]] \in {None, s}
\* Bug: the check after the authorizer asks for the binding alone.
BoundAlone(s) == bound[IdOf[s]] = s
Bound(s) == Admissible(s) /\ bound[IdOf[s]] # None

-----------------------------------------------------------------------------
(* Joining and leaving.                                                    *)

Hosted == {c \in Channel : subscriptions[c] # {}}
WithinCaps(id, c) ==
    /\ c \in Hosted \/ Cardinality(Hosted) < MaxWatched
    /\ \/ c \in channelsByClient[id]
       \/ Cardinality(channelsByClient[id]) < MaxPerConnection

JoinLocal(s, c) ==
    LET id == IdOf[s]
    IN /\ subscriptions' = [subscriptions EXCEPT ![c] = @ \cup {id}]
       /\ channelsByClient' = [channelsByClient EXCEPT ![id] = @ \cup {c}]
       /\ joined' = joined \cup {<<s, c>>}
       /\ UNCHANGED answered

\* unsubscribe(id, channel), up to the driver's unwatch, which it awaits.
LeaveLocal(id, c) ==
    IF id \notin subscriptions[c] THEN UNCHANGED membership
    ELSE /\ subscriptions' = [subscriptions EXCEPT ![c] = @ \ {id}]
         /\ channelsByClient' = [channelsByClient EXCEPT ![id] = @ \ {c}]
         /\ joined' = {j \in joined : IdOf[j[1]] # id \/ j[2] # c}
         /\ answered' = answered \cup {r.rec : r \in {q \in store : q.target = id /\ q.chan = c}}

Attempt(s, c) == IF WithinCaps(IdOf[s], c) THEN JoinLocal(s, c) ELSE UNCHANGED membership

-----------------------------------------------------------------------------
(* Teardowns.                                                              *)

\* One turn of the loop of #teardownChannels(), or its finally.
Advance(s, left, others) ==
    LET id == IdOf[s]
    IN IF left # {} /\ IsOwner(s)
         THEN \E c \in left : /\ LeaveLocal(id, c)
                              /\ loops' = others \cup {[of |-> s, left |-> left \ {c}]}
                              /\ UNCHANGED bound
         ELSE /\ loops' = others
              /\ bound' = IF IsOwner(s) THEN [bound EXCEPT ![id] = None] ELSE bound
              /\ channelsByClient' = IF IsOwner(s) THEN [channelsByClient EXCEPT ![id] = {}]
                                                   ELSE channelsByClient
              /\ UNCHANGED <<subscriptions, joined, answered>>

\* #teardown() of whatever socket has the id: it joins one that has begun.
Begin(id) ==
    LET s == bound[id]
    IN IF s = None \/ s \in retired THEN UNCHANGED <<membership, teardown>>
       ELSE /\ retired' = retired \cup {s}
            /\ Advance(s, channelsByClient[id], loops)

Disconnect(s) == IF IsOwner(s) THEN Begin(IdOf[s]) ELSE UNCHANGED <<membership, teardown>>

LeavesNext(l) == /\ Advance(l.of, l.left, loops \ {l})
                 /\ UNCHANGED <<retired, stage, asking, revoking>>

-----------------------------------------------------------------------------
(* Sockets.                                                                *)

Opens(s) == /\ stage[s] = "fresh"
            /\ IF Admissible(s)
                 THEN bound' = [bound EXCEPT ![IdOf[s]] = s] /\ stage' = [stage EXCEPT ![s] = "open"]
                 ELSE stage' = [stage EXCEPT ![s] = "closing"] /\ UNCHANGED bound
            /\ UNCHANGED <<membership, retired, loops, asking, revoking>>

PeerCloses(s) == /\ stage[s] = "open"
                 /\ stage' = [stage EXCEPT ![s] = "closing"]
                 /\ UNCHANGED <<membership, teardown, asking, revoking>>

\* The close hook, once the application's own has run.
Closed(s) == /\ stage[s] = "closing"
             /\ stage' = [stage EXCEPT ![s] = "closed"]
             /\ Disconnect(s)
             /\ UNCHANGED <<asking, revoking>>

\* A handler of the application may still run when its socket has closed.
Subscribe(s, c) ==
    /\ Bound(s)
    /\ IF c \in Public THEN Attempt(s, c) /\ UNCHANGED asking
       ELSE \E n \in 1..MaxAsking : /\ \A a \in asking : a.no # n
                                   /\ asking' = asking \cup {[no |-> n, sock |-> s, chan |-> c]}
                                   /\ UNCHANGED membership
    /\ UNCHANGED <<teardown, stage, revoking>>

Authorized(a) == /\ asking' = asking \ {a}
                 /\ IF Bound(a.sock) THEN Attempt(a.sock, a.chan) ELSE UNCHANGED membership
                 /\ UNCHANGED <<teardown, stage, revoking>>

Denied(a) == /\ asking' = asking \ {a}
             /\ UNCHANGED <<membership, teardown, stage, revoking>>

Unsubscribe(s, c) == /\ IsOwner(s)
                     /\ LeaveLocal(IdOf[s], c)
                     /\ UNCHANGED <<teardown, stage, asking, revoking>>

-----------------------------------------------------------------------------
(* Revocations: the record first, then the leave, then the clear.          *)

\* evict(id) when c is All, otherwise revokeChannel(id, c); which instance it
\* was called on shows when it goes on.
Revoke(id, c) ==
    /\ minted < MaxRevocations
    /\ minted' = minted + 1
    /\ calls' = calls \cup {[rec |-> minted + 1, target |-> id, chan |-> c, marked |-> FALSE]}
    /\ UNCHANGED <<membership, teardown, stage, asking, store, frames, applies, pass, faults>>

\* An eviction's record carries no id of its own.
RecordOf(c) == [target |-> c.target, chan |-> c.chan, rec |-> IF c.chan = All THEN None ELSE c.rec]
Marked(c) == calls' = (calls \ {c}) \cup {[c EXCEPT !.marked = TRUE]}

MarkLands(c) ==
    /\ ~c.marked /\ Marked(c)
    /\ store' = store \cup {RecordOf(c)}
    /\ UNCHANGED <<membership, teardown, stage, asking, frames, applies, pass, minted, faults>>

\* The revocation goes on without its record.
MarkFails(c) == /\ ~c.marked /\ Marked(c)
                /\ Fault
                /\ UNCHANGED <<membership, teardown, stage, asking, store, frames, applies, pass, minted>>

\* revokeLocal(): the hard close, then the teardown of whoever has the id.
RevokeLocal(id) == /\ stage' = [s \in Socket |-> IF s = bound[id] /\ stage[s] = "open"
                                                 THEN "closing" ELSE stage[s]]
                   /\ Begin(id)
                   /\ UNCHANGED applies

\* #revokeChannelLocal(), up to its first await.
RevokeChannelLocal(id, c, recs, inPass) ==
    /\ LeaveLocal(id, c)
    /\ applies' = IF id \in subscriptions[c]
                  THEN applies \cup {[target |-> id, chan |-> c, recs |-> recs, inPass |-> inPass]}
                  ELSE applies
    /\ UNCHANGED <<teardown, stage>>

Apply(id, c, recs, inPass) == IF c = All THEN RevokeLocal(id) ELSE RevokeChannelLocal(id, c, recs, inPass)
NotApplied == UNCHANGED <<membership, teardown, stage, applies>>

\* The socket's close() throws, before anything is torn down.
CloseThrows(c) == c = All /\ Fault /\ NotApplied

Proceeds(c, here) ==
    /\ c.marked
    /\ calls' = calls \ {c}
    /\ IF here /\ bound[c.target] # None
         THEN /\ Apply(c.target, c.chan, {c.rec}, FALSE)
              /\ UNCHANGED frames
         ELSE frames' = frames \cup {[target |-> c.target, chan |-> c.chan, rec |-> c.rec]} /\ NotApplied
    /\ UNCHANGED <<asking, store, pass, minted, faults>>

EvictFails(c) == /\ c.marked /\ bound[c.target] # None
                 /\ calls' = calls \ {c}
                 /\ CloseThrows(c.chan)
                 /\ UNCHANGED <<frames, asking, store, pass, minted>>

FrameArrives(f) == /\ frames' = frames \ {f}
                   /\ IF bound[f.target] = None THEN NotApplied
                      ELSE Apply(f.target, f.chan, {f.rec}, FALSE)
                   /\ UNCHANGED <<calls, asking, store, pass, minted, faults>>

FrameIsLost(f) == /\ frames' = frames \ {f}
                  /\ NotApplied
                  /\ UNCHANGED <<calls, asking, store, pass, minted, faults>>

\* Bug: a clear names the pair.
ClearsPair(a, rec) == {r \in store : r.target # a.target \/ r.chan # a.chan}
Cleared(a, rec) == store \ {[target |-> a.target, chan |-> a.chan, rec |-> rec]}

\* Bug: what has nothing left to clear stays in flight.
KeepsEmpty(a, recs) == (applies \ {a}) \cup {[a EXCEPT !.recs = @ \ recs]}
Without(a, recs) == (applies \ {a}) \cup {b \in {[a EXCEPT !.recs = @ \ recs]} : b.recs # {}}

ClearRevocation(a) == \E rec \in a.recs :
    /\ store' = Cleared(a, rec)
    /\ applies' = Without(a, {rec})
    /\ answered' = answered \ {rec}
    /\ UNCHANGED <<subscriptions, channelsByClient, joined, teardown, stage, asking, calls, frames, pass, minted, faults>>

\* The driver's unwatch fails, and nothing is cleared, or some clears fail.
ClearFails(a) == \E recs \in SUBSET a.recs :
    /\ recs # {} /\ Fault
    /\ applies' = Without(a, recs)
    /\ UNCHANGED <<membership, teardown, stage, asking, calls, store, frames, pass, minted>>

-----------------------------------------------------------------------------
(* The reconcile pass, one at a time.                                      *)

\* Bug: the pass looks at channel revocations alone.
ChannelGroups(records) ==
    {[target |-> r.target, chan |-> r.chan, recs |-> {r.rec}] : r \in {q \in records : q.chan # All}}

\* The records of one pair are one group, and are answered by one leave.
Groups(records) ==
    {[target |-> r.target, chan |-> r.chan,
      recs |-> {q.rec : q \in {p \in records : p.target = r.target /\ p.chan = r.chan}}]
        : r \in records}

\* A pass starts with one read of the records of the ids connected here; one
\* whose read fails has changed nothing.
PassReads == /\ pass.stage = "idle"
             /\ pass' = [pass EXCEPT !.stage = "applying",
                         !.todo = Groups({r \in store : bound[r.target] # None})]
             /\ UNCHANGED <<membership, teardown, stage, asking, calls, store, frames, applies, minted, faults>>

PassWaits == \/ \E a \in applies : a.inPass
             \/ \E l \in loops : l.of = pass.waits

\* Evictions are applied as they are listed, the groups after them.
PassTakes(g) == /\ pass.stage = "applying" /\ ~PassWaits
                /\ g.chan = All \/ \A h \in pass.todo : h.chan # All
                /\ UNCHANGED <<asking, calls, store, frames, minted>>

PassApplies(g) ==
    /\ PassTakes(g)
    /\ IF g.chan = All /\ bound[g.target] = None THEN NotApplied ELSE Apply(g.target, g.chan, g.recs, TRUE)
    /\ pass' = [pass EXCEPT !.todo = @ \ {g},
                            !.waits = IF g.chan = All THEN bound[g.target] ELSE None]
    /\ UNCHANGED faults

PassApplyFails(g) == /\ PassTakes(g)
                     /\ bound[g.target] # None /\ CloseThrows(g.chan)
                     /\ pass' = [pass EXCEPT !.todo = @ \ {g}, !.waits = None]

PassEnds == /\ pass.stage = "applying" /\ pass.todo = {} /\ ~PassWaits
            /\ pass' = [stage |-> "idle", todo |-> {}, waits |-> None]
            /\ UNCHANGED <<membership, teardown, stage, asking, calls, store, frames, applies, minted, faults>>

-----------------------------------------------------------------------------
Next ==
    \/ \E s \in Socket : Opens(s) \/ PeerCloses(s) \/ Closed(s)
    \/ \E s \in Socket, c \in Channel : Subscribe(s, c) \/ Unsubscribe(s, c)
    \/ \E a \in asking : Authorized(a) \/ Denied(a)
    \/ \E l \in loops : LeavesNext(l)
    \/ \E i \in Id, c \in Channel \cup {All} : Revoke(i, c)
    \/ \E c \in calls : \/ MarkLands(c) \/ MarkFails(c) \/ EvictFails(c)
                        \/ \E here \in BOOLEAN : Proceeds(c, here)
    \/ \E f \in frames : FrameArrives(f) \/ FrameIsLost(f)
    \/ \E a \in applies : ClearRevocation(a) \/ ClearFails(a)
    \/ PassReads \/ PassEnds
    \/ \E g \in pass.todo : PassApplies(g) \/ PassApplyFails(g)

Safety == Init /\ [][Next]_vars

PassSteps == PassReads \/ PassEnds \/ \E g \in pass.todo : PassApplies(g)

\* Timers fire and commands are answered; nothing is assumed of the frames,
\* of the calls or of the sockets.
Spec == /\ Safety
        /\ \A s \in Socket : WF_vars(\E l \in loops : l.of = s /\ LeavesNext(l))
        /\ WF_vars(\E a \in applies : a.inPass /\ ClearRevocation(a))
        /\ WF_vars(PassSteps)

-----------------------------------------------------------------------------
(* Properties.                                                             *)

Revocation == 1..MaxRevocations
Record == [target : Id, chan : Channel \cup {All}, rec : Revocation \cup {None}]

\* Types of the manager's maps and of what is in flight.
MembershipType ==
    /\ bound \in [Id -> Socket \cup {None}]
    /\ retired \subseteq Socket
    /\ stage \in [Socket -> {"fresh", "open", "closing", "closed"}]
    /\ subscriptions \in [Channel -> SUBSET Id]
    /\ channelsByClient \in [Id -> SUBSET Channel]
    /\ asking \subseteq [no : 1..MaxAsking, sock : Socket, chan : Channel]
    /\ loops \subseteq [of : Socket, left : SUBSET Channel]
    /\ calls \subseteq [rec : Revocation, target : Id, chan : Channel \cup {All},
                        marked : BOOLEAN]
    /\ store \subseteq Record /\ frames \subseteq Record
    /\ applies \subseteq [target : Id, chan : Channel, recs : (SUBSET Revocation) \ {{}},
                          inPass : BOOLEAN]
    /\ pass.stage \in {"idle", "applying"}
    /\ pass.waits \in Socket \cup {None}
    /\ pass.todo \subseteq [target : Id, chan : Channel \cup {All},
                            recs : SUBSET (Revocation \cup {None})]
    /\ minted \in 0..MaxRevocations /\ faults \in 0..MaxFaults

\* The two indexes agree, and what they hold for an id belongs to the socket
\* registered under it: nothing is left of a socket that was torn down, whose
\* subscribe was still waiting for the authorizer (manager.ts:3536-3568), and
\* nothing passes to the next socket with its id.
HeldByTheOwner ==
    \A i \in Id, c \in Channel :
        /\ i \in subscriptions[c] <=> c \in channelsByClient[i]
        /\ i \in subscriptions[c] <=> \E s \in Socket : IdOf[s] = i /\ <<s, c>> \in joined
        /\ \A s \in Socket : IdOf[s] = i /\ <<s, c>> \in joined => bound[i] = s

\* "a late close must not do" what an eviction does (manager.ts:3333-3338):
\* only a socket that has closed is torn down, and a teardown removes nothing
\* but what its own socket had joined.
OnlyTheClosedAreTornDown ==
    /\ \A s \in retired : stage[s] \in {"closing", "closed"}
    /\ \A l \in loops : l.of \in retired /\ bound[IdOf[l.of]] = l.of

\* "Only these ids are cleared" (manager.ts:3974-3977): a record is forgotten
\* only when its connection has left the channel since it was written.
ClearedOnceApplied ==
    [][\A r \in store \ store' : r.chan # All /\ r.rec \in answered]_vars

\* A lost control frame "is recovered on reconnect/reconcile" (manager.ts:3685):
\* whoever has a record against it goes, unless the record is cleared first.
RevocationsReach ==
    /\ \A s \in Socket :
        (bound[IdOf[s]] = s /\ [target |-> IdOf[s], chan |-> All, rec |-> None] \in store)
            ~> bound[IdOf[s]] # s
    /\ \A i \in Id, c \in Channel, rec \in Revocation :
        LET r == [target |-> i, chan |-> c, rec |-> rec]
        IN (r \in store /\ i \in subscriptions[c]) ~> (r \notin store \/ i \notin subscriptions[c])
=============================================================================
