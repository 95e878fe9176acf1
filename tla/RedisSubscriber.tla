--------------------------- MODULE RedisSubscriber ---------------------------
(***************************************************************************)
(* The subscribe-mode Redis connection (redis/subscriber.ts, connection.ts)*)
(* that carries events and control frames between instances: one socket at *)
(* a time, the names wanted on it, the frames queued for it, and what      *)
(* brings it back after a fault.  An activation is one run of #activate(): *)
(* it suspends at the dial, at each write and at the reconnect handler,    *)
(* and runs without interruption in between.  Sockets are numbered in the  *)
(* order in which they are dialled; 0 is none.                             *)
(***************************************************************************)
EXTENDS Integers, Sequences, SequencesExt

CONSTANTS Name,                 \* channels and patterns
          Control,              \* the names subscribed with { priority: true }
          Glob,                 \* the names subscribed by psubscribe()
          Activation,           \* activations that may be under way at once
          MaxCalls, MaxFaults,  \* bounds on calls, and on faults of the peer,
          MaxEvents             \* and on both together

ASSUME SubscriberAssumption == /\ Control \subseteq Name
                               /\ Glob \subseteq Name \ Control
                               /\ Activation \subseteq Nat \ {0}

VARIABLES recorded,   \* the names wanted, in the order of the `patterns` map
          closed,     \* close() has been called
          held,       \* the shutdown handle is registered
          sock,       \* AuthenticatedConnection.connection
          dialing,    \* its single-flight dial is under way
          gen,        \* the live SocketGeneration, or NoGeneration
          loopConn,   \* the socket whose read loop was started last
          loops,      \* the sockets whose read loop has not returned
          pinging,    \* the sockets with a keepalive interval
          retry,      \* the retry timer is armed
          intent,     \* #reconnectIntent
          act,        \* act[a]: where an activation stands
          peer,       \* Redis, as far as it concerns the live socket
          missed,     \* history: delivery was lost, and the handler not called since
          dialled, calls, faults

link == <<sock, gen, loopConn, pinging, peer, missed>>
vars == <<recorded, closed, held, dialing, loops, retry, intent, act, link,
          dialled, calls, faults>>

None == 0
NoGeneration == [sock |-> None, claimed |-> {}, acked |-> {}, chain |-> <<>>]
Fresh(c) == [NoGeneration EXCEPT !.sock = c]
SilentPeer == [subs |-> {}, acks |-> <<>>, down |-> FALSE]
NotRunning == [pc |-> "idle", sock |-> None, todo |-> <<>>, landed |-> FALSE, early |-> FALSE]

Init == /\ recorded = <<>> /\ closed = FALSE /\ held = FALSE
        /\ sock = None /\ dialing = FALSE /\ gen = NoGeneration
        /\ loopConn = None /\ loops = {} /\ pinging = {}
        /\ retry = FALSE /\ intent = FALSE
        /\ act = [a \in Activation |-> NotRunning]
        /\ peer = SilentPeer
        /\ missed = FALSE /\ dialled = 0 /\ calls = 0 /\ faults = 0

Recorded == ToSet(recorded)
Priority == Recorded \cap Control
Has(g, n) == n \in g.claimed \cup g.acked
Due(n, g) == n \in Recorded /\ ~Has(g, n)

\* Promises settle before the next timer or socket event: an activation that
\* can go on does so before anything that waits for one.
Settled == \A a \in Activation : act[a].pc # "resume"
\* A frame that fails on a peer that answers is a fault of its own.
Room == calls + faults < MaxEvents
Fault == Room /\ faults < MaxFaults /\ faults' = faults + 1
Faulted == IF peer.down THEN UNCHANGED faults ELSE Fault
MayCall == ~closed /\ Room /\ calls < MaxCalls /\ calls' = calls + 1

-----------------------------------------------------------------------------
(* What the handlers share.                                                *)

\* Bug: whatever generation is live is released.
DiscardAny(c) == /\ gen' = NoGeneration
                 /\ pinging' = pinging \ {c}
                 /\ sock' = IF sock = c THEN None ELSE sock
                 /\ peer' = IF sock = c THEN SilentPeer ELSE peer
                 /\ loopConn' = IF loopConn = c THEN None ELSE loopConn
                 /\ missed' = (missed \/ loopConn = c)

Discard(c) == /\ gen' = IF gen.sock = c THEN NoGeneration ELSE gen
              /\ pinging' = IF gen.sock = c THEN pinging \ {c} ELSE pinging
              /\ sock' = IF sock = c THEN None ELSE sock
              /\ peer' = IF sock = c THEN SilentPeer ELSE peer
              /\ loopConn' = IF loopConn = c THEN None ELSE loopConn
              /\ missed' = (missed \/ loopConn = c)

\* Bug: the last cause of a retry decides whether it is a reconnect.
ScheduleLastWins(isReconnect) == /\ retry' = (retry \/ ~closed)
                                 /\ intent' = IF closed THEN intent ELSE isReconnect

ScheduleRetry(isReconnect) == /\ retry' = (retry \/ ~closed)
                              /\ intent' = (intent \/ (isReconnect /\ ~closed))

Ends(a) == act' = [act EXCEPT ![a] = NotRunning]

\* The catch of #activate().
Fails(a) == /\ Ends(a)
            /\ IF closed THEN UNCHANGED <<link, retry, intent>>
               ELSE /\ Discard(act[a].sock)
                    /\ ScheduleRetry(loopConn = act[a].sock \/ act[a].early)

\* A generation displaced by that of c takes its interval with it.
Intervals(c) == {p \in pinging : p = gen.sock => p = c}

Issue(a, g, n, me) ==
    /\ gen' = [g EXCEPT !.claimed = @ \cup {n}, !.chain = Append(@, [name |-> n, by |-> a])]
    /\ pinging' = Intervals(g.sock)
    /\ act' = [act EXCEPT ![a] = [me EXCEPT !.pc = "writing"]]
    /\ UNCHANGED <<sock, loopConn, loops, intent, missed>>

\* The end of #activate(): nothing, when the socket is no longer the live one.
Finish(a, g, me) ==
    IF closed \/ sock # g.sock
      THEN Ends(a) /\ UNCHANGED <<gen, pinging, sock, loopConn, loops, intent, missed>>
      ELSE /\ gen' = g
           /\ loops' = IF loopConn = sock THEN loops ELSE loops \cup {sock}
           /\ loopConn' = sock
           /\ pinging' = Intervals(sock) \cup {sock}
           /\ intent' = FALSE
           /\ missed' = (missed /\ ~intent)
           /\ act' = [act EXCEPT ![a] = IF intent THEN [me EXCEPT !.pc = "ending"] ELSE NotRunning]
           /\ UNCHANGED sock

\* The loop of #activate(), up to the next write or to the end.
Proceed(a, g, me) ==
    \/ \E i \in DOMAIN me.todo :
          /\ Due(me.todo[i], g)
          /\ \A j \in 1..i - 1 : ~Due(me.todo[j], g)
          /\ Issue(a, g, me.todo[i], [me EXCEPT !.todo = SubSeq(@, i + 1, Len(@))])
    \/ /\ \A n \in ToSet(me.todo) : ~Due(n, g)
       /\ Finish(a, g, me)

FeedsTheSeam(n, me) == IF Priority = {} THEN ~me.landed ELSE n \in Priority

\* The reconnect handler is called from within the loop, and awaited.
Tell(a, g, me) == /\ gen' = g
                  /\ intent' = FALSE
                  /\ missed' = FALSE
                  /\ act' = [act EXCEPT ![a] = [me EXCEPT !.pc = "told", !.early = TRUE]]
                  /\ UNCHANGED <<sock, pinging, loopConn, loops>>

-----------------------------------------------------------------------------
(* Calls.                                                                  *)

Idle == {a \in Activation : act[a].pc = "idle"}

\* #activate(names) up to its first await: connect() hands back the live
\* socket, joins the dial under way or starts one.
Activate(names) ==
    /\ Idle # {}
    /\ act' = [act EXCEPT ![CHOOSE a \in Idle : TRUE] =
                  [NotRunning EXCEPT !.pc = IF sock = None THEN "dialing" ELSE "resume",
                                     !.sock = sock, !.todo = names]]
    /\ dialing' = (dialing \/ sock = None)

Psubscribe(n) ==
    /\ n \in Glob /\ MayCall
    /\ recorded' = IF n \in Recorded THEN recorded ELSE Append(recorded, n)
    /\ Activate(recorded')
    /\ UNCHANGED <<closed, held, loops, retry, intent, link, dialled, faults>>

SubscribeOne(n) ==
    /\ n \notin Glob /\ MayCall
    /\ recorded' = IF n \in Recorded THEN recorded ELSE Append(recorded, n)
    /\ Activate(<<n>>)
    /\ UNCHANGED <<closed, held, loops, retry, intent, link, dialled, faults>>

\* Bug: only the acknowledged half of the record is erased.
RetireAcked(g, n) == [g EXCEPT !.acked = @ \ {n}]

Retire(g, n) == [g EXCEPT !.claimed = @ \ {n}, !.acked = @ \ {n}]

UnsubscribeOne(n) ==
    /\ MayCall
    /\ IF n \in Recorded THEN \E i \in DOMAIN recorded : /\ recorded[i] = n
                                                        /\ recorded' = RemoveAt(recorded, i)
                         ELSE UNCHANGED recorded
    /\ gen' = IF gen.sock = None THEN gen
              ELSE [Retire(gen, n) EXCEPT !.chain = Append(@, [name |-> n, by |-> 0])]
    /\ UNCHANGED <<closed, held, dialing, loops, retry, intent, act, sock, loopConn,
                   pinging, peer, missed, dialled, faults>>

Close ==
    /\ ~closed
    /\ closed' = TRUE
    /\ retry' = FALSE
    /\ held' = FALSE
    /\ sock' = None /\ gen' = NoGeneration /\ peer' = SilentPeer
    /\ pinging' = pinging \ {gen.sock, sock}
    /\ loopConn' = None
    /\ UNCHANGED <<recorded, dialing, loops, intent, act, missed, dialled, calls, faults>>

-----------------------------------------------------------------------------
(* The dial.  AuthenticatedConnection coalesces it: whoever waits for it   *)
(* goes on with the same socket, or fails with the same error.             *)

DialSucceeds ==
    /\ dialing /\ Settled
    /\ dialing' = FALSE
    /\ dialled' = dialled + 1
    /\ sock' = dialled'
    /\ act' = [a \in Activation |-> IF act[a].pc = "dialing"
                                      THEN [act[a] EXCEPT !.pc = "resume", !.sock = dialled']
                                      ELSE act[a]]
    /\ UNCHANGED <<recorded, closed, held, gen, loopConn, loops, pinging, retry, intent,
                   peer, missed, calls, faults>>

DialFails ==
    /\ dialing /\ Settled
    /\ Fault
    /\ dialing' = FALSE
    /\ act' = [a \in Activation |-> IF act[a].pc = "dialing" THEN NotRunning ELSE act[a]]
    /\ ScheduleRetry(FALSE)
    /\ UNCHANGED <<recorded, closed, held, loops, link, dialled, calls>>

\* The priority names first, otherwise in the order given: the one sequence
\* of names in which that holds.
Ordered(names) ==
    LET Leads(i, j) == IF names[i] \in Priority THEN names[j] \in Priority => i < j
                                                ELSE names[j] \notin Priority /\ i < j
    IN {[k \in DOMAIN names |-> names[p[k]]] :
           p \in {p \in Bijection(DOMAIN names, DOMAIN names) :
                     \A k, l \in DOMAIN names : k < l => Leads(p[k], p[l])}}

Opens(a) == /\ held' = TRUE
            /\ \E names \in Ordered(act[a].todo) :
                  Proceed(a, IF gen.sock = act[a].sock THEN gen ELSE Fresh(act[a].sock),
                          [act[a] EXCEPT !.todo = names])

\* Bug: nothing is asked of `closed` after the dial.
ResumeUnasked(a) ==
    /\ act[a].pc = "resume"
    /\ Opens(a)
    /\ UNCHANGED <<recorded, closed, dialing, retry, peer, dialled, calls, faults>>

Resume(a) ==
    /\ act[a].pc = "resume"
    /\ IF closed THEN /\ Discard(act[a].sock) /\ Ends(a)
                      /\ UNCHANGED <<held, loops, intent>>
                 ELSE Opens(a) /\ UNCHANGED peer
    /\ UNCHANGED <<recorded, closed, dialing, retry, dialled, calls, faults>>

-----------------------------------------------------------------------------
(* The write chain: its head is the frame being written.                   *)

\* What Redis makes of a frame; it answers a subscription.
Received(f) == IF peer.down THEN peer
               ELSE IF f.by = 0 THEN [peer EXCEPT !.subs = @ \ {f.name}]
               ELSE [peer EXCEPT !.subs = @ \cup {f.name}, !.acks = Append(@, f.name)]

WriteLands ==
    /\ gen.chain # <<>> /\ Settled
    /\ LET f == Head(gen.chain)
           g == [gen EXCEPT !.chain = Tail(@)]
       IN /\ peer' = Received(f)
          /\ IF f.by = 0
               THEN gen' = g /\ UNCHANGED <<act, intent, missed, sock, pinging, loopConn, loops>>
               ELSE LET me == [act[f.by] EXCEPT !.landed = TRUE]
                    IN IF intent /\ FeedsTheSeam(f.name, act[f.by])
                         THEN Tell(f.by, g, me)
                         ELSE Proceed(f.by, g, me)
    /\ UNCHANGED <<recorded, closed, held, dialing, retry, dialled, calls, faults>>

\* The frame is cut short or times out: the socket is given up, by the
\* activation that wrote it or by unsubscribeOne().
WriteFails ==
    /\ gen.chain # <<>> /\ Settled
    /\ Faulted
    /\ LET f == Head(gen.chain)
       IN IF f.by # 0 THEN Fails(f.by)
          ELSE /\ Discard(gen.sock)
               /\ ScheduleRetry(loopConn = gen.sock)
               /\ UNCHANGED act
    /\ UNCHANGED <<recorded, closed, held, dialing, loops, dialled, calls>>

\* A write whose generation is gone is rejected, whatever became of its frame.
WriteAbandoned(a) ==
    /\ act[a].pc = "writing" /\ act[a].sock # gen.sock /\ Settled
    /\ Fails(a)
    /\ UNCHANGED <<recorded, closed, held, dialing, loops, dialled, calls, faults>>

HandlerReturns(a) ==
    /\ Settled
    /\ \/ /\ act[a].pc = "told"
          /\ IF act[a].sock = gen.sock
               THEN Proceed(a, gen, act[a]) /\ UNCHANGED <<peer, retry>>
               ELSE IF \E n \in ToSet(act[a].todo) : n \in Recorded
               THEN Fails(a) /\ UNCHANGED loops
               ELSE Finish(a, Fresh(act[a].sock), act[a]) /\ UNCHANGED <<peer, retry>>
       \/ /\ act[a].pc = "ending"
          /\ Ends(a)
          /\ UNCHANGED <<link, loops, retry, intent>>
    /\ UNCHANGED <<recorded, closed, held, dialing, dialled, calls, faults>>

-----------------------------------------------------------------------------
(* Timers, the read loop, and Redis.                                       *)

RetryFires ==
    /\ retry /\ Settled
    /\ retry' = FALSE
    /\ Activate(recorded)
    /\ UNCHANGED <<recorded, closed, held, loops, intent, link, dialled, calls, faults>>

\* Bug: the stalled PING discards the socket and leaves the rest to others.
StallDiscards(c) ==
    /\ c \in pinging /\ c = gen.sock /\ ~closed /\ Settled
    /\ Faulted
    /\ Discard(c)
    /\ UNCHANGED <<recorded, closed, held, dialing, loops, retry, intent, act, dialled, calls>>

KeepaliveStalls(c) ==
    /\ c \in pinging /\ c = gen.sock /\ ~closed /\ Settled
    /\ Faulted
    /\ Discard(c)
    /\ ScheduleRetry(TRUE)
    /\ UNCHANGED <<recorded, closed, held, dialing, loops, act, dialled, calls>>

\* The peer goes away without a word.
PeerGone ==
    /\ sock # None /\ ~peer.down /\ Settled
    /\ Fault
    /\ peer' = [peer EXCEPT !.down = TRUE]
    /\ UNCHANGED <<recorded, closed, held, dialing, sock, gen, loopConn, loops, pinging, retry,
                   intent, act, missed, dialled, calls>>

\* A read that ends with its socket, or with the liveness window.
LoopFaults(c) ==
    /\ c \in loops /\ (c # sock \/ peer.down) /\ Settled
    /\ loops' = loops \ {c}
    /\ IF closed THEN UNCHANGED <<link, retry, intent>>
                 ELSE Discard(c) /\ ScheduleRetry(TRUE)
    /\ UNCHANGED <<recorded, closed, held, dialing, act, dialled, calls, faults>>

\* A frame had just been read: the loop sees that its socket is gone.
LoopStops(c) ==
    /\ c \in loops /\ c # sock /\ Settled
    /\ loops' = loops \ {c}
    /\ UNCHANGED <<recorded, closed, held, dialing, link, retry, intent, act, dialled, calls,
                   faults>>

Confirm(g, n) == IF n \in g.claimed
                   THEN [g EXCEPT !.claimed = @ \ {n}, !.acked = @ \cup {n}]
                   ELSE g

ReadAck ==
    /\ sock \in loops /\ peer.acks # <<>> /\ Settled
    /\ gen' = Confirm(gen, Head(peer.acks))
    /\ peer' = [peer EXCEPT !.acks = Tail(@)]
    /\ UNCHANGED <<recorded, closed, held, dialing, sock, loopConn, loops, pinging, retry, intent,
                   act, missed, dialled, calls, faults>>

-----------------------------------------------------------------------------
Next == \/ \E n \in Name : Psubscribe(n) \/ SubscribeOne(n) \/ UnsubscribeOne(n)
        \/ Close
        \/ DialSucceeds \/ DialFails
        \/ WriteLands \/ WriteFails \/ RetryFires \/ PeerGone \/ ReadAck
        \/ \E a \in Activation : Resume(a) \/ WriteAbandoned(a) \/ HandlerReturns(a)
        \/ \E c \in 1..dialled : KeepaliveStalls(c) \/ LoopFaults(c) \/ LoopStops(c)

Safety == Init /\ [][Next]_vars

\* Dials, writes and reads end, by their deadlines at the latest; timers fire;
\* the reconnect handler returns.
Spec == /\ Safety
        /\ WF_vars(DialSucceeds) /\ WF_vars(WriteLands \/ WriteFails)
        /\ WF_vars(RetryFires) /\ WF_vars(ReadAck)
        /\ \A a \in Activation : WF_vars(Resume(a)) /\ WF_vars(WriteAbandoned(a))
                                 /\ WF_vars(HandlerReturns(a))
        /\ \A c \in 1..MaxFaults + 1 : WF_vars(LoopFaults(c) \/ LoopStops(c))

-----------------------------------------------------------------------------
Frame == [name : Name, by : Activation \cup {0}]

\* Types; an acknowledged name is no longer claimed, and a keepalive interval
\* is that of the live generation.
SubscriberType ==
    /\ recorded \in Seq(Name) /\ IsInjective(recorded)
    /\ {closed, held, dialing, retry, intent, missed} \subseteq BOOLEAN
    /\ gen.sock \in {None, sock} /\ gen.chain \in Seq(Frame)
    /\ gen.claimed \cup gen.acked \subseteq Name /\ gen.claimed \cap gen.acked = {}
    /\ loopConn \in {None, sock}
    /\ loops \subseteq 1..dialled /\ pinging \subseteq {gen.sock} \ {None}
    /\ \A a \in Activation :
          /\ act[a].pc \in {"idle", "dialing", "resume", "writing", "told", "ending"}
          /\ act[a].pc = "dialing" => dialing

\* Whether Redis will hold n: the last frame queued for it decides.
WillHold(subs, chain, n) ==
    LET Frames == {i \in DOMAIN chain : chain[i].name = n}
    IN \/ Frames = {} /\ n \in subs
       \/ \E i \in Frames : chain[i].by # 0 /\ \A j \in Frames : j <= i

\* What the socket will be subscribed to once the queued frames are written
\* is what is recorded of it, and the name of a handler: claim() and retire()
\* go with their frames (subscriber.ts:315-329), and a late acknowledgement
\* of a retired name is dropped (subscriber.ts:335-345).
WireMatchesRecord ==
    gen.sock # None /\ ~peer.down =>
        \A n \in Name : /\ WillHold(peer.subs, gen.chain, n) <=> Has(gen, n)
                        /\ Has(gen, n) => n \in Recorded

Working(a) == \/ act[a].pc = "dialing"
              \/ act[a].pc \in {"resume", "writing", "told"} /\ act[a].sock = sock

\* "Abandoning is not an outcome" (subscriber.ts:1065-1068): while the
\* connection is open, a retry is due, or every name wanted is on the live
\* socket or in the hands of an activation that will issue it there, and that
\* socket is read or about to be.
NeverDeaf ==
    ~closed => \/ retry
               \/ /\ \A n \in Recorded :
                        \/ Has(gen, n)
                        \/ \E a \in Activation : Working(a) /\ n \in ToSet(act[a].todo)
                  /\ sock # None => \/ loopConn = sock /\ sock \in loops
                                    \/ \E a \in Activation : Working(a)

\* close() leaves nothing behind, whatever was under way: the socket of a
\* dial that ends later is given up at once, and no timer, interval or
\* handle comes back (subscriber.ts:1081-1087, 1202-1216).
ClosedHoldsNothing ==
    closed => /\ ~held /\ ~retry /\ pinging = {} /\ gen = NoGeneration
              /\ Settled => sock = None

\* Once the faults are over the connection delivers exactly what is wanted,
\* on a socket that is read and kept alive, and an outage that had interrupted
\* delivery was reported to the reconnect handler.
Recovered == /\ peer.subs = Recorded /\ ~peer.down
             /\ Recorded # {} => /\ sock = loopConn /\ sock \in loops /\ sock \in pinging
                                 /\ gen.acked = Recorded
             /\ ~missed /\ ~retry

Converges == <>[](closed \/ Recovered)
=============================================================================
