-------------------------- MODULE RedisClientProofs --------------------------
(***************************************************************************)
(* What the users of one Redis connection may rely on, for any number of   *)
(* commands, closes and connects: types, the owner of an open socket, the  *)
(* refusal window, and OrderedCalls.                                       *)
(*                                                                         *)
(* Three parts are added to the properties.  Chain: the links of the chain *)
(* are the requests that wait.  Wire: the socket carries the frame or the  *)
(* reply of the first link while it is exchanging, and nothing otherwise;  *)
(* what is adrift belongs to requests that failed.  Streak: the counts of  *)
(* the code are those of the history.                                      *)
(***************************************************************************)
EXTENDS RedisClient, SequenceTheorems, TLAPS

LEMMA TailOf ==
    ASSUME NEW S, NEW s \in Seq(S), s # <<>>
    PROVE  /\ Tail(s) \in Seq(S) /\ Head(s) \in S /\ Head(s) = s[1]
           /\ Len(s) \in Nat \ {0} /\ Len(Tail(s)) = Len(s) - 1
           /\ DOMAIN s = 1..Len(s) /\ DOMAIN Tail(s) = 1..(Len(s) - 1)
           /\ \A i \in 1..(Len(s) - 1) : Tail(s)[i] = s[i + 1]
  BY HeadTailProperties, LenProperties, EmptySeq

LEMMA AppendOf ==
    ASSUME NEW S, NEW s \in Seq(S), NEW e \in S
    PROVE  /\ Append(s, e) \in Seq(S) /\ Append(s, e) # <<>>
           /\ Len(s) \in Nat /\ Len(Append(s, e)) = Len(s) + 1
           /\ DOMAIN s = 1..Len(s) /\ DOMAIN Append(s, e) = 1..(Len(s) + 1)
           /\ \A i \in 1..Len(s) : Append(s, e)[i] = s[i]
           /\ Append(s, e)[Len(s) + 1] = e
  BY AppendProperties, LenProperties

LEMMA HeadOfAppend ==
    ASSUME NEW S, NEW s \in Seq(S), NEW e \in S, s # <<>>
    PROVE  Head(Append(s, e)) = Head(s)
  BY AppendOf, TailOf, 1 \in 1..Len(s)

LEMMA Singleton ==
    ASSUME NEW S, NEW e \in S
    PROVE  /\ <<e>> \in Seq(S) /\ <<e>> # <<>> /\ Head(<<e>>) = e /\ Tail(<<e>>) = <<>>
           /\ Append(<<>>, e) = <<e>> /\ {<<e>>[i] : i \in DOMAIN <<e>>} = {e}
  OBVIOUS

-----------------------------------------------------------------------------
\* What the shared parts of the actions do to the types.
Outcome == {"new", "waiting", "answered", "failed"}

LEMMA EndsTypes ==
    ASSUME ClientType, tail # <<>>, NEW r \in Request, NEW as \in Outcome, Ends(r, as)
    PROVE  tail' \in Seq(Request) /\ step' = "queued" /\ outcome' \in [Request -> Outcome]
  BY TailOf DEF ClientType, Ends, Outcome

LEMMA EnrolTypes ==
    ASSUME ClientType, Enrol
    PROVE  handle' \in BOOLEAN /\ enrolled' \in BOOLEAN /\ (handle = enrolled => enrolled')
  BY DEF ClientType, Enrol

LEMMA DiscardTypes ==
    ASSUME ClientType, Discard
    PROVE  /\ inbox' \in Seq(Request) /\ outbox' \in Seq(Request)
           /\ adrift' \subseteq Request /\ conn' = 0
  <1>1. \A i \in DOMAIN inbox : inbox[i] \in Request
    BY LenProperties DEF ClientType
  <1> QED  BY <1>1 DEF ClientType, Discard, None

LEMMA SendsTypes ==
    ASSUME ClientType, tail # <<>>, NEW r \in Request, NEW c \in Nat, Sends(r, c)
    PROVE  /\ tail' \in Seq(Request) /\ inbox' \in Seq(Request)
           /\ outcome' \in [Request -> Outcome] /\ got' = got
           /\ \/ step' = "queued"
              \/ step' = "exchanging" /\ tail' = tail
           /\ liveConn' \in Nat /\ successes' \in Nat /\ aged' \in BOOLEAN
           /\ attempts' = attempts /\ window' = window
  <1>1. successes' \in Nat /\ aged' \in BOOLEAN /\ liveConn' = c
    BY DEF ClientType, Sends
  <1>2. CASE r \in Oversized
    BY <1>1, <1>2, EndsTypes DEF Sends, Outcome, ClientType
  <1>3. CASE r \notin Oversized
    <2>1. /\ step' = "exchanging" /\ inbox' = Append(inbox, r)
          /\ UNCHANGED <<tail, outcome, attempts, window, got>>
      BY <1>3 DEF Sends
    <2>2. inbox' \in Seq(Request)
      BY <2>1, AppendOf DEF ClientType
    <2> QED  BY <1>1, <2>1, <2>2 DEF Outcome, ClientType
  <1> QED  BY <1>2, <1>3

\* Each step keeps the types.
LEMMA TypeStep == ClientType /\ [Next]_vars => ClientType'
  <1> SUFFICES ASSUME ClientType, [Next]_vars PROVE ClientType'  OBVIOUS
  <1> USE CommandAssumption DEF ClientType, Request, None
  <1>1. ASSUME NEW r \in Request, CallCommand(r) PROVE ClientType'
    BY <1>1, AppendOf DEF CallCommand, Queue, socket, owner, throttle, wire, history
  <1>2. ASSUME NEW r \in Request, CallClose(r) PROVE ClientType'
    <2>1. CASE conn = None /\ ~dialing
      BY <1>2, <2>1 DEF CallClose, socket, throttle, wire, history
    <2>2. CASE ~(conn = None /\ ~dialing)
      <3>1. tail' = Append(tail, r) /\ outcome' = [outcome EXCEPT ![r] = "waiting"]
        BY <1>2, <2>2 DEF CallClose, Queue
      <3>2. tail' \in Seq(Request) /\ tail' # <<>>
        BY <3>1, AppendOf
      <3> QED  BY <1>2, <2>2, <3>1, <3>2 DEF CallClose, Queue, socket, throttle, wire, history
    <2> QED  BY <2>1, <2>2
  <1>3. CASE CallConnect
    <2>1. CASE conn = None
      BY <1>3, <2>1 DEF CallConnect, owner, queue, throttle, wire, history
    <2>2. CASE conn # None
      BY <1>3, <2>2, EnrolTypes DEF CallConnect, queue, throttle, wire, history
    <2> QED  BY <2>1, <2>2
  <1>4. ASSUME NEW r \in Request, Refuse(r) PROVE ClientType'
    BY <1>4, TailOf DEF Refuse, Serving, Ends, socket, owner, throttle, wire, history
  <1>5. ASSUME NEW r \in Request, BeginOnSocket(r) PROVE ClientType'
    BY <1>5, EnrolTypes, SendsTypes DEF BeginOnSocket, Serving, Outcome, socket, history
  <1>6. ASSUME NEW r \in Request, BeginDial(r) PROVE ClientType'
    BY <1>6 DEF BeginDial, Serving, owner, throttle, wire, history
  <1>7. ASSUME NEW r \in Request, NothingToQuit(r) PROVE ClientType'
    BY <1>7, TailOf DEF NothingToQuit, Serving, Ends, socket, owner, throttle, wire, history
  <1>8. ASSUME NEW r \in Request, SendQuit(r) PROVE ClientType'
    BY <1>8, AppendOf DEF SendQuit, Serving, socket, owner, throttle, history
  <1>9. CASE DialSucceeds
    <2>1. CASE step = "dialing"
      <3>1. tail # <<>> /\ Head(tail) \in Request
        BY <2>1, TailOf
      <3>2. Sends(Head(tail), dialled + 1) /\ Enrol
        BY <1>9, <2>1 DEF DialSucceeds
      <3>3. /\ conn' = dialled + 1 /\ dialled' = dialled + 1 /\ dialing' = FALSE
            /\ served' = 0 /\ UNCHANGED <<outbox, adrift, applied, unproven, cooling, connects>>
        BY <1>9 DEF DialSucceeds
      <3>4. dialled + 1 \in Nat /\ dialled + 1 <= dialled + 1 /\ dialled + 1 # 0
        OBVIOUS
      <3>5. /\ tail' \in Seq(Request) /\ inbox' \in Seq(Request)
            /\ outcome' \in [Request -> Outcome] /\ got' = got
            /\ step' = "queued" \/ (step' = "exchanging" /\ tail' = tail)
            /\ liveConn' \in Nat /\ successes' \in Nat /\ aged' \in BOOLEAN
            /\ attempts' = attempts /\ window' = window
        <4> HIDE DEF Request, ClientType
        <4> QED  BY <3>1, <3>2, <3>4, SendsTypes
      <3>6. handle' \in BOOLEAN /\ enrolled' \in BOOLEAN
        BY <3>2, EnrolTypes
      <3> HIDE <1>9
      <3> QED  BY <3>1, <3>3, <3>4, <3>5, <3>6 DEF Outcome
    <2>2. CASE step # "dialing"
      <3>1. Enrol /\ UNCHANGED <<queue, throttle, inbox>>
        BY <1>9, <2>2 DEF DialSucceeds
      <3>2. /\ conn' = dialled + 1 /\ dialled' = dialled + 1 /\ dialing' = FALSE
            /\ served' = 0 /\ UNCHANGED <<outbox, adrift, applied, unproven, cooling, connects>>
        BY <1>9 DEF DialSucceeds
      <3>3. handle' \in BOOLEAN /\ enrolled' \in BOOLEAN
        BY <3>1, EnrolTypes
      <3>4. dialled + 1 \in Nat /\ dialled + 1 <= dialled + 1 /\ dialled + 1 # 0
        OBVIOUS
      <3>5. /\ UNCHANGED <<tail, step, outcome, got, inbox>>
            /\ UNCHANGED <<attempts, window, liveConn, successes, aged>>
        BY <3>1 DEF queue, throttle
      <3> HIDE <1>9
      <3> QED  BY <2>2, <3>2, <3>3, <3>4, <3>5
    <2> QED  BY <2>1, <2>2
  <1>10. CASE DialFails
    <2>1. CASE step = "dialing"
      <3>1. tail # <<>> /\ Head(tail) \in Request
        BY <2>1, TailOf
      <3> QED  BY <1>10, <2>1, <3>1, EndsTypes DEF DialFails, Outcome, owner, throttle, wire, history
    <2>2. CASE step # "dialing"
      BY <1>10, <2>2 DEF DialFails, owner, throttle, wire, history
    <2> QED  BY <2>1, <2>2
  <1>11. ASSUME NEW r \in Request, ReadReply(r) PROVE ClientType'
    BY <1>11, TailOf DEF ReadReply, Takes, Serving, Ends, CountSuccess, socket, owner
  <1>12. ASSUME NEW r \in Request, ReadError(r) PROVE ClientType'
    BY <1>12, TailOf DEF ReadError, Takes, Serving, Ends, socket, owner, throttle, history
  <1>13. ASSUME NEW r \in Request, Fault(r) PROVE ClientType'
    <2>1. attempts' \in Nat /\ unproven' \in Nat /\ window' \in BOOLEAN /\ cooling' \in BOOLEAN
      BY <1>13 DEF Fault, ArmWindow
    <2>2. /\ tail # <<>> /\ Ends(r, "failed") /\ Discard
          /\ UNCHANGED <<liveConn, successes, aged, dialing, dialled>>
          /\ UNCHANGED <<got, owner, applied, served, connects>>
      BY <1>13 DEF Fault, Serving, Discard, ArmWindow
    <2>3. tail' \in Seq(Request) /\ step' = "queued" /\ outcome' \in [Request -> Outcome]
      BY <2>2, EndsTypes DEF Outcome
    <2>4. /\ inbox' \in Seq(Request) /\ outbox' \in Seq(Request)
          /\ adrift' \subseteq Request /\ conn' = 0
      BY <2>2, DiscardTypes
    <2>5. conn' \in Nat /\ conn' <= dialled' /\ dialing' \in BOOLEAN /\ dialled' \in Nat
      BY <2>2, <2>4
    <2> HIDE <1>13
    <2> QED  BY <2>1, <2>2, <2>3, <2>4, <2>5 DEF Outcome, owner
  <1>14. ASSUME NEW r \in Request, QuitEnds(r) PROVE ClientType'
    <2>1. /\ tail # <<>> /\ Discard /\ \E as \in Outcome : Ends(r, as)
          /\ UNCHANGED <<dialing, dialled, owner, throttle, applied, history, connects>>
          /\ got' \in [Request -> Request]
      <3>1. tail # <<>> /\ Discard /\ UNCHANGED <<owner, throttle, applied, history, connects>>
        BY <1>14 DEF QuitEnds, Takes, Serving
      <3>2. \/ Ends(r, "answered") /\ got' \in [Request -> Request]
            \/ Ends(r, "failed") /\ got' = got
        BY <1>14, TailOf DEF QuitEnds, Takes
      <3> QED  BY <3>1, <3>2, Zenon DEF Discard, Outcome, ClientType
    <2>2. tail' \in Seq(Request) /\ step' = "queued" /\ outcome' \in [Request -> Outcome]
      BY <2>1, EndsTypes
    <2>3. /\ inbox' \in Seq(Request) /\ outbox' \in Seq(Request)
          /\ adrift' \subseteq Request /\ conn' = 0
      BY <2>1, DiscardTypes
    <2> QED  BY <2>1, <2>2, <2>3 DEF Outcome, owner, throttle, history
  <1>15. CASE ServerReads
    BY <1>15, TailOf, AppendOf DEF ServerReads, queue, socket, owner, throttle, history
  <1>16. ASSUME NEW r \in Request, ServerReadsLate(r) PROVE ClientType'
    BY <1>16 DEF ServerReadsLate, queue, socket, owner, throttle, history
  <1>17. CASE WindowPasses
    BY <1>17 DEF WindowPasses, queue, socket, owner, wire
  <1>19. CASE SocketAges
    BY <1>19 DEF SocketAges, queue, socket, owner, wire, history
  <1>18. CASE UNCHANGED vars
    BY <1>18 DEF vars, queue, socket, owner, throttle, wire, history
  <1> QED
    BY <1>1, <1>2, <1>3, <1>4, <1>5, <1>6, <1>7, <1>8, <1>9, <1>10, <1>11, <1>12,
       <1>13, <1>14, <1>15, <1>16, <1>17, <1>18, <1>19
       DEF Next, Begins, ExchangeEnds, DialEnds
-----------------------------------------------------------------------------
Chain == /\ \A i, j \in DOMAIN tail : tail[i] = tail[j] => i = j
         /\ \A r \in Request : outcome[r] = "waiting" <=> \E i \in DOMAIN tail : tail[i] = r

LEMMA QueueChain ==
    ASSUME ClientType, Chain, NEW r \in Request, outcome[r] = "new", Queue(r)
    PROVE  Chain'
  <1>1. /\ Len(tail) \in Nat /\ DOMAIN tail = 1..Len(tail) /\ DOMAIN tail' = 1..(Len(tail) + 1)
        /\ \A i \in 1..Len(tail) : tail'[i] = tail[i]
        /\ tail'[Len(tail) + 1] = r
    BY AppendOf DEF ClientType, Queue
  <1>2. \A i \in 1..Len(tail) : tail[i] # r
    BY <1>1 DEF Chain
  <1>3. \A i, j \in DOMAIN tail' : tail'[i] = tail'[j] => i = j
    <2> SUFFICES ASSUME NEW i \in DOMAIN tail', NEW j \in DOMAIN tail', tail'[i] = tail'[j]
                 PROVE  i = j
      OBVIOUS
    <2>1. i \in 1..Len(tail) \/ i = Len(tail) + 1
      BY <1>1
    <2>2. j \in 1..Len(tail) \/ j = Len(tail) + 1
      BY <1>1
    <2> QED  BY <1>1, <1>2, <2>1, <2>2 DEF Chain
  <1>4. ASSUME NEW q \in Request
        PROVE  outcome'[q] = "waiting" <=> \E i \in DOMAIN tail' : tail'[i] = q
    <2>1. CASE q = r
      <3>1. Len(tail) + 1 \in DOMAIN tail'
        BY <1>1
      <3>2. outcome'[q] = "waiting"
        BY <2>1 DEF Queue, ClientType
      <3> QED  BY <1>1, <2>1, <3>1, <3>2
    <2>2. CASE q # r
      <3>1. outcome'[q] = outcome[q]
        BY <2>2 DEF Queue, ClientType
      <3>2. (\E i \in 1..(Len(tail) + 1) : tail'[i] = q) <=> (\E i \in 1..Len(tail) : tail[i] = q)
        <4>1. \A i \in 1..(Len(tail) + 1) : i \in 1..Len(tail) \/ i = Len(tail) + 1
          BY <1>1
        <4>2. \A i \in 1..Len(tail) : i \in 1..(Len(tail) + 1)
          BY <1>1
        <4> QED  BY <1>1, <2>2, <4>1, <4>2
      <3> QED  BY <1>1, <3>1, <3>2 DEF Chain
    <2> QED  BY <2>1, <2>2
  <1> QED  BY <1>3, <1>4 DEF Chain

LEMMA EndsChain ==
    ASSUME ClientType, Chain, tail # <<>>, NEW as \in {"answered", "failed"},
           Ends(Head(tail), as)
    PROVE  Chain'
  <1>1. /\ Len(tail) \in Nat \ {0} /\ DOMAIN tail = 1..Len(tail) /\ Head(tail) \in Request
        /\ DOMAIN tail' = 1..(Len(tail) - 1) /\ Head(tail) = tail[1]
        /\ \A i \in 1..(Len(tail) - 1) : tail'[i] = tail[i + 1]
    BY TailOf DEF ClientType, Ends
  <1>2. \A i \in 1..(Len(tail) - 1) : i + 1 \in DOMAIN tail /\ i + 1 # 1
    BY <1>1
  <1>3. \A i, j \in DOMAIN tail' : tail'[i] = tail'[j] => i = j
    <2> SUFFICES ASSUME NEW i \in DOMAIN tail', NEW j \in DOMAIN tail', tail'[i] = tail'[j]
                 PROVE  i = j
      OBVIOUS
    <2>1. i + 1 = j + 1
      BY <1>1, <1>2 DEF Chain
    <2> QED  BY <1>1, <2>1
  <1>4. ASSUME NEW q \in Request
        PROVE  outcome'[q] = "waiting" <=> \E i \in DOMAIN tail' : tail'[i] = q
    <2>1. CASE q = Head(tail)
      <3>1. outcome'[q] # "waiting"
        BY <1>1, <2>1 DEF Ends, ClientType
      <3>2. \A i \in DOMAIN tail' : tail'[i] # q
        <4>1. 1 \in DOMAIN tail
          BY <1>1
        <4> QED  BY <1>1, <1>2, <2>1, <4>1 DEF Chain
      <3> QED  BY <3>1, <3>2
    <2>2. CASE q # Head(tail)
      <3>1. outcome'[q] = outcome[q]
        BY <2>2 DEF Ends, ClientType
      <3>2. ASSUME NEW i \in DOMAIN tail, tail[i] = q PROVE \E j \in DOMAIN tail' : tail'[j] = q
        <4>1. i - 1 \in 1..(Len(tail) - 1) /\ i - 1 + 1 = i
          BY <1>1, <2>2, <3>2
        <4> QED  BY <1>1, <3>2, <4>1
      <3>3. ASSUME NEW j \in DOMAIN tail', tail'[j] = q PROVE \E i \in DOMAIN tail : tail[i] = q
        BY <1>1, <1>2, <3>3
      <3> QED  BY <3>1, <3>2, <3>3 DEF Chain
    <2> QED  BY <2>1, <2>2
  <1> QED  BY <1>3, <1>4 DEF Chain

\* Every step keeps the chain: it queues a request, ends the first link, or neither.
LEMMA ChainStep == ClientType /\ Chain /\ [Next]_vars => Chain'
  <1> SUFFICES ASSUME ClientType, Chain, [Next]_vars PROVE Chain'  OBVIOUS
  <1>e. ASSUME tail # <<>>, NEW as \in {"answered", "failed"}, Ends(Head(tail), as)
        PROVE  Chain'
    BY <1>e, EndsChain
  <1>k. ASSUME tail' = tail, outcome' = outcome PROVE Chain'
    BY <1>k DEF Chain
  <1>s. ASSUME tail # <<>>, NEW c, Sends(Head(tail), c) PROVE Chain'
    BY <1>s, <1>e, <1>k DEF Sends
  <1>1. ASSUME NEW r \in Request, CallCommand(r) PROVE Chain'
    BY <1>1, QueueChain DEF CallCommand
  <1>2. ASSUME NEW r \in Request, CallClose(r) PROVE Chain'
    <2>1. CASE conn = None /\ ~dialing
      <3>1. /\ tail' = tail /\ outcome[r] = "new"
            /\ outcome' = [outcome EXCEPT ![r] = "failed"]
        BY <1>2, <2>1 DEF CallClose
      <3>2. \A q \in Request : outcome'[q] = "waiting" <=> outcome[q] = "waiting"
        BY <3>1 DEF ClientType
      <3> QED  BY <3>1, <3>2 DEF Chain
    <2>2. CASE ~(conn = None /\ ~dialing)
      BY <1>2, <2>2, QueueChain DEF CallClose
    <2> QED  BY <2>1, <2>2
  <1>3. CASE CallConnect \/ ServerReads \/ WindowPasses \/ SocketAges \/ UNCHANGED vars
    BY <1>3, <1>k DEF CallConnect, ServerReads, WindowPasses, SocketAges, vars, queue
  <1>4. ASSUME NEW r \in Request, Refuse(r) \/ NothingToQuit(r) PROVE Chain'
    BY <1>4, <1>e DEF Refuse, NothingToQuit, Serving
  <1>5. ASSUME NEW r \in Request, BeginOnSocket(r) PROVE Chain'
    BY <1>5, <1>s DEF BeginOnSocket, Serving
  <1>6. ASSUME NEW r \in Request, BeginDial(r) \/ SendQuit(r) \/ ServerReadsLate(r) PROVE Chain'
    BY <1>6, <1>k DEF BeginDial, SendQuit, ServerReadsLate, queue
  <1>7. CASE DialSucceeds
    <2>1. CASE step = "dialing"
      BY <1>7, <2>1, <1>s DEF DialSucceeds, ClientType
    <2>2. CASE step # "dialing"
      BY <1>7, <2>2, <1>k DEF DialSucceeds, queue
    <2> QED  BY <2>1, <2>2
  <1>8. CASE DialFails
    <2>1. CASE step = "dialing"
      BY <1>8, <2>1, <1>e DEF DialFails, ClientType
    <2>2. CASE step # "dialing"
      BY <1>8, <2>2, <1>k DEF DialFails
    <2> QED  BY <2>1, <2>2
  <1>9. ASSUME NEW r \in Request, ExchangeEnds(r) PROVE Chain'
    BY <1>9, <1>e DEF ExchangeEnds, ReadReply, ReadError, Fault, QuitEnds, Takes, Serving
  <1> QED
    BY <1>1, <1>2, <1>3, <1>4, <1>5, <1>6, <1>7, <1>8, <1>9 DEF Next, Begins, DialEnds
-----------------------------------------------------------------------------
Exchanging(r) == Serving(r) /\ step = "exchanging"

Wire == /\ step # "exchanging" => inbox = <<>> /\ outbox = <<>>
        /\ \A r \in Request : Exchanging(r) =>
              \/ inbox = <<r>> /\ outbox = <<>> /\ applied[r] = 0
              \/ inbox = <<>> /\ outbox = <<r>> /\ applied[r] = 1
        /\ \A r \in Request : outcome[r] \in {"new", "waiting"} /\ ~Exchanging(r) => applied[r] = 0
        /\ \A r \in adrift : outcome[r] = "failed" /\ applied[r] = 0
        /\ \A r \in Request : got[r] = r

\* The first link is a request that waits.
LEMMA FirstWaits ==
    ASSUME ClientType, Chain, tail # <<>>
    PROVE  Head(tail) \in Request /\ outcome[Head(tail)] = "waiting" /\ Serving(Head(tail))
  <1>1. Head(tail) \in Request /\ Head(tail) = tail[1] /\ 1 \in DOMAIN tail
    BY TailOf DEF ClientType
  <1> QED  BY <1>1 DEF Chain, Serving

\* The first link ends before it has sent anything.
LEMMA UnsentWire ==
    ASSUME ClientType, Chain, Wire, tail # <<>>, step # "exchanging", Ends(Head(tail), "failed"),
           UNCHANGED <<got, wire, applied>>
    PROVE  Wire'
  <1>1. step' = "queued" /\ ~(step' = "exchanging")
    BY DEF Ends
  <1>2. \A q \in Request : \/ outcome'[q] = outcome[q]
                           \/ q = Head(tail) /\ outcome'[q] = "failed"
    BY DEF Ends, ClientType
  <1>3. \A q \in adrift : q \in Request /\ q # Head(tail)
    BY FirstWaits DEF Wire, ClientType
  <1> QED  BY <1>1, <1>2, <1>3 DEF Wire, Exchanging, wire

\* The first link writes its frame.
LEMMA SentWire ==
    ASSUME ClientType, Chain, Wire, tail # <<>>, step # "exchanging",
           tail' = tail, outcome' = outcome, step' = "exchanging", got' = got,
           inbox' = Append(inbox, Head(tail)), UNCHANGED <<outbox, adrift, applied>>
    PROVE  Wire'
  <1>1. inbox' = <<Head(tail)>> /\ outbox' = <<>> /\ applied[Head(tail)] = 0
    BY FirstWaits, Singleton DEF Wire, Exchanging
  <1>2. \A q \in Request : Exchanging(q)' <=> q = Head(tail)
    BY DEF Exchanging, Serving
  <1> QED  BY <1>1, <1>2 DEF Wire, Exchanging

\* The first link reads its reply.
LEMMA AnsweredWire ==
    ASSUME ClientType, Chain, Wire, NEW r \in Request, Takes(r), UNCHANGED applied,
           inbox' = <<>>, outbox' = <<>>, adrift' = adrift
    PROVE  Wire'
  <1>1. Exchanging(r) /\ outbox = <<r>> /\ Head(outbox) = r /\ step' = "queued"
    BY Singleton DEF Takes, Ends, Wire, Exchanging
  <1>2. \A q \in Request : \/ outcome'[q] = outcome[q] /\ ~Exchanging(q)
                           \/ q = r /\ outcome'[q] = "answered"
    BY <1>1 DEF Takes, Ends, ClientType, Exchanging, Serving
  <1>3. \A q \in adrift : q \in Request /\ q # r
    BY <1>1, FirstWaits DEF Wire, ClientType, Exchanging, Serving
  <1>4. \A q \in Request : got'[q] = q
    BY <1>1 DEF Takes, Wire, ClientType
  <1> QED  BY <1>1, <1>2, <1>3, <1>4 DEF Wire, Exchanging

\* The first link fails, and its socket is given up with what it carried.
LEMMA FailedWire ==
    ASSUME ClientType, Chain, Wire, NEW r \in Request, Exchanging(r), Ends(r, "failed"), Discard,
           UNCHANGED <<got, applied>>
    PROVE  Wire'
  <1>1. step' = "queued" /\ inbox' = <<>> /\ outbox' = <<>>
    BY DEF Ends, Discard
  <1>2. \A q \in Request : \/ outcome'[q] = outcome[q] /\ ~Exchanging(q)
                           \/ q = r /\ outcome'[q] = "failed"
    BY DEF Ends, ClientType, Exchanging, Serving
  <1>3. adrift' = adrift \/ (adrift' = adrift \cup {r} /\ applied[r] = 0)
    <2>1. CASE inbox = <<r>> /\ applied[r] = 0
      BY <2>1, Singleton DEF Discard
    <2>2. CASE inbox = <<>>
      BY <2>2 DEF Discard
    <2> QED  BY <2>1, <2>2 DEF Wire
  <1>4. outcome'[r] = "failed"
    BY DEF Ends, ClientType
  <1>5. \A q \in adrift' : outcome'[q] = "failed" /\ applied'[q] = 0
    BY <1>2, <1>3, <1>4 DEF Wire, ClientType
  <1> QED  BY <1>1, <1>2, <1>5 DEF Wire, Exchanging

\* A request joins the chain, or is declined.
LEMMA AskedWire ==
    ASSUME ClientType, Chain, Wire, NEW r \in Request, outcome[r] = "new",
           NEW as \in {"waiting", "failed"}, outcome' = [outcome EXCEPT ![r] = as],
           tail' = tail \/ tail' = Append(tail, r),
           UNCHANGED <<step, got, wire, applied>>
    PROVE  Wire'
  <1>1. applied[r] = 0 /\ ~Exchanging(r)
    BY FirstWaits DEF Wire, Exchanging, Serving
  <1>2. step = "exchanging" => tail # <<>> /\ tail' # <<>> /\ Head(tail') = Head(tail)
    <2>1. CASE tail' = tail
      BY <2>1 DEF ClientType
    <2>2. CASE tail' = Append(tail, r)
      <3>1. step = "exchanging" => tail # <<>>
        BY DEF ClientType
      <3>2. tail' # <<>> /\ (tail # <<>> => Head(tail') = Head(tail))
        <4>1. tail \in Seq(Request)
          BY DEF ClientType
        <4> QED  BY <2>2, <4>1, AppendOf, HeadOfAppend
      <3> QED  BY <3>1, <3>2
    <2> QED  BY <2>1, <2>2
  <1>3. \A q \in Request : Exchanging(q)' <=> Exchanging(q)
    BY <1>2 DEF Exchanging, Serving
  <1>4. \A q \in Request : outcome'[q] = outcome[q] \/ q = r
    BY DEF ClientType
  <1>5. \A q \in adrift : q \in Request /\ q # r
    BY DEF Wire, ClientType
  <1> QED  BY <1>1, <1>3, <1>4, <1>5 DEF Wire, wire

LEMMA WireStep == ClientType /\ Chain /\ Wire /\ [Next]_vars => Wire'
  <1> SUFFICES ASSUME ClientType, Chain, Wire, [Next]_vars PROVE Wire'  OBVIOUS
  <1>k. ASSUME UNCHANGED <<tail, outcome, got, wire, applied>>,
               step' = step \/ (step # "exchanging" /\ step' # "exchanging")
        PROVE  Wire'
    BY <1>k DEF Wire, Exchanging, Serving, wire
  <1>s. ASSUME tail # <<>>, step # "exchanging", NEW c, Sends(Head(tail), c),
               UNCHANGED <<outbox, adrift, applied>>
        PROVE  Wire'
    <2>1. CASE Head(tail) \in Oversized
      BY <1>s, <2>1, UnsentWire DEF Sends, wire
    <2>2. CASE Head(tail) \notin Oversized
      BY <1>s, <2>2, SentWire DEF Sends
    <2> QED  BY <2>1, <2>2
  <1>1. ASSUME NEW r \in Request, CallCommand(r) PROVE Wire'
    BY <1>1, AskedWire DEF CallCommand, Queue
  <1>2. ASSUME NEW r \in Request, CallClose(r) PROVE Wire'
    BY <1>2, AskedWire DEF CallClose, Queue
  <1>3. CASE CallConnect \/ WindowPasses \/ SocketAges \/ UNCHANGED vars
    BY <1>3, <1>k DEF CallConnect, WindowPasses, SocketAges, vars, queue
  <1>4. ASSUME NEW r \in Request, Refuse(r) \/ NothingToQuit(r) PROVE Wire'
    BY <1>4, UnsentWire DEF Refuse, NothingToQuit, Serving
  <1>5. ASSUME NEW r \in Request, BeginOnSocket(r) PROVE Wire'
    BY <1>5, <1>s DEF BeginOnSocket, Serving
  <1>6. ASSUME NEW r \in Request, BeginDial(r) PROVE Wire'
    BY <1>6, <1>k DEF BeginDial
  <1>7. ASSUME NEW r \in Request, SendQuit(r) PROVE Wire'
    BY <1>7, SentWire DEF SendQuit, Serving
  <1>8. CASE DialSucceeds
    <2>1. CASE step = "dialing"
      BY <1>8, <2>1, <1>s DEF DialSucceeds, ClientType
    <2>2. CASE step # "dialing"
      BY <1>8, <2>2, <1>k DEF DialSucceeds, queue, wire
    <2> QED  BY <2>1, <2>2
  <1>9. CASE DialFails
    <2>1. CASE step = "dialing"
      BY <1>9, <2>1, UnsentWire DEF DialFails, ClientType
    <2>2. CASE step # "dialing"
      BY <1>9, <2>2, <1>k DEF DialFails
    <2> QED  BY <2>1, <2>2
  <1>10. ASSUME NEW r \in Request, ReadReply(r) \/ ReadError(r) PROVE Wire'
    <2>1. Takes(r) /\ outbox' = Tail(outbox) /\ UNCHANGED <<inbox, adrift, applied>>
      BY <1>10 DEF ReadReply, ReadError
    <2>2. inbox = <<>> /\ outbox = <<r>>
      BY <2>1, Singleton DEF Takes, Wire, Exchanging
    <2> QED  BY <2>1, <2>2, Singleton, AnsweredWire
  <1>11. ASSUME NEW r \in Request, Fault(r) PROVE Wire'
    BY <1>11, FailedWire DEF Fault, Exchanging
  <1>12. ASSUME NEW r \in Request, QuitEnds(r) PROVE Wire'
    <2>1. CASE Takes(r)
      <3>1. inbox = <<>>
        BY <2>1 DEF Takes, Wire, Exchanging
      <3>2. inbox' = <<>> /\ outbox' = <<>> /\ adrift' = adrift /\ applied' = applied
        BY <1>12, <3>1 DEF QuitEnds, Discard
      <3> QED  BY <2>1, <3>2, AnsweredWire
    <2>2. CASE ~Takes(r)
      BY <1>12, <2>2, FailedWire DEF QuitEnds, Exchanging
    <2> QED  BY <2>1, <2>2
  <1>13. CASE ServerReads
    <2>1. step = "exchanging" /\ tail # <<>>
      BY <1>13 DEF ServerReads, Wire, ClientType
    <2>2. PICK r \in Request : r = Head(tail)
      BY <2>1, FirstWaits
    <2>3. inbox = <<r>> /\ outbox = <<>> /\ applied[r] = 0
      BY <1>13, <2>1, <2>2 DEF ServerReads, Wire, Exchanging, Serving
    <2>4. inbox' = <<>> /\ outbox' = <<r>> /\ applied' = [applied EXCEPT ![r] = @ + 1]
      BY <1>13, <2>3, Singleton DEF ServerReads
    <2>5. applied'[r] = 1 /\ \A q \in Request \ {r} : applied'[q] = applied[q]
      BY <2>3, <2>4 DEF ClientType
    <2>6. \A q \in adrift : q \in Request \ {r}
      BY <2>1, <2>2, FirstWaits DEF Wire, ClientType
    <2>7. UNCHANGED <<tail, step, outcome, got, adrift>>
      BY <1>13 DEF ServerReads, queue
    <2>8. \A q \in Request : Exchanging(q) <=> q = r
      BY <2>1, <2>2 DEF Exchanging, Serving
    <2>9. \A q \in Request : Exchanging(q)' <=> q = r
      BY <2>7, <2>8 DEF Exchanging, Serving
    <2> QED  BY <2>1, <2>4, <2>5, <2>6, <2>7, <2>8, <2>9 DEF Wire
  <1>14. ASSUME NEW r \in Request, ServerReadsLate(r) PROVE Wire'
    <2>1. r \in adrift /\ outcome[r] = "failed" /\ adrift' = adrift \ {r}
      BY <1>14 DEF ServerReadsLate, Wire
    <2>2. \A q \in Request \ {r} : applied'[q] = applied[q]
      BY <1>14 DEF ServerReadsLate, ClientType
    <2>3. UNCHANGED <<tail, step, outcome, got, inbox, outbox>>
      BY <1>14 DEF ServerReadsLate, queue
    <2>4. ~Exchanging(r) /\ outcome[r] \notin {"new", "waiting"}
      BY <2>1, FirstWaits DEF Exchanging, Serving
    <2>5. \A q \in Request : Exchanging(q)' <=> Exchanging(q)
      BY <2>3 DEF Exchanging, Serving
    <2>6. \A q \in adrift' : q \in Request \ {r} /\ q \in adrift
      BY <2>1 DEF ClientType
    <2> QED  BY <2>2, <2>3, <2>4, <2>5, <2>6 DEF Wire
  <1> QED
    BY <1>1, <1>2, <1>3, <1>4, <1>5, <1>6, <1>7, <1>8, <1>9, <1>10, <1>11, <1>12, <1>13, <1>14
       DEF Next, Begins, ExchangeEnds, DialEnds
-----------------------------------------------------------------------------
Owned == handle = enrolled /\ NoOrphanSocket

\* A link of a command ends: the closes of the chain are all still there.
LEMMA ClosesStay ==
    ASSUME ClientType, tail # <<>>, Head(tail) \notin Close, tail' = Tail(tail)
    PROVE  (\E i \in DOMAIN tail : tail[i] \in Close) => \E i \in DOMAIN tail' : tail'[i] \in Close
  <1> SUFFICES ASSUME NEW i \in DOMAIN tail, tail[i] \in Close
               PROVE  \E j \in DOMAIN tail' : tail'[j] \in Close
    OBVIOUS
  <1>1. /\ Len(tail) \in Nat \ {0} /\ DOMAIN tail = 1..Len(tail) /\ Head(tail) = tail[1]
        /\ DOMAIN tail' = 1..(Len(tail) - 1)
        /\ \A j \in 1..(Len(tail) - 1) : tail'[j] = tail[j + 1]
    BY TailOf DEF ClientType
  <1>2. i - 1 \in 1..(Len(tail) - 1) /\ i - 1 + 1 = i
    BY <1>1
  <1> QED  BY <1>1, <1>2

LEMMA OwnedStep == ClientType /\ Owned /\ [Next]_vars => Owned'
  <1> SUFFICES ASSUME ClientType, Owned, [Next]_vars PROVE Owned'  OBVIOUS
  <1>k. ASSUME UNCHANGED <<tail, conn, owner>> PROVE Owned'
    BY <1>k DEF Owned, NoOrphanSocket, owner
  <1>n. ASSUME conn' = None, UNCHANGED owner PROVE Owned'
    BY <1>n DEF Owned, NoOrphanSocket, owner
  <1>o. ASSUME Enrol PROVE Owned'
    BY <1>o DEF Owned, NoOrphanSocket, Enrol, ClientType
  <1>e. ASSUME tail # <<>>, Head(tail) \in Command, tail' = Tail(tail), UNCHANGED <<conn, owner>>
        PROVE  Owned'
    BY <1>e, ClosesStay, CommandAssumption DEF Owned, NoOrphanSocket, owner
  <1>a. ASSUME NEW r \in Request, tail' = Append(tail, r), UNCHANGED <<conn, owner>> PROVE Owned'
    <2>1. \A i \in DOMAIN tail : i \in DOMAIN tail' /\ tail'[i] = tail[i]
      BY <1>a, AppendOf DEF ClientType
    <2> QED  BY <1>a, <2>1 DEF Owned, NoOrphanSocket, owner
  <1>1. ASSUME NEW r \in Request, CallCommand(r) PROVE Owned'
    BY <1>1, <1>a DEF CallCommand, Queue, socket
  <1>2. ASSUME NEW r \in Request, CallClose(r) PROVE Owned'
    <2>1. handle' = enrolled' /\ conn' = conn /\ r \in Close
      BY <1>2 DEF CallClose, socket
    <2>2. CASE conn = None
      BY <2>1, <2>2 DEF Owned, NoOrphanSocket
    <2>3. CASE conn # None
      <3>1. tail' = Append(tail, r)
        BY <1>2, <2>3 DEF CallClose, Queue
      <3>2. Len(tail) + 1 \in DOMAIN tail' /\ tail'[Len(tail) + 1] = r
        BY <3>1, AppendOf DEF ClientType
      <3> QED  BY <2>1, <3>2 DEF Owned, NoOrphanSocket
    <2> QED  BY <2>2, <2>3
  <1>3. CASE CallConnect
    <2>1. CASE conn = None
      BY <1>3, <2>1, <1>n DEF CallConnect
    <2>2. CASE conn # None
      BY <1>3, <2>2, <1>o DEF CallConnect
    <2> QED  BY <2>1, <2>2
  <1>4. ASSUME NEW r \in Request, Refuse(r) PROVE Owned'
    BY <1>4, <1>e DEF Refuse, Serving, Ends, socket
  <1>5. ASSUME NEW r \in Request, BeginOnSocket(r) PROVE Owned'
    BY <1>5, <1>o DEF BeginOnSocket
  <1>6. ASSUME NEW r \in Request, BeginDial(r) \/ SendQuit(r) PROVE Owned'
    BY <1>6, <1>k DEF BeginDial, SendQuit, socket
  <1>7. ASSUME NEW r \in Request, NothingToQuit(r) PROVE Owned'
    BY <1>7, <1>n DEF NothingToQuit, socket
  <1>8. CASE DialSucceeds
    BY <1>8, <1>o DEF DialSucceeds
  <1>9. CASE DialFails
    BY <1>9, <1>n DEF DialFails, ClientType
  <1>10. ASSUME NEW r \in Request, ReadReply(r) \/ ReadError(r) PROVE Owned'
    BY <1>10, <1>e DEF ReadReply, ReadError, Takes, Serving, Ends, socket
  <1>11. ASSUME NEW r \in Request, Fault(r) \/ QuitEnds(r) PROVE Owned'
    BY <1>11, <1>n DEF Fault, QuitEnds, Discard
  <1>12. CASE ServerReads \/ WindowPasses \/ SocketAges \/ UNCHANGED vars
    BY <1>12, <1>k DEF ServerReads, WindowPasses, SocketAges, vars, queue, socket
  <1>13. ASSUME NEW r \in Request, ServerReadsLate(r) PROVE Owned'
    BY <1>13, <1>k DEF ServerReadsLate, queue, socket
  <1> QED
    BY <1>1, <1>2, <1>3, <1>4, <1>5, <1>6, <1>7, <1>8, <1>9, <1>10, <1>11, <1>12, <1>13
       DEF Next, Begins, ExchangeEnds, DialEnds

-----------------------------------------------------------------------------
Streak == /\ attempts = unproven /\ RefusalsAreEarned /\ liveConn <= dialled
          /\ conn # None /\ liveConn = conn => served = successes
          /\ conn # None /\ liveConn # conn => served = 0
          /\ step = "exchanging" /\ Head(tail) \in Command => liveConn = conn

LEMMA StreakStep == ClientType /\ Streak /\ [Next]_vars => Streak'
  <1> SUFFICES ASSUME ClientType, Streak, [Next]_vars PROVE Streak'  OBVIOUS
  <1>k. ASSUME UNCHANGED <<step, socket, throttle, history>>, tail # <<>> => Head(tail') = Head(tail)
        PROVE  Streak'
    <2>1. step = "exchanging" => tail # <<>>
      BY DEF ClientType
    <2> QED  BY <1>k, <2>1 DEF Streak, RefusalsAreEarned, socket, throttle, history
  <1>n. ASSUME UNCHANGED <<conn, dialled, throttle, history>>, step' # "exchanging"
        PROVE  Streak'
    BY <1>n DEF Streak, RefusalsAreEarned, throttle, history
  <1>s. ASSUME NEW r \in Request, conn' # None, Sends(r, conn'), liveConn = conn' \/ served' = 0,
               dialled' \in Nat, conn' <= dialled', liveConn = conn' => conn' = conn,
               served' = served \/ liveConn # conn',
               UNCHANGED <<unproven, cooling>>
        PROVE  Streak'
    <2>1. /\ liveConn' = conn' /\ UNCHANGED <<attempts, window>>
          /\ successes' = IF conn' = liveConn THEN successes ELSE 0
      BY <1>s DEF Sends
    <2>2. served' = successes'
      BY <1>s, <2>1 DEF Streak
    <2> QED  BY <1>s, <2>1, <2>2 DEF Streak, RefusalsAreEarned
  <1>1. ASSUME NEW r \in Request, CallCommand(r) PROVE Streak'
    BY <1>1, <1>k, HeadOfAppend DEF CallCommand, Queue, ClientType
  <1>2. ASSUME NEW r \in Request, CallClose(r) PROVE Streak'
    <2>1. UNCHANGED <<step, socket, throttle, history>>
      BY <1>2 DEF CallClose, Queue
    <2>2. tail' = tail \/ tail' = Append(tail, r)
      BY <1>2 DEF CallClose, Queue
    <2>3. tail # <<>> => Head(tail') = Head(tail)
      BY <2>2, HeadOfAppend DEF ClientType
    <2> QED  BY <2>1, <2>3, <1>k
  <1>3. CASE CallConnect
    BY <1>3 DEF CallConnect, Streak, RefusalsAreEarned, queue, throttle, history
  <1>4. ASSUME NEW r \in Request, Refuse(r) \/ NothingToQuit(r) PROVE Streak'
    BY <1>4, <1>n DEF Refuse, NothingToQuit, Ends, socket
  <1>5. ASSUME NEW r \in Request, BeginOnSocket(r) PROVE Streak'
    BY <1>5, <1>s DEF BeginOnSocket, socket, history, Streak, ClientType
  <1>6. ASSUME NEW r \in Request, BeginDial(r) PROVE Streak'
    BY <1>6, <1>n DEF BeginDial
  <1>7. ASSUME NEW r \in Request, SendQuit(r) PROVE Streak'
    BY <1>7, CommandAssumption
       DEF SendQuit, Serving, Streak, RefusalsAreEarned, socket, throttle, history
  <1>8. CASE DialSucceeds
    <2>1. /\ conn' = dialled + 1 /\ dialled' = dialled + 1 /\ served' = 0
          /\ conn' # None /\ conn' <= dialled' /\ liveConn # conn' /\ dialled' \in Nat
          /\ liveConn <= dialled'
      BY <1>8 DEF DialSucceeds, Streak, ClientType, None
    <2>2. CASE step = "dialing"
      <3>1. Head(tail) \in Request
        BY <2>2, TailOf DEF ClientType
      <3> QED  BY <1>8, <2>1, <2>2, <3>1, <1>s DEF DialSucceeds
    <2>3. CASE step # "dialing"
      <3>1. step # "exchanging"
        BY <1>8 DEF DialSucceeds, ClientType
      <3>2. UNCHANGED <<attempts, window, liveConn, successes, step, unproven, cooling>>
        BY <1>8, <2>3 DEF DialSucceeds, queue, throttle
      <3> QED  BY <2>1, <3>1, <3>2 DEF Streak, RefusalsAreEarned
    <2> QED  BY <2>2, <2>3
  <1>9. CASE DialFails
    <2>1. step' # "exchanging"
      BY <1>9 DEF DialFails, Ends, ClientType
    <2> QED  BY <1>9, <2>1, <1>n DEF DialFails
  <1>10. ASSUME NEW r \in Request, ReadReply(r) PROVE Streak'
    <2>1. liveConn = conn /\ conn # None /\ served = successes
      BY <1>10 DEF ReadReply, Takes, Serving, Streak, ClientType
    <2>2. /\ step' = "queued" /\ served' = successes' /\ attempts' = unproven'
          /\ UNCHANGED <<liveConn, conn, dialled>>
      BY <1>10, <2>1 DEF ReadReply, Takes, Ends, CountSuccess, socket, Streak
    <2>3. window' <=> cooling'
      BY <1>10, <2>1 DEF ReadReply, CountSuccess, Streak, RefusalsAreEarned
    <2> QED  BY <2>1, <2>2, <2>3 DEF Streak, RefusalsAreEarned
  <1>11. ASSUME NEW r \in Request, ReadError(r) PROVE Streak'
    BY <1>11, <1>n DEF ReadError, Takes, Ends, socket
  <1>12. ASSUME NEW r \in Request, Fault(r) PROVE Streak'
    <2>1. /\ step' = "queued" /\ conn' = None /\ attempts' = unproven' /\ (window' <=> cooling')
          /\ UNCHANGED <<liveConn, dialled>>
      BY <1>12 DEF Fault, Ends, Discard, ArmWindow, Streak
    <2> QED  BY <2>1 DEF Streak, RefusalsAreEarned
  <1>13. ASSUME NEW r \in Request, QuitEnds(r) PROVE Streak'
    <2>1. /\ step' = "queued" /\ conn' = None /\ UNCHANGED <<dialled, throttle, history>>
      BY <1>13 DEF QuitEnds, Takes, Ends, Discard
    <2> QED  BY <2>1 DEF Streak, RefusalsAreEarned, throttle, history
  <1>14. CASE ServerReads \/ UNCHANGED vars
    BY <1>14, <1>k DEF ServerReads, vars, queue
  <1>15. ASSUME NEW r \in Request, ServerReadsLate(r) PROVE Streak'
    BY <1>15, <1>k DEF ServerReadsLate, queue
  <1>16. CASE WindowPasses
    BY <1>16 DEF WindowPasses, Streak, RefusalsAreEarned, queue, socket
  <1>17. CASE SocketAges
    BY <1>17 DEF SocketAges, Streak, RefusalsAreEarned, queue, socket, history
  <1> QED
    BY <1>1, <1>2, <1>3, <1>4, <1>5, <1>6, <1>7, <1>8, <1>9, <1>10, <1>11, <1>12, <1>13,
       <1>14, <1>15, <1>16, <1>17 DEF Next, Begins, ExchangeEnds, DialEnds
-----------------------------------------------------------------------------
(* The theorems.                                                           *)

IInv == ClientType /\ Chain /\ Wire /\ Owned /\ Streak

LEMMA InitIInv == Init => IInv
  <1> SUFFICES ASSUME Init PROVE IInv  OBVIOUS
  <1>1. ClientType
    <2>1. <<>> \in Seq(Request) /\ 0 \in Nat /\ 0 <= 0
      BY EmptySeq
    <2>2. applied \in [Request -> Nat] /\ got \in [Request -> Request]
      BY DEF Init
    <2> QED  BY <2>1, <2>2 DEF Init, ClientType, None
  <1>2. Chain
    BY EmptySeq DEF Init, Chain
  <1>3. Wire
    BY DEF Init, Wire, Exchanging, Serving
  <1>4. Owned
    BY DEF Init, Owned, NoOrphanSocket
  <1>5. Streak
    <2>1. 0 <= 0
      OBVIOUS
    <2> QED  BY <2>1 DEF Init, Streak, RefusalsAreEarned, None
  <1> QED  BY <1>1, <1>2, <1>3, <1>4, <1>5 DEF IInv

LEMMA Inductive == SafetySpec => []IInv
  <1>1. IInv /\ [Next]_vars => IInv'
    BY TypeStep, ChainStep, WireStep, OwnedStep, StreakStep DEF IInv
  <1> QED  BY <1>1, InitIInv, PTL DEF SafetySpec

\* Types, and what the first link's step says of the chain and of the socket.
THEOREM TypeCorrect == SafetySpec => []ClientType
  BY Inductive, PTL DEF IInv

\* For any calls: a socket that is open is held by the shutdown's handle or
\* awaits a QUIT.
THEOREM SocketsAreOwned == SafetySpec => []NoOrphanSocket
  <1>1. IInv => NoOrphanSocket
    BY DEF IInv, Owned
  <1> QED  BY <1>1, Inductive, PTL

\* Commands are refused exactly while a second fault in a row is waited out.
THEOREM WindowIsEarned == SafetySpec => []RefusalsAreEarned
  <1>1. IInv => RefusalsAreEarned
    BY DEF IInv, Streak
  <1> QED  BY <1>1, Inductive, PTL

\* Every step serves the requests as OrderedCalls has it, or leaves them alone.
LEMMA CallsStep == IInv /\ IInv' /\ [Next]_vars => [Calls!Next]_(Calls!vars)
  <1> SUFFICES ASSUME IInv, IInv', [Next]_vars PROVE [Calls!Next]_(Calls!vars)  OBVIOUS
  <1>0. Told = outcome /\ Told' = outcome' /\ ClientType /\ Chain /\ Wire
    <2>1. ClientType /\ Chain /\ Wire /\ ClientType' /\ Wire'
      BY DEF IInv
    <2>2. Told = [r \in Request |-> outcome[r]] /\ Told' = [r \in Request |-> outcome'[r]]
      BY <2>1 DEF Told, Wire
    <2>3. outcome = [r \in Request |-> outcome[r]] /\ outcome' = [r \in Request |-> outcome'[r]]
      BY <2>1 DEF ClientType
    <2> QED  BY <2>1, <2>2, <2>3
  <1>k. ASSUME UNCHANGED <<tail, outcome, applied>> PROVE UNCHANGED Calls!vars
    BY <1>0, <1>k DEF Calls!vars
  <1>f. ASSUME tail # <<>>, Ends(Head(tail), "failed"), UNCHANGED applied PROVE Calls!Next
    <2>1. Head(tail) \in Request
      BY <1>0, <1>f, FirstWaits
    <2>2. Calls!Fail(Head(tail))
      BY <1>0, <1>f DEF Ends, Calls!Fail, Calls!Settle, Calls!IsServed
    <2> QED  BY <2>1, <2>2 DEF Calls!Next
  <1>t. ASSUME NEW r \in Request, Takes(r), UNCHANGED applied PROVE Calls!Next
    <2>1. applied[r] = 1
      BY <1>0, <1>t DEF Takes, Wire, Exchanging
    <2>2. Calls!Answer(r)
      BY <1>0, <1>t, <2>1
         DEF Takes, Ends, Serving, Calls!Answer, Calls!Settle, Calls!IsServed
    <2> QED  BY <2>2 DEF Calls!Next
  <1>s. ASSUME tail # <<>>, NEW c, Sends(Head(tail), c), UNCHANGED applied
        PROVE  Calls!Next \/ UNCHANGED Calls!vars
    BY <1>s, <1>f, <1>k DEF Sends
  <1>q. ASSUME NEW r \in Request, outcome[r] = "new", Queue(r), UNCHANGED applied PROVE Calls!Next
    <2>1. Calls!Ask(r)
      BY <1>0, <1>q DEF Queue, Calls!Ask
    <2> QED  BY <2>1 DEF Calls!Next
  <1>1. ASSUME NEW r \in Request, CallCommand(r) PROVE Calls!Next
    BY <1>1, <1>q DEF CallCommand
  <1>2. ASSUME NEW r \in Request, CallClose(r) PROVE Calls!Next
    <2>1. CASE conn = None /\ ~dialing
      <3>1. Calls!Decline(r)
        BY <1>0, <1>2, <2>1 DEF CallClose, Calls!Decline
      <3> QED  BY <3>1 DEF Calls!Next
    <2>2. CASE ~(conn = None /\ ~dialing)
      BY <1>2, <2>2, <1>q DEF CallClose
    <2> QED  BY <2>1, <2>2
  <1>3. CASE CallConnect \/ WindowPasses \/ SocketAges \/ UNCHANGED vars
    BY <1>3, <1>k DEF CallConnect, WindowPasses, SocketAges, vars, queue
  <1>4. ASSUME NEW r \in Request, Refuse(r) \/ NothingToQuit(r) PROVE Calls!Next
    BY <1>4, <1>f DEF Refuse, NothingToQuit, Serving
  <1>5. ASSUME NEW r \in Request, BeginOnSocket(r) PROVE [Calls!Next]_(Calls!vars)
    BY <1>5, <1>s DEF BeginOnSocket, Serving
  <1>6. ASSUME NEW r \in Request, BeginDial(r) \/ SendQuit(r) PROVE UNCHANGED Calls!vars
    BY <1>6, <1>k DEF BeginDial, SendQuit
  <1>7. CASE DialSucceeds
    <2>1. CASE step = "dialing"
      BY <1>7, <2>1, <1>0, <1>s DEF DialSucceeds, ClientType
    <2>2. CASE step # "dialing"
      BY <1>7, <2>2, <1>k DEF DialSucceeds, queue
    <2> QED  BY <2>1, <2>2
  <1>8. CASE DialFails
    <2>1. CASE step = "dialing"
      BY <1>8, <2>1, <1>0, <1>f DEF DialFails, ClientType
    <2>2. CASE step # "dialing"
      BY <1>8, <2>2, <1>k DEF DialFails
    <2> QED  BY <2>1, <2>2
  <1>9. ASSUME NEW r \in Request, ReadReply(r) \/ ReadError(r) PROVE Calls!Next
    BY <1>9, <1>t DEF ReadReply, ReadError
  <1>10. ASSUME NEW r \in Request, Fault(r) \/ QuitEnds(r) PROVE Calls!Next
    BY <1>10, <1>f, <1>t DEF Fault, QuitEnds, Serving
  <1>11. CASE ServerReads
    <2>1. step = "exchanging" /\ tail # <<>>
      BY <1>0, <1>11 DEF ServerReads, Wire, ClientType
    <2>2. PICK r \in Request : r = Head(tail)
      BY <1>0, <2>1, FirstWaits
    <2>3. inbox = <<r>> /\ applied[r] = 0
      BY <1>0, <1>11, <2>1, <2>2 DEF ServerReads, Wire, Exchanging, Serving
    <2>4. applied' = [applied EXCEPT ![r] = 1] /\ UNCHANGED <<tail, outcome>>
      <3>1. Head(inbox) = r
        BY <2>3
      <3>2. applied' = [applied EXCEPT ![r] = @ + 1]
        BY <1>11, <3>1 DEF ServerReads
      <3>3. applied[r] + 1 = 1
        BY <2>3
      <3> QED  BY <1>11, <3>2, <3>3 DEF ServerReads, queue
    <2>5. Calls!Apply(r)
      BY <1>0, <2>1, <2>2, <2>3, <2>4 DEF Calls!Apply, Calls!IsServed
    <2> QED  BY <2>5 DEF Calls!Next
  <1>12. ASSUME NEW r \in Request, ServerReadsLate(r) PROVE Calls!Next
    <2>1. outcome[r] = "failed" /\ applied[r] = 0
      BY <1>0, <1>12 DEF ServerReadsLate, Wire
    <2>2. applied' = [applied EXCEPT ![r] = 1] /\ UNCHANGED <<tail, outcome>>
      <3>1. applied' = [applied EXCEPT ![r] = @ + 1] /\ applied[r] + 1 = 1
        BY <1>12, <2>1 DEF ServerReadsLate
      <3> QED  BY <1>12, <3>1 DEF ServerReadsLate, queue
    <2>3. Calls!Apply(r)
      BY <1>0, <2>1, <2>2 DEF Calls!Apply
    <2> QED  BY <2>3 DEF Calls!Next
  <1> QED
    BY <1>1, <1>2, <1>3, <1>4, <1>5, <1>6, <1>7, <1>8, <1>9, <1>10, <1>11, <1>12
       DEF Next, Begins, ExchangeEnds, DialEnds

\* For any calls, faults and late frames: the client implements OrderedCalls.
THEOREM Refinement == SafetySpec => ImplementsCalls
  <1>1. Init => Calls!Init
    BY DEF Init, Calls!Init, Told
  <1> QED
    BY <1>1, Inductive, CallsStep, PTL DEF SafetySpec, ImplementsCalls, Calls!Spec
=============================================================================
