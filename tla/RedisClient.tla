------------------------------ MODULE RedisClient ------------------------------
(***************************************************************************)
(* The command client of one Redis connection (redis/client.ts over        *)
(* connection.ts), shared by the session, queue, cache and lock drivers:   *)
(* commands are links of one promise chain (commandTail), each of which    *)
(* dials when there is no socket, writes its frame and reads one reply.    *)
(* close() queues a QUIT behind them; connect() dials outside the chain.   *)
(*                                                                         *)
(* Nothing in a frame or a reply says which command it belongs to: what a  *)
(* command reads is whatever comes next on the socket.  A socket that is   *)
(* given up may still hold a frame the server reads later (adrift).        *)
(*                                                                         *)
(* Times are two flags: whether the refusal window is over, and whether    *)
(* the socket is older than the delay it must survive.  Sockets are        *)
(* numbered as they are dialled; 0 is none.                                *)
(***************************************************************************)
EXTENDS Naturals, Sequences

CONSTANTS Command,      \* calls of command(), numbered as they are made
          Oversized,    \* those whose frame is too large to be sent
          Close,        \* calls of close()
          MaxConnects   \* bound on calls of connect()

ASSUME CommandAssumption == /\ Command \subseteq Nat
                            /\ Oversized \subseteq Command
                            /\ Command \cap Close = {}
ASSUME BoundAssumption == MaxConnects \in Nat

Request == Command \cup Close

VARIABLES tail,       \* commandTail: the links that have not ended, in order
          step,       \* the first link: "queued", "dialing" or "exchanging"
          outcome,    \* of each request: "new", "waiting", "answered" or "failed"
          got,        \* the request whose reply it was given, or itself
          conn,       \* AuthenticatedConnection.connection
          dialing,    \* its single-flight dial is under way
          handle,     \* #handle is set
          enrolled,   \* the process's disposables hold that handle
          attempts,   \* #attempts
          window,     \* #windowUntil is set and still to come
          liveConn,   \* #liveConn
          successes,  \* #successesOnConn
          aged,       \* liveConn is as old as the survival threshold
          inbox,      \* frames on the socket the server has not read,
          outbox,     \* and replies the client has not
          adrift,     \* frames on sockets that were given up
          applied,    \* times the server carried out each request
          unproven,   \* history: faults since a socket served two replies and aged
          served,     \* history: replies read from the socket now open
          cooling,    \* history: a second fault in a row has not been waited out
          dialled, connects

queue == <<tail, step, outcome, got>>
socket == <<conn, dialing, dialled>>
owner == <<handle, enrolled>>
throttle == <<attempts, window, liveConn, successes, aged>>
wire == <<inbox, outbox, adrift>>
history == <<unproven, served, cooling>>
vars == <<queue, socket, owner, throttle, wire, applied, history, connects>>

None == 0

Init == /\ tail = <<>> /\ step = "queued"
        /\ outcome = [r \in Request |-> "new"]
        /\ got = [r \in Request |-> r]
        /\ conn = None /\ dialing = FALSE /\ dialled = 0
        /\ handle = FALSE /\ enrolled = FALSE
        /\ attempts = 0 /\ window = FALSE
        /\ liveConn = None /\ successes = 0 /\ aged = FALSE
        /\ inbox = <<>> /\ outbox = <<>> /\ adrift = {}
        /\ applied = [r \in Request |-> 0]
        /\ unproven = 0 /\ served = 0 /\ cooling = FALSE /\ connects = 0

Serving(r) == tail # <<>> /\ r = Head(tail)

-----------------------------------------------------------------------------
(* What the handlers share.                                                *)

\* A link ends: the promise of r settles, and the next link may begin.
Ends(r, as) == /\ tail' = Tail(tail)
               /\ step' = "queued"
               /\ outcome' = [outcome EXCEPT ![r] = as]

\* The wrapper connect(): ??= enrols at most one handle.
Enrol == /\ handle' = TRUE
         /\ enrolled' = (enrolled \/ ~handle)

\* AuthenticatedConnection.discard().
Discard == /\ conn' = None
           /\ adrift' = adrift \cup {inbox[i] : i \in DOMAIN inbox}
           /\ inbox' = <<>> /\ outbox' = <<>>
           /\ UNCHANGED <<dialing, dialled>>

\* #armWindow(): the first fault in a row opens none.
ArmWindow == /\ attempts' = attempts + 1
             /\ window' = (attempts > 0)
             /\ UNCHANGED <<liveConn, successes, aged>>

\* Bug: one reply clears the streak.
CountArrival == /\ successes' = successes + 1
                /\ attempts' = IF aged THEN 0 ELSE attempts
                /\ window' = (window /\ ~aged)
                /\ UNCHANGED <<liveConn, aged>>

\* #reportHealthy(), after the reply is counted.
CountSuccess == LET proven == successes > 0 /\ aged
                IN /\ successes' = successes + 1
                   /\ attempts' = IF proven THEN 0 ELSE attempts
                   /\ window' = (window /\ ~proven)
                   /\ UNCHANGED <<liveConn, aged>>

\* The rest of a command's link once connect() has given it socket c: a new
\* socket restarts the counts; a frame that is too large is never written.
Sends(r, c) ==
    /\ liveConn' = c
    /\ successes' = IF c = liveConn THEN successes ELSE 0
    /\ aged' = (aged /\ c = liveConn)
    /\ UNCHANGED <<attempts, window, got>>
    /\ IF r \in Oversized
         THEN Ends(r, "failed") /\ UNCHANGED inbox
         ELSE step' = "exchanging" /\ inbox' = Append(inbox, r) /\ UNCHANGED <<tail, outcome>>
-----------------------------------------------------------------------------
(* Calls.                                                                  *)

Queue(r) == /\ tail' = Append(tail, r)
            /\ outcome' = [outcome EXCEPT ![r] = "waiting"]
            /\ UNCHANGED <<step, got>>

\* command(): queued, whatever the state of the connection.
CallCommand(r) == /\ r \in Command /\ outcome[r] = "new"
                  /\ \A q \in Command : q < r => outcome[q] # "new"
                  /\ Queue(r)
                  /\ UNCHANGED <<socket, owner, throttle, wire, applied, history, connects>>

\* Bug: the handle is withdrawn, and its field kept.
CallCloseKeepsField(r) ==
    /\ r \in Close /\ outcome[r] = "new"
    /\ enrolled' = FALSE /\ UNCHANGED handle
    /\ IF conn = None /\ ~dialing
         THEN outcome' = [outcome EXCEPT ![r] = "failed"] /\ UNCHANGED <<tail, step, got>>
         ELSE Queue(r)
    /\ UNCHANGED <<socket, throttle, wire, applied, history, connects>>

\* close(): the handle is withdrawn at once, the QUIT waits for its turn.
CallClose(r) == /\ r \in Close /\ outcome[r] = "new"
                /\ handle' = FALSE /\ enrolled' = FALSE
                /\ IF conn = None /\ ~dialing
                     THEN /\ outcome' = [outcome EXCEPT ![r] = "failed"]
                          /\ UNCHANGED <<tail, step, got>>
                     ELSE Queue(r)
                /\ UNCHANGED <<socket, throttle, wire, applied, history, connects>>

\* connect(), by a caller: it takes no place in the chain.
CallConnect == /\ connects < MaxConnects
               /\ connects' = connects + 1
               /\ IF conn = None THEN dialing' = TRUE /\ UNCHANGED owner
                                 ELSE Enrol /\ UNCHANGED dialing
               /\ UNCHANGED <<conn, dialled, queue, throttle, wire, applied, history>>

-----------------------------------------------------------------------------
(* The first link of the chain.                                            *)

Refuse(r) == /\ r \in Command /\ Serving(r) /\ step = "queued" /\ window
             /\ Ends(r, "failed")
             /\ UNCHANGED <<got, socket, owner, throttle, wire, applied, history, connects>>

BeginOnSocket(r) ==
    /\ r \in Command /\ Serving(r) /\ step = "queued" /\ ~window /\ conn # None
    /\ Enrol
    /\ Sends(r, conn)
    /\ UNCHANGED <<socket, outbox, adrift, applied, history, connects>>

BeginDial(r) == /\ r \in Command /\ Serving(r) /\ step = "queued" /\ ~window /\ conn = None
                /\ step' = "dialing" /\ dialing' = TRUE
                /\ UNCHANGED <<tail, outcome, got, conn, dialled, owner, throttle, wire,
                               applied, history, connects>>

\* The link of close(), with nothing left to close, or a QUIT to write.
NothingToQuit(r) == /\ r \in Close /\ Serving(r) /\ step = "queued" /\ conn = None
                    /\ Ends(r, "failed")
                    /\ UNCHANGED <<got, socket, owner, throttle, wire, applied, history, connects>>

SendQuit(r) == /\ r \in Close /\ Serving(r) /\ step = "queued" /\ conn # None
               /\ step' = "exchanging" /\ inbox' = Append(inbox, r)
               /\ UNCHANGED <<tail, outcome, got, socket, owner, throttle, outbox, adrift,
                              applied, history, connects>>

\* Dial, AUTH and SELECT have ended; whoever awaited them goes on.
DialSucceeds ==
    /\ dialing
    /\ conn' = dialled + 1 /\ dialled' = dialled + 1 /\ dialing' = FALSE
    /\ Enrol
    /\ served' = 0
    /\ IF step = "dialing" THEN Sends(Head(tail), dialled + 1)
                           ELSE UNCHANGED <<queue, throttle, inbox>>
    /\ UNCHANGED <<outbox, adrift, applied, unproven, cooling, connects>>

\* The rejection arms no window: it is raised outside the link's try.
DialFails ==
    /\ dialing
    /\ dialing' = FALSE
    /\ IF step = "dialing" THEN Ends(Head(tail), "failed")
                           ELSE UNCHANGED <<tail, step, outcome>>
    /\ UNCHANGED <<got, conn, dialled, owner, throttle, wire, applied, history, connects>>
-----------------------------------------------------------------------------
(* The end of an exchange.                                                 *)

Takes(r) == /\ Serving(r) /\ step = "exchanging" /\ outbox # <<>>
            /\ Ends(r, "answered")
            /\ got' = [got EXCEPT ![r] = Head(outbox)]

\* A reply.
ReadReply(r) == LET proven == served > 0 /\ aged
                IN /\ r \in Command /\ Takes(r)
                   /\ outbox' = Tail(outbox)
                   /\ CountSuccess
                   /\ served' = served + 1
                   /\ unproven' = IF proven THEN 0 ELSE unproven
                   /\ cooling' = (cooling /\ ~proven)
                   /\ UNCHANGED <<socket, owner, inbox, adrift, applied, connects>>

\* An error reply is a whole reply: the socket is kept, nothing is counted.
ReadError(r) == /\ r \in Command /\ Takes(r)
                /\ outbox' = Tail(outbox)
                /\ UNCHANGED <<socket, owner, throttle, inbox, adrift, applied, history, connects>>

\* Bug: the socket is kept after a fault.
FaultKeepsSocket(r) == /\ r \in Command /\ Serving(r) /\ step = "exchanging"
                       /\ Ends(r, "failed")
                       /\ ArmWindow
                       /\ unproven' = unproven + 1
                       /\ cooling' = (unproven > 0)
                       /\ UNCHANGED <<got, socket, owner, wire, applied, served, connects>>

\* A wire fault, a deadline or a malformed reply.
Fault(r) == /\ r \in Command /\ Serving(r) /\ step = "exchanging"
            /\ Ends(r, "failed")
            /\ Discard
            /\ ArmWindow
            /\ unproven' = unproven + 1
            /\ cooling' = (unproven > 0)
            /\ UNCHANGED <<got, owner, applied, served, connects>>

\* However its QUIT ends, close() discards the socket.
QuitEnds(r) == /\ r \in Close
               /\ \/ Takes(r)
                  \/ /\ Serving(r) /\ step = "exchanging"
                     /\ Ends(r, "failed") /\ UNCHANGED got
               /\ Discard
               /\ UNCHANGED <<owner, throttle, applied, history, connects>>

-----------------------------------------------------------------------------
(* The server, and time.                                                   *)

ServerReads == /\ inbox # <<>>
               /\ applied' = [applied EXCEPT ![Head(inbox)] = @ + 1]
               /\ outbox' = Append(outbox, Head(inbox))
               /\ inbox' = Tail(inbox)
               /\ UNCHANGED <<queue, socket, owner, throttle, adrift, history, connects>>

\* A frame left on a socket that was given up is read late, or never.
ServerReadsLate(r) == /\ r \in adrift
                      /\ adrift' = adrift \ {r}
                      /\ applied' = [applied EXCEPT ![r] = @ + 1]
                      /\ UNCHANGED <<queue, socket, owner, throttle, inbox, outbox, history, connects>>

WindowPasses == /\ window
                /\ window' = FALSE /\ cooling' = FALSE
                /\ UNCHANGED <<queue, socket, owner, attempts, liveConn, successes, aged, wire,
                               applied, unproven, served, connects>>

SocketAges == /\ ~aged /\ liveConn # None
              /\ aged' = TRUE
              /\ UNCHANGED <<queue, socket, owner, attempts, window, liveConn, successes, wire,
                             applied, history, connects>>

Begins(r) == Refuse(r) \/ BeginOnSocket(r) \/ BeginDial(r) \/ NothingToQuit(r) \/ SendQuit(r)

\* Bug: no deadline bounds an exchange.
ExchangeUnbounded(r) == ReadReply(r) \/ ReadError(r) \/ QuitEnds(r)

ExchangeEnds(r) == ReadReply(r) \/ ReadError(r) \/ Fault(r) \/ QuitEnds(r)

DialEnds == DialSucceeds \/ DialFails

Next == \/ \E r \in Request : \/ CallCommand(r) \/ CallClose(r)
                              \/ Begins(r) \/ ExchangeEnds(r) \/ ServerReadsLate(r)
        \/ CallConnect \/ DialEnds \/ ServerReads \/ WindowPasses \/ SocketAges

\* Microtasks run; dials end, and so do exchanges, by their deadlines at the latest.
Fairness == /\ WF_vars(\E r \in Request : Begins(r))
            /\ WF_vars(\E r \in Request : ExchangeEnds(r))
            /\ WF_vars(DialEnds)

SafetySpec == Init /\ [][Next]_vars
Spec == SafetySpec /\ Fairness
-----------------------------------------------------------------------------
(* Properties.                                                             *)

\* Types, and what the first link's step says of the chain and of the socket.
ClientType ==
    /\ tail \in Seq(Request) /\ step \in {"queued", "dialing", "exchanging"}
    /\ outcome \in [Request -> {"new", "waiting", "answered", "failed"}]
    /\ got \in [Request -> Request]
    /\ conn \in Nat /\ dialled \in Nat /\ conn <= dialled
    /\ dialing \in BOOLEAN /\ handle \in BOOLEAN /\ enrolled \in BOOLEAN
    /\ window \in BOOLEAN /\ aged \in BOOLEAN /\ cooling \in BOOLEAN
    /\ attempts \in Nat /\ liveConn \in Nat /\ successes \in Nat
    /\ inbox \in Seq(Request) /\ outbox \in Seq(Request) /\ adrift \subseteq Request
    /\ applied \in [Request -> Nat]
    /\ unproven \in Nat /\ served \in Nat /\ connects \in Nat
    /\ dialing => conn = None
    /\ step = "dialing" => tail # <<>> /\ dialing
    /\ step = "exchanging" => tail # <<>> /\ conn # None

\* Every caller is given the reply to its own command, or an error: requests are
\* carried out in the order in which they were made, once if they are answered
\* and at most once if they are not, whatever is lost or late.
Told == [r \in Request |-> IF outcome[r] = "answered" /\ got[r] # r THEN "confused"
                                                                 ELSE outcome[r]]
Calls == INSTANCE OrderedCalls WITH line <- tail, outcome <- Told
ImplementsCalls == Calls!Spec

\* A socket that is open can be released: the shutdown holds its handle, or a
\* QUIT is on its way; close(), connect() and dials come in any order.
NoOrphanSocket == conn # None => enrolled \/ \E i \in DOMAIN tail : tail[i] \in Close

\* Commands are refused exactly while a second fault in a row has not been
\* waited out, where only a socket that lasted and served two replies ends a row.
RefusalsAreEarned == window <=> cooling

\* Every command and every close() settles.
CallersSettle == \A r \in Request : outcome[r] = "waiting" ~> outcome[r] \in {"answered", "failed"}
=============================================================================
