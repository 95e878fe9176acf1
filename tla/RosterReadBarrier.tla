-------------------------- MODULE RosterReadBarrier --------------------------
(***************************************************************************)
(* Concurrent reads of one channel's roster (roster_read_barrier.ts): one  *)
(* read in flight, the callers that arrive meanwhile share the reads       *)
(* queued behind it, and no caller is answered by a read issued before it  *)
(* asked.  A batch is the set of member ids its read will fetch; batches   *)
(* and reads are numbered in the order in which they are opened, which is  *)
(* the order in which they are issued.                                     *)
(***************************************************************************)
EXTENDS Integers, Sequences, FiniteSets

CONSTANTS Caller, Id, NoId,     \* NoId: a caller that holds no member
          selfOf,               \* a caller's member id
          MaxSelfIds,           \* the most ids one read may carry
          MaxReads              \* bound on the reads of a behaviour

ASSUME BarrierAssumption == /\ NoId \notin Id
                            /\ selfOf \in [Caller -> Id \cup {NoId}]
                            /\ MaxSelfIds \in Nat \ {0}

VARIABLES slot,         \* the channel has a slot: a read is in flight
          batches,      \* the ids of every batch ever opened
          fetched,      \* the ids of every read ever issued
          pending,      \* pending[id]: the queued batch that holds id, or 0
          ride,         \* ride[c]: the batch whose promise c holds, or 0
          askedAt       \* history: the reads issued when c asked

readVars == <<slot, batches, fetched, pending, ride, askedAt>>

Issued == Len(fetched)
Opened == Len(batches)
Queued == Issued + 1 .. Opened

ReadsInit == /\ slot = FALSE
             /\ batches = <<>>
             /\ fetched = <<>>
             /\ pending = [id \in Id |-> 0]
             /\ ride = [c \in Caller |-> 0]
             /\ askedAt = [c \in Caller |-> 0]

Self(c) == {selfOf[c]} \ {NoId}

\* snapshot() with no slot: the read is issued at once and watched.
AskFirst(c) == /\ ride[c] = 0
               /\ ~slot
               /\ Opened < MaxReads
               /\ slot' = TRUE
               /\ batches' = Append(batches, Self(c))
               /\ fetched' = Append(fetched, Self(c))
               /\ ride' = [ride EXCEPT ![c] = Opened + 1]
               /\ askedAt' = [askedAt EXCEPT ![c] = Issued]
               /\ UNCHANGED pending

\* #batchFor: the oldest queued batch for a caller without an id, the batch
\* that holds its id, the newest one with room, or one more.
BatchFor(c) == IF selfOf[c] = NoId
                 THEN IF Queued # {} THEN Issued + 1 ELSE Opened + 1
               ELSE IF pending[selfOf[c]] # 0 THEN pending[selfOf[c]]
               ELSE IF Queued # {} /\ Cardinality(batches[Opened]) < MaxSelfIds
                 THEN Opened
               ELSE Opened + 1

AskQueued(c) ==
    LET n == BatchFor(c)
    IN /\ ride[c] = 0
       /\ slot
       /\ n <= MaxReads
       /\ batches' = IF n > Opened THEN Append(batches, Self(c))
                     ELSE [batches EXCEPT ![n] = @ \cup Self(c)]
       /\ pending' = [id \in Id |-> IF id \in Self(c) THEN n ELSE pending[id]]
       /\ ride' = [ride EXCEPT ![c] = n]
       /\ askedAt' = [askedAt EXCEPT ![c] = Issued]
       /\ UNCHANGED <<slot, fetched>>

\* Bug: the ids of a batch stay indexed once its read is issued.
StaysPending(head) == pending

\* The ids of the promoted batch leave the index.
Unindexed(head) == [id \in Id |-> IF id \in head THEN 0 ELSE pending[id]]

\* Bug: the slot is given back although callers are queued.
Retires == /\ slot' = FALSE
           /\ UNCHANGED <<fetched, pending>>

\* The head of the queue is promoted and issued, or the slot given back.
Promote == IF Queued = {}
             THEN /\ slot' = FALSE
                  /\ UNCHANGED <<fetched, pending>>
             ELSE /\ fetched' = Append(fetched, batches[Issued + 1])
                  /\ pending' = Unindexed(batches[Issued + 1])
                  /\ UNCHANGED slot

\* The read in flight settles, and its callers with it, whether it succeeded
\* or not: #open and #watch react to both outcomes alike, and to the same
\* promise, with nobody between them.
ReadSettles == /\ slot
               /\ ride' = [c \in Caller |-> IF ride[c] = Issued THEN 0 ELSE ride[c]]
               /\ Promote
               /\ UNCHANGED <<batches, askedAt>>

ReadsNext == \/ \E c \in Caller : AskFirst(c) \/ AskQueued(c)
             \/ ReadSettles

\* The driver answers or rejects every read: its command has a timeout.
ReadsSpec == ReadsInit /\ [][ReadsNext]_readVars /\ WF_readVars(ReadSettles)

-----------------------------------------------------------------------------
TypeOK == /\ slot \in BOOLEAN
          /\ batches \in Seq(SUBSET Id)
          /\ fetched \in Seq(SUBSET Id)
          /\ Issued <= Opened
          /\ pending \in [Id -> 0..Opened]
          /\ ride \in [Caller -> 0..Opened]
          /\ askedAt \in [Caller -> Nat]

\* Nobody is answered by a read issued before it asked: sharing never costs
\* freshness (#batchFor, #watch).
Fresh == \A c \in Caller : ride[c] # 0 => ride[c] > askedAt[c]

\* Once the read that answers a caller is issued, it fetches the caller's own
\* member, and no more members than one read may carry.
FetchesSelf == /\ \A c \in Caller : ride[c] \in 1..Issued =>
                       Self(c) \subseteq fetched[ride[c]]
               /\ \A n \in 1..Issued : Cardinality(fetched[n]) <= MaxSelfIds

\* S distinct members cost no more reads than they must: of the queued batches
\* only the newest has room.
NoReadTooMany == \A n \in Queued : n < Opened =>
                    Cardinality(batches[n]) >= MaxSelfIds

\* Every caller is answered, whatever reads fail.
EveryoneAnswered == \A c \in Caller : ride[c] # 0 ~> ride[c] = 0
=============================================================================
