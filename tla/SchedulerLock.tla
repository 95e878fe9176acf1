---------------------------- MODULE SchedulerLock ----------------------------
(***************************************************************************)
(* The distributed lock behind onOneServer: the three SchedulerLock        *)
(* adapters (packages/scheduler/memory_lock.ts and the Redis and Deno KV   *)
(* ones of packages/core/scheduler/locks.ts) and their only caller, #run.  *)
(*                                                                         *)
(* A run asks for an occurrence; the store executes the claim; the answer  *)
(* comes back later, or is lost.  The winner works, and its release is     *)
(* again a conversation with the store: one atomic compare-and-delete      *)
(* (Redis), or a read followed by a delete conditioned on the versionstamp *)
(* read (Deno KV).  The memory adapter does each call in one step.  A      *)
(* claim may lapse at any time after it was made: TTL and durations are    *)
(* left out.  A versionstamp is named by the token it was read with, every *)
(* set() writing a new token.                                              *)
(*                                                                         *)
(* One task is modelled: locks of distinct tasks have distinct keys.       *)
(***************************************************************************)
EXTENDS Naturals

CONSTANTS Replica,
          Run,          \* runs of the task over the whole fleet
          replicaOf,    \* the replica of each run
          Occurrence,   \* the wall-clock minutes that key the claims
          Token,        \* bound: claim tokens (crypto.randomUUID) minted
          Free,         \* an occurrence nobody claims
          NoToken, NoOccurrence

ASSUME RunAssumption == replicaOf \in [Run -> Replica]
ASSUME ValueAssumption == /\ Free \notin Token
                          /\ NoToken \notin Token
                          /\ NoOccurrence \notin Occurrence

VARIABLES
    adapter,   \* which adapter the fleet is configured with
    store,     \* the claim that stands on each occurrence
    owned,     \* #owned of each replica's adapter
    pc,        \* where each run is
    occ,       \* the occurrence it asked for
    claim,     \* the token its acquire() minted, once the store took it
    proof,     \* the token its release() took out of #owned
    minted,    \* history: tokens that entered the store
    lapsed,    \* history: tokens whose TTL passed while they stood
    doubled    \* history: <<replica, occurrence>> claimed anew while another
               \* run of that replica was still at work on the occurrence

lockVars == <<adapter, store, owned, pc, occ, claim, proof, minted, lapsed,
              doubled>>

Adapter == {"memory", "redis", "kv"}
Phase == {"idle", "asking", "won", "lost", "running", "reading", "deleting"}

-----------------------------------------------------------------------------
Init == /\ adapter \in Adapter
        /\ store = [k \in Occurrence |-> Free]
        /\ owned = [p \in Replica |-> [k \in Occurrence |-> NoToken]]
        /\ pc = [r \in Run |-> "idle"]
        /\ occ = [r \in Run |-> NoOccurrence]
        /\ claim = [r \in Run |-> NoToken]
        /\ proof = [r \in Run |-> NoToken]
        /\ minted = {}
        /\ lapsed = {}
        /\ doubled = {}

\* The runs of R are over.
End(R) ==
    /\ pc' = [r \in Run |-> IF r \in R THEN "idle" ELSE pc[r]]
    /\ occ' = [r \in Run |-> IF r \in R THEN NoOccurrence ELSE occ[r]]
    /\ claim' = [r \in Run |-> IF r \in R THEN NoToken ELSE claim[r]]
    /\ proof' = [r \in Run |-> IF r \in R THEN NoToken ELSE proof[r]]

\* #run calls acquire(name, occurrence).
Ask(r, k) ==
    /\ pc[r] = "idle"
    /\ pc' = [pc EXCEPT ![r] = "asking"]
    /\ occ' = [occ EXCEPT ![r] = k]
    /\ UNCHANGED <<adapter, store, owned, claim, proof, minted, lapsed, doubled>>

\* Bug: SET without NX.
ClaimOverwrites(r) ==
    /\ pc[r] = "asking"
    /\ \E t \in Token \ minted :
           /\ store' = [store EXCEPT ![occ[r]] = t]
           /\ minted' = minted \cup {t}
           /\ claim' = [claim EXCEPT ![r] = t]
    /\ pc' = [pc EXCEPT ![r] = "won"]
    /\ UNCHANGED <<adapter, owned, occ, proof, lapsed, doubled>>

\* The replica of r has another run at work on the occurrence r asks for.
AlreadyAtWork(r) == \E q \in Run \ {r} : /\ replicaOf[q] = replicaOf[r]
                                        /\ occ[q] = occ[r]
                                        /\ claim[q] # NoToken

\* SET NX PX, or check(versionstamp: null).set(): the claim is taken when none
\* stands.  The memory adapter records its token in the same step.
Claim(r) ==
    /\ pc[r] = "asking"
    /\ IF store[occ[r]] = Free
       THEN \E t \in Token \ minted :
                /\ store' = [store EXCEPT ![occ[r]] = t]
                /\ minted' = minted \cup {t}
                /\ claim' = [claim EXCEPT ![r] = t]
                /\ pc' = [pc EXCEPT ![r] = "won"]
                /\ owned' = IF adapter = "memory"
                            THEN [owned EXCEPT ![replicaOf[r]][occ[r]] = t]
                            ELSE owned
                /\ doubled' = IF AlreadyAtWork(r)
                              THEN doubled \cup {<<replicaOf[r], occ[r]>>}
                              ELSE doubled
       ELSE /\ pc' = [pc EXCEPT ![r] = "lost"]
            /\ UNCHANGED <<store, owned, claim, minted, doubled>>
    /\ UNCHANGED <<adapter, occ, proof, lapsed>>

\* acquire() returned true: the adapter remembers the token, the run begins.
Won(r) ==
    /\ pc[r] = "won"
    /\ owned' = [owned EXCEPT ![replicaOf[r]][occ[r]] = claim[r]]
    /\ pc' = [pc EXCEPT ![r] = "running"]
    /\ UNCHANGED <<adapter, store, occ, claim, proof, minted, lapsed, doubled>>

\* acquire() returned false: another claim stands, no run.
Lost(r) ==
    /\ pc[r] = "lost"
    /\ End({r})
    /\ UNCHANGED <<adapter, store, owned, minted, lapsed, doubled>>

\* acquire() rejected: the command, or only its answer, did not get through.
\* In the second case the claim stands until it lapses, owned by nobody.
Unreachable(r) ==
    /\ adapter # "memory"
    /\ pc[r] \in {"asking", "won", "lost"}
    /\ End({r})
    /\ UNCHANGED <<adapter, store, owned, minted, lapsed, doubled>>

\* Bug: the memory adapter, and those it stands for, delete by key alone.
ReleaseByKey(r) ==
    /\ pc[r] = "running"
    /\ owned' = [owned EXCEPT ![replicaOf[r]][occ[r]] = NoToken]
    /\ store' = [store EXCEPT ![occ[r]] = Free]
    /\ End({r})
    /\ UNCHANGED <<adapter, minted, lapsed, doubled>>

\* The run is over and calls release(): the replica's token for the occurrence
\* leaves #owned; the memory adapter deletes the claim in the same step.
Release(r) ==
    LET token == owned[replicaOf[r]][occ[r]]
        k == occ[r]
    IN  /\ pc[r] = "running"
        /\ owned' = [owned EXCEPT ![replicaOf[r]][k] = NoToken]
        /\ IF adapter = "memory" \/ token = NoToken
           THEN /\ store' = IF store[k] = token THEN [store EXCEPT ![k] = Free] ELSE store
                /\ End({r})
           ELSE /\ pc' = [pc EXCEPT ![r] = IF adapter = "redis" THEN "deleting" ELSE "reading"]
                /\ proof' = [proof EXCEPT ![r] = token]
                /\ claim' = [claim EXCEPT ![r] = NoToken]
                /\ UNCHANGED <<store, occ>>
        /\ UNCHANGED <<adapter, minted, lapsed, doubled>>

\* Deno KV reads the entry first, and goes on only when the token is its own.
Read(r) ==
    /\ pc[r] = "reading"
    /\ IF store[occ[r]] = proof[r]
       THEN pc' = [pc EXCEPT ![r] = "deleting"] /\ UNCHANGED <<occ, claim, proof>>
       ELSE End({r})
    /\ UNCHANGED <<adapter, store, owned, minted, lapsed, doubled>>

\* The Lua compare-and-delete, or the commit of check(current).delete().
Delete(r) ==
    /\ pc[r] = "deleting"
    /\ store' = IF store[occ[r]] = proof[r] THEN [store EXCEPT ![occ[r]] = Free] ELSE store
    /\ End({r})
    /\ UNCHANGED <<adapter, owned, minted, lapsed, doubled>>

\* release() rejected before it deleted: the claim is left to its TTL.
ReleaseFails(r) ==
    /\ pc[r] \in {"reading", "deleting"}
    /\ End({r})
    /\ UNCHANGED <<adapter, store, owned, minted, lapsed, doubled>>

\* The TTL of a claim passes, whoever still works under it.
Lapse(k) ==
    /\ store[k] # Free
    /\ store' = [store EXCEPT ![k] = Free]
    /\ lapsed' = lapsed \cup {store[k]}
    /\ UNCHANGED <<adapter, owned, pc, occ, claim, proof, minted, doubled>>

\* A replica dies with its runs and its #owned map; its claims stay behind.
Crash(p) ==
    /\ adapter # "memory"
    /\ \E r \in Run : replicaOf[r] = p /\ pc[r] # "idle"
    /\ End({r \in Run : replicaOf[r] = p})
    /\ owned' = [owned EXCEPT ![p] = [k \in Occurrence |-> NoToken]]
    /\ UNCHANGED <<adapter, store, minted, lapsed, doubled>>

RunStep(r) == \/ Claim(r) \/ Won(r) \/ Lost(r) \/ Unreachable(r)
              \/ Release(r) \/ Read(r) \/ Delete(r) \/ ReleaseFails(r)

Next == \/ \E r \in Run, k \in Occurrence : Ask(r, k)
        \/ \E r \in Run : RunStep(r)
        \/ \E k \in Occurrence : Lapse(k)
        \/ \E p \in Replica : Crash(p)

Spec == Init /\ [][Next]_lockVars

-----------------------------------------------------------------------------
TypeOK == /\ adapter \in Adapter
          /\ store \in [Occurrence -> minted \cup {Free}]
          /\ owned \in [Replica -> [Occurrence -> minted \cup {NoToken}]]
          /\ pc \in [Run -> Phase]
          /\ occ \in [Run -> Occurrence \cup {NoOccurrence}]
          /\ claim \in [Run -> minted \cup {NoToken}]
          /\ proof \in [Run -> minted \cup {NoToken}]
          /\ minted \subseteq Token
          /\ lapsed \subseteq minted
          /\ \A r \in Run : /\ pc[r] = "idle" <=> occ[r] = NoOccurrence
                            /\ pc[r] \in {"won", "running"} <=> claim[r] # NoToken
                            /\ pc[r] \in {"reading", "deleting"} <=> proof[r] # NoToken
          /\ doubled \subseteq Replica \X Occurrence

\* Whether r is alone on its replica, and was, to ask for its occurrence.
\* Else the one token #owned keeps per occurrence may be another run's.
Sole(r) == <<replicaOf[r], occ[r]>> \notin doubled

\* Until its TTL passes, the claim of a run at work stands in the store: the
\* late release of a former holder, a lost answer or a crash never deletes it
\* out from under the run ("owner-checked", locks.ts and memory_lock.ts),
\* unless its replica claimed the occurrence twice over.
LiveClaimStands ==
    \A r \in Run : claim[r] # NoToken /\ claim[r] \notin lapsed /\ Sole(r)
                      => store[occ[r]] = claim[r]

\* At-most-once within the TTL, at any one time: two runs of one occurrence
\* are at work together only when a TTL ran out under one of them, or earlier
\* under another run of the replica of one of them (locks.ts, #owned).
NoDoubleRunWithinTTL ==
    \A q, r \in Run :
        /\ q # r
        /\ occ[q] = occ[r]
        /\ pc[q] = "running" /\ claim[q] \notin lapsed /\ Sole(q)
        /\ pc[r] = "running" /\ Sole(r)
        => claim[r] \in lapsed

-----------------------------------------------------------------------------
\* The runs that were told to go ahead, or are about to be.
Working == {[by |-> replicaOf[r], of |-> occ[r], claim |-> claim[r]] :
                r \in {q \in Run : pc[q] \in {"won", "running"}}}

\* The adapters, under their callers, implement leases on occurrences.
Lease == INSTANCE OccurrenceLease
            WITH Owner <- Replica, holder <- store, working <- Working

ImplementsLease == Lease!Spec
=============================================================================
