-------------------------- MODULE SchedulerLockProofs --------------------------
(***************************************************************************)
(* The lock of onOneServer, for any fleet, any number of runs, occurrences *)
(* and tokens and each of the adapters: within its TTL a claim protects    *)
(* the run that made it.  #owned is a map from the occurrence to one token *)
(* and cannot tell two runs of one replica apart.  Nothing is assumed of   *)
(* how many a replica has: doubled says where one came to have two at      *)
(* work on one occurrence, which takes a TTL that passed under the first,  *)
(* and everything proved holds of the other runs.                          *)
(*                                                                         *)
(* A fleet drives its lock as SchedulerLock says a caller may, so what is  *)
(* proved of the lock holds in the fleet.                                  *)
(***************************************************************************)
EXTENDS SchedulerFleet, TLAPS

-----------------------------------------------------------------------------
\* Every step keeps the types, and the phase of a run tells which of its
\* occurrence, claim and proof it has.
LEMMA TypeStep == TypeOK /\ [Next]_lockVars => TypeOK'
<1> SUFFICES ASSUME TypeOK, [Next]_lockVars PROVE TypeOK'
  OBVIOUS
<1> USE RunAssumption, ValueAssumption DEF TypeOK, Phase, Adapter
<1>1. ASSUME NEW r \in Run, NEW k \in Occurrence, Ask(r, k) PROVE TypeOK'
  BY <1>1 DEF Ask
<1>2. ASSUME NEW r \in Run, Claim(r) PROVE TypeOK'
  <2>1. CASE store[occ[r]] = Free
    <3>1. PICK t \in Token \ minted :
              /\ store' = [store EXCEPT ![occ[r]] = t]
              /\ minted' = minted \cup {t}
              /\ claim' = [claim EXCEPT ![r] = t]
              /\ pc' = [pc EXCEPT ![r] = "won"]
              /\ owned' = IF adapter = "memory"
                          THEN [owned EXCEPT ![replicaOf[r]][occ[r]] = t]
                          ELSE owned
              /\ doubled' = IF AlreadyAtWork(r)
                            THEN doubled \cup {<<replicaOf[r], occ[r]>>}
                            ELSE doubled
      BY <1>2, <2>1 DEF Claim
    <3>2. /\ pc[r] = "asking" /\ occ[r] \in Occurrence /\ replicaOf[r] \in Replica
          /\ UNCHANGED <<adapter, occ, proof, lapsed>>
      BY <1>2 DEF Claim
    <3>3. doubled' \subseteq Replica \X Occurrence
      BY <3>1, <3>2
    <3>4. /\ store' \in [Occurrence -> minted' \cup {Free}]
          /\ owned' \in [Replica -> [Occurrence -> minted' \cup {NoToken}]]
          /\ claim' \in [Run -> minted' \cup {NoToken}]
          /\ proof' \in [Run -> minted' \cup {NoToken}]
          /\ minted' \subseteq Token /\ lapsed' \subseteq minted'
      BY <3>1, <3>2
    <3>5. /\ pc' \in [Run -> Phase]
          /\ \A q \in Run : /\ pc'[q] = "idle" <=> occ'[q] = NoOccurrence
                            /\ pc'[q] \in {"won", "running"} <=> claim'[q] # NoToken
                            /\ pc'[q] \in {"reading", "deleting"} <=> proof'[q] # NoToken
      BY <3>1, <3>2
    <3> QED BY <3>2, <3>3, <3>4, <3>5
  <2>2. CASE store[occ[r]] # Free
    BY <1>2, <2>2 DEF Claim
  <2> QED BY <2>1, <2>2
<1>3. ASSUME NEW r \in Run, Won(r) PROVE TypeOK'
  BY <1>3 DEF Won
<1>4. ASSUME NEW r \in Run, Lost(r) PROVE TypeOK'
  BY <1>4 DEF Lost, End
<1>5. ASSUME NEW r \in Run, Unreachable(r) PROVE TypeOK'
  BY <1>5 DEF Unreachable, End
<1>6. ASSUME NEW r \in Run, Release(r) PROVE TypeOK'
  <2> DEFINE token == owned[replicaOf[r]][occ[r]]
  <2>1. /\ occ[r] \in Occurrence /\ replicaOf[r] \in Replica
        /\ token \in minted \cup {NoToken}
    BY <1>6 DEF Release
  <2>2. owned' \in [Replica -> [Occurrence -> minted \cup {NoToken}]]
    BY <1>6, <2>1 DEF Release
  <2>3. CASE adapter = "memory" \/ token = NoToken
    <3>1. /\ End({r})
          /\ store' \in [Occurrence -> minted \cup {Free}]
          /\ UNCHANGED <<adapter, minted, lapsed, doubled>>
      BY <1>6, <2>1, <2>3 DEF Release
    <3> HIDE DEF token
    <3> QED BY <2>2, <3>1 DEF End
  <2>4. CASE ~(adapter = "memory" \/ token = NoToken)
    <3>1. \A q \in Run \ {r} : pc'[q] = pc[q] /\ occ'[q] = occ[q] /\ claim'[q] = claim[q] /\ proof'[q] = proof[q]
      BY <1>6, <2>4 DEF Release
    <3>2. /\ pc'[r] \in {"reading", "deleting"} /\ occ'[r] = occ[r]
          /\ claim'[r] = NoToken /\ proof'[r] = token
      BY <1>6, <2>4 DEF Release
    <3>3. UNCHANGED <<adapter, store, minted, lapsed, doubled, occ>>
      BY <1>6, <2>4 DEF Release
    <3>4. /\ pc' \in [Run -> Phase]
          /\ claim' \in [Run -> minted \cup {NoToken}]
          /\ proof' \in [Run -> minted \cup {NoToken}]
      BY <1>6, <2>1, <2>4 DEF Release
    <3> HIDE DEF token
    <3> QED BY <2>1, <2>2, <2>4, <3>1, <3>2, <3>3, <3>4
  <2> QED BY <2>3, <2>4
<1>7. ASSUME NEW r \in Run, Read(r) PROVE TypeOK'
  <2>1. CASE store[occ[r]] = proof[r]
    <3>1. /\ pc' = [pc EXCEPT ![r] = "deleting"]
          /\ UNCHANGED <<adapter, store, owned, occ, claim, proof, minted, lapsed, doubled>>
          /\ pc[r] = "reading"
      BY <1>7, <2>1 DEF Read
    <3> QED BY <3>1
  <2>2. CASE store[occ[r]] # proof[r]
    BY <1>7, <2>2 DEF Read, End
  <2> QED BY <2>1, <2>2
<1>8. ASSUME NEW r \in Run, Delete(r) PROVE TypeOK'
  BY <1>8 DEF Delete, End
<1>9. ASSUME NEW r \in Run, ReleaseFails(r) PROVE TypeOK'
  BY <1>9 DEF ReleaseFails, End
<1>10. ASSUME NEW k \in Occurrence, Lapse(k) PROVE TypeOK'
  BY <1>10 DEF Lapse
<1>11. ASSUME NEW p \in Replica, Crash(p) PROVE TypeOK'
  BY <1>11 DEF Crash, End
<1>12. CASE UNCHANGED lockVars
  BY <1>12 DEF lockVars
<1> QED BY <1>1, <1>2, <1>3, <1>4, <1>5, <1>6, <1>7, <1>8, <1>9, <1>10, <1>11, <1>12
        DEF Next, RunStep

\* The state of the lock is well typed.
THEOREM TypeCorrect == Spec => []TypeOK
<1>1. Init => TypeOK
  BY DEF Init, TypeOK, Phase
<1> QED BY <1>1, TypeStep, PTL DEF Spec

-----------------------------------------------------------------------------
(* The inductive invariant.                                                *)

\* No two runs have the same claim, and a claim that is being withdrawn while
\* its run is at work is one of a replica that doubled the occurrence.
ClaimsApart ==
    /\ \A q, r \in Run : claim[q] # NoToken /\ claim[q] = claim[r] => q = r
    /\ \A q, r \in Run : claim[q] # NoToken /\ claim[q] = proof[r] => ~Sole(q)

\* Two runs of one replica at work on one occurrence have doubled it.
DoublesAreNoted ==
    \A q, r \in Run : /\ q # r
                      /\ replicaOf[q] = replicaOf[r]
                      /\ occ[q] = occ[r]
                      /\ claim[q] # NoToken
                      /\ claim[r] # NoToken
                      => ~Sole(q)

\* The adapter of a run's replica remembers that run's claim, and remembers
\* no claim for another replica or occurrence than that of the claim.
OwnsItsClaim ==
    /\ \A r \in Run : pc[r] = "running" /\ Sole(r)
                          => owned[replicaOf[r]][occ[r]] = claim[r]
    /\ \A p \in Replica, k \in Occurrence, r \in Run :
          claim[r] # NoToken /\ owned[p][k] = claim[r]
             => replicaOf[r] = p /\ occ[r] = k

\* An occurrence is doubled only once a TTL has passed under a run.
DoublesNeedALapse == doubled # {} => lapsed # {}

LockInv == /\ ClaimsApart
           /\ DoublesAreNoted
           /\ OwnsItsClaim
           /\ LiveClaimStands
           /\ DoublesNeedALapse

LEMMA LockInvStep == TypeOK /\ LockInv /\ [Next]_lockVars => LockInv'
<1> SUFFICES ASSUME TypeOK, LockInv, [Next]_lockVars PROVE LockInv'
  OBVIOUS
<1> USE RunAssumption, ValueAssumption DEF TypeOK, LockInv, Sole
<1>e. ASSUME NEW R \in SUBSET Run, End(R), UNCHANGED <<store, lapsed, doubled>>,
             \/ owned' = owned
             \/ \E p \in Replica : /\ R = {r \in Run : replicaOf[r] = p}
                                    /\ owned' = [owned EXCEPT ![p] = [k \in Occurrence |-> NoToken]]
      PROVE  LockInv'
  <2>1. ClaimsApart' /\ DoublesAreNoted'
    BY <1>e DEF End, ClaimsApart, DoublesAreNoted
  <2>2. OwnsItsClaim'
    <3>1. \A q \in Run : \/ pc'[q] = "idle" /\ claim'[q] = NoToken
                         \/ q \notin R /\ UNCHANGED <<pc[q], occ[q], claim[q]>>
      BY <1>e DEF End
    <3>2. CASE owned' = owned
      BY <1>e, <3>1, <3>2 DEF OwnsItsClaim
    <3>3. ASSUME NEW p \in Replica, R = {r \in Run : replicaOf[r] = p},
                 owned' = [owned EXCEPT ![p] = [k \in Occurrence |-> NoToken]]
          PROVE  OwnsItsClaim'
      <4>1. ASSUME NEW q \in Run, pc'[q] = "running", Sole(q)'
            PROVE  owned'[replicaOf[q]][occ'[q]] = claim'[q]
        BY <1>e, <3>1, <3>3, <4>1 DEF OwnsItsClaim
      <4>2. ASSUME NEW o \in Replica, NEW k \in Occurrence, NEW q \in Run,
                   claim'[q] # NoToken, owned'[o][k] = claim'[q]
            PROVE  replicaOf[q] = o /\ occ'[q] = k
        BY <3>1, <3>3, <4>2 DEF OwnsItsClaim
      <4> QED BY <4>1, <4>2 DEF OwnsItsClaim
    <3> QED BY <1>e, <3>2, <3>3
  <2>3. LiveClaimStands' /\ DoublesNeedALapse'
    BY <1>e DEF End, LiveClaimStands, DoublesNeedALapse
  <2> QED BY <2>1, <2>2, <2>3
<1>1. ASSUME NEW r \in Run, NEW k \in Occurrence, Ask(r, k) PROVE LockInv'
  BY <1>1 DEF Ask, ClaimsApart, DoublesAreNoted, OwnsItsClaim, LiveClaimStands,
              DoublesNeedALapse
<1>2. ASSUME NEW r \in Run, Claim(r) PROVE LockInv'
  <2>1. CASE store[occ[r]] = Free
    <3>1. PICK t \in Token \ minted :
              /\ store' = [store EXCEPT ![occ[r]] = t]
              /\ claim' = [claim EXCEPT ![r] = t]
              /\ pc' = [pc EXCEPT ![r] = "won"]
              /\ owned' = IF adapter = "memory"
                          THEN [owned EXCEPT ![replicaOf[r]][occ[r]] = t]
                          ELSE owned
              /\ doubled' = IF AlreadyAtWork(r)
                            THEN doubled \cup {<<replicaOf[r], occ[r]>>}
                            ELSE doubled
      BY <1>2, <2>1 DEF Claim
    <3>2. /\ UNCHANGED <<occ, proof, lapsed>> /\ pc[r] = "asking"
          /\ occ[r] \in Occurrence /\ claim[r] = NoToken /\ t # NoToken
      BY <1>2 DEF Claim
    <3>3. ClaimsApart'
      BY <3>1, <3>2 DEF ClaimsApart
    <3>4. DoublesAreNoted'
      <4> SUFFICES ASSUME NEW q \in Run, NEW u \in Run, q # u,
                          replicaOf[q] = replicaOf[u], occ[q] = occ[u],
                          claim'[q] # NoToken, claim'[u] # NoToken
                   PROVE  <<replicaOf[q], occ[q]>> \in doubled'
        BY <3>2 DEF DoublesAreNoted
      <4>1. CASE q # r /\ u # r
        BY <3>1, <3>2, <4>1 DEF DoublesAreNoted
      <4>2. CASE q = r \/ u = r
        <5>1. AlreadyAtWork(r) /\ <<replicaOf[q], occ[q]>> = <<replicaOf[r], occ[r]>>
          BY <3>1, <3>2, <4>2 DEF AlreadyAtWork
        <5> QED BY <3>1, <5>1
      <4> QED BY <4>1, <4>2
    <3>5. OwnsItsClaim'
      <4>1. ASSUME NEW q \in Run, pc'[q] = "running", <<replicaOf[q], occ'[q]>> \notin doubled'
            PROVE  owned'[replicaOf[q]][occ'[q]] = claim'[q]
        <5>1. /\ q # r /\ pc[q] = "running" /\ claim[q] # NoToken /\ claim'[q] = claim[q]
              /\ <<replicaOf[q], occ[q]>> \notin doubled
          BY <3>1, <3>2, <4>1
        <5>2. owned[replicaOf[q]][occ[q]] = claim[q]
          BY <5>1 DEF OwnsItsClaim
        <5>3. ~(replicaOf[q] = replicaOf[r] /\ occ[q] = occ[r])
          BY <3>1, <3>2, <4>1, <5>1 DEF AlreadyAtWork
        <5> QED BY <3>1, <3>2, <5>1, <5>2, <5>3
      <4>2. ASSUME NEW p \in Replica, NEW k \in Occurrence, NEW q \in Run,
                   claim'[q] # NoToken, owned'[p][k] = claim'[q]
            PROVE  replicaOf[q] = p /\ occ'[q] = k
        <5>1. owned[p][k] \in minted \cup {NoToken}
          OBVIOUS
        <5>2. CASE q = r
          BY <3>1, <3>2, <4>2, <5>1, <5>2
        <5>3. CASE q # r
          <6>1. claim'[q] = claim[q] /\ claim[q] # t
            BY <3>1, <4>2, <5>3
          <6>2. owned[p][k] = claim[q]
            BY <3>1, <3>2, <4>2, <6>1
          <6> QED BY <3>2, <4>2, <6>1, <6>2 DEF OwnsItsClaim
        <5> QED BY <5>2, <5>3
      <4> QED BY <4>1, <4>2 DEF OwnsItsClaim
    <3>6. LiveClaimStands'
      BY <2>1, <3>1, <3>2 DEF LiveClaimStands
    <3>7. DoublesNeedALapse'
      <4>1. CASE AlreadyAtWork(r) /\ doubled = {}
        <5>1. PICK q \in Run : /\ occ[q] = occ[r] /\ claim[q] # NoToken
          BY <4>1 DEF AlreadyAtWork
        <5>2. claim[q] \in lapsed
          BY <2>1, <4>1, <5>1 DEF LiveClaimStands
        <5> QED BY <3>2, <5>2 DEF DoublesNeedALapse
      <4>2. CASE ~(AlreadyAtWork(r) /\ doubled = {})
        BY <3>1, <3>2, <4>2 DEF DoublesNeedALapse
      <4> QED BY <4>1, <4>2
    <3> QED BY <3>3, <3>4, <3>5, <3>6, <3>7
  <2>2. CASE store[occ[r]] # Free
    BY <1>2, <2>2 DEF Claim, ClaimsApart, DoublesAreNoted, OwnsItsClaim,
                      LiveClaimStands, DoublesNeedALapse
  <2> QED BY <2>1, <2>2
<1>3. ASSUME NEW r \in Run, Won(r) PROVE LockInv'
  <2>1. OwnsItsClaim'
    <3>1. ASSUME NEW q \in Run, pc'[q] = "running", Sole(q)
          PROVE  owned'[replicaOf[q]][occ[q]] = claim[q]
      <4>1. CASE q = r
        BY <1>3, <4>1 DEF Won
      <4>2. CASE q # r
        <5>1. ~(replicaOf[q] = replicaOf[r] /\ occ[q] = occ[r])
          BY <1>3, <3>1, <4>2 DEF Won, DoublesAreNoted
        <5>2. owned[replicaOf[q]][occ[q]] = claim[q]
          BY <1>3, <3>1, <4>2 DEF Won, OwnsItsClaim
        <5> QED BY <1>3, <5>1, <5>2 DEF Won
      <4> QED BY <4>1, <4>2
    <3>2. ASSUME NEW p \in Replica, NEW k \in Occurrence, NEW q \in Run,
                 claim[q] # NoToken, owned'[p][k] = claim[q]
          PROVE  replicaOf[q] = p /\ occ[q] = k
      BY <1>3, <3>2 DEF Won, OwnsItsClaim, ClaimsApart
    <3> QED BY <1>3, <3>1, <3>2 DEF Won, OwnsItsClaim
  <2> QED BY <1>3, <2>1 DEF Won, ClaimsApart, DoublesAreNoted, LiveClaimStands,
                            DoublesNeedALapse
<1>4. ASSUME NEW r \in Run, Lost(r) PROVE LockInv'
  BY <1>4, <1>e DEF Lost
<1>5. ASSUME NEW r \in Run, Unreachable(r) PROVE LockInv'
  BY <1>5, <1>e DEF Unreachable
<1>6. ASSUME NEW r \in Run, Release(r) PROVE LockInv'
  <2> DEFINE token == owned[replicaOf[r]][occ[r]]
  <2>1. /\ occ[r] \in Occurrence /\ claim[r] # NoToken /\ pc[r] = "running"
        /\ owned' = [owned EXCEPT ![replicaOf[r]][occ[r]] = NoToken]
        /\ UNCHANGED <<adapter, minted, lapsed, doubled>>
    BY <1>6 DEF Release
  <2>2. ASSUME NEW q \in Run, q # r, claim[q] # NoToken, token = claim[q]
        PROVE  ~Sole(q)
    BY <2>1, <2>2 DEF OwnsItsClaim, DoublesAreNoted
  <2>3. ASSUME NEW q \in Run, q # r, pc[q] = "running", Sole(q)
        PROVE  owned'[replicaOf[q]][occ[q]] = claim[q]
    <3>1. ~(replicaOf[q] = replicaOf[r] /\ occ[q] = occ[r])
      BY <2>1, <2>3 DEF DoublesAreNoted
    <3> QED BY <2>1, <2>3, <3>1 DEF OwnsItsClaim
  <2>4. ASSUME NEW p \in Replica, NEW k \in Occurrence, NEW q \in Run,
               claim[q] # NoToken, owned'[p][k] = claim[q]
        PROVE  replicaOf[q] = p /\ occ[q] = k
    BY <2>1, <2>4 DEF OwnsItsClaim
  <2>5. CASE adapter = "memory" \/ token = NoToken
    <3>1. /\ End({r})
          /\ store' = IF store[occ[r]] = token THEN [store EXCEPT ![occ[r]] = Free] ELSE store
      BY <1>6, <2>5 DEF Release
    <3>2. LiveClaimStands'
      <4> SUFFICES ASSUME NEW q \in Run, q # r, claim[q] # NoToken,
                          claim[q] \notin lapsed, Sole(q)
                   PROVE  store'[occ[q]] = claim[q]
        BY <2>1, <3>1 DEF End, LiveClaimStands
      <4>1. store[occ[q]] = claim[q] /\ token # claim[q]
        BY <2>2 DEF LiveClaimStands
      <4> QED BY <3>1, <4>1
    <3>3. ClaimsApart' /\ DoublesAreNoted' /\ DoublesNeedALapse'
      BY <2>1, <3>1 DEF End, ClaimsApart, DoublesAreNoted, DoublesNeedALapse
    <3>4. OwnsItsClaim'
      BY <2>1, <2>3, <2>4, <3>1 DEF End, OwnsItsClaim
    <3> QED BY <3>2, <3>3, <3>4
  <2>6. CASE ~(adapter = "memory" \/ token = NoToken)
    <3>1. /\ pc' = [pc EXCEPT ![r] = IF adapter = "redis" THEN "deleting" ELSE "reading"]
          /\ proof' = [proof EXCEPT ![r] = token]
          /\ claim' = [claim EXCEPT ![r] = NoToken]
          /\ UNCHANGED <<store, occ>>
      BY <1>6, <2>6 DEF Release
    <3> HIDE DEF token
    <3>2. ClaimsApart'
      BY <2>1, <2>2, <3>1 DEF ClaimsApart
    <3>3. DoublesAreNoted' /\ LiveClaimStands' /\ DoublesNeedALapse'
      BY <2>1, <3>1 DEF DoublesAreNoted, LiveClaimStands, DoublesNeedALapse
    <3>4. OwnsItsClaim'
      BY <2>1, <2>3, <2>4, <3>1 DEF OwnsItsClaim
    <3> QED BY <3>2, <3>3, <3>4
  <2> QED BY <2>5, <2>6
<1>7. ASSUME NEW r \in Run, Read(r) PROVE LockInv'
  <2>1. CASE store[occ[r]] = proof[r]
    BY <1>7, <2>1 DEF Read, ClaimsApart, DoublesAreNoted, OwnsItsClaim,
                      LiveClaimStands, DoublesNeedALapse
  <2>2. CASE store[occ[r]] # proof[r]
    BY <1>7, <2>2, <1>e DEF Read
  <2> QED BY <2>1, <2>2
<1>8. ASSUME NEW r \in Run, Delete(r) PROVE LockInv'
  <2>1. LiveClaimStands'
    BY <1>8 DEF Delete, End, LiveClaimStands, ClaimsApart
  <2>2. ClaimsApart' /\ DoublesAreNoted' /\ OwnsItsClaim' /\ DoublesNeedALapse'
    BY <1>8 DEF Delete, End, ClaimsApart, DoublesAreNoted, OwnsItsClaim,
                DoublesNeedALapse
  <2> QED BY <2>1, <2>2
<1>9. ASSUME NEW r \in Run, ReleaseFails(r) PROVE LockInv'
  BY <1>9, <1>e DEF ReleaseFails
<1>10. ASSUME NEW k \in Occurrence, Lapse(k) PROVE LockInv'
  BY <1>10 DEF Lapse, ClaimsApart, DoublesAreNoted, OwnsItsClaim,
               LiveClaimStands, DoublesNeedALapse
<1>11. ASSUME NEW p \in Replica, Crash(p) PROVE LockInv'
  BY <1>11, <1>e DEF Crash
<1>12. CASE UNCHANGED lockVars
  BY <1>12 DEF lockVars, ClaimsApart, DoublesAreNoted, OwnsItsClaim,
               LiveClaimStands, DoublesNeedALapse
<1> QED BY <1>1, <1>2, <1>3, <1>4, <1>5, <1>6, <1>7, <1>8, <1>9, <1>10, <1>11, <1>12
        DEF Next, RunStep

-----------------------------------------------------------------------------
LEMMA LockInvariant == Spec => []LockInv
<1>1. Init => LockInv
  BY DEF Init, LockInv, ClaimsApart, DoublesAreNoted, OwnsItsClaim,
         LiveClaimStands, DoublesNeedALapse
<1>2. TypeOK /\ LockInv /\ [Next]_lockVars => LockInv'
  BY LockInvStep
<1> QED BY <1>1, <1>2, TypeCorrect, PTL DEF Spec

\* Within its TTL the claim of a run at work stands in the store: neither the
\* late release of a former holder, nor a crash, nor a lost answer deletes it.
\* Where a replica came to have two runs at work on one occurrence (#owned
\* keeps one token for both), nothing is said of its claims on it.
THEOREM ClaimProtects == Spec => []LiveClaimStands
<1>1. LockInv => LiveClaimStands
  BY DEF LockInv
<1> QED BY <1>1, LockInvariant, PTL

\* Two runs of one occurrence are at work together only when the TTL of one
\* of them has passed, or the replica of one of them doubled the occurrence.
THEOREM AtMostOnceWithinTTL == Spec => []NoDoubleRunWithinTTL
<1>1. TypeOK /\ LockInv => NoDoubleRunWithinTTL
  BY DEF TypeOK, LockInv, LiveClaimStands, ClaimsApart, NoDoubleRunWithinTTL
<1> QED BY <1>1, TypeCorrect, LockInvariant, PTL

AloneBeforeALapse ==
    lapsed = {} => \A q, r \in Run : /\ pc[q] = "running"
                                    /\ pc[r] = "running"
                                    /\ occ[q] = occ[r] => q = r

\* While no claim has outlived its TTL, an occurrence has at most one run at
\* work, however many a replica starts (#run, runNow).
THEOREM AtMostOnceBeforeALapse == Spec => []AloneBeforeALapse
<1>1. ASSUME TypeOK, LockInv, lapsed = {}, NEW q \in Run, NEW r \in Run,
             pc[q] = "running", pc[r] = "running", occ[q] = occ[r]
      PROVE  q = r
  <2>1. doubled = {} /\ claim[q] # NoToken /\ claim[r] # NoToken
    BY <1>1 DEF TypeOK, LockInv, DoublesNeedALapse
  <2>2. claim[q] = claim[r]
    BY <1>1, <2>1 DEF LockInv, LiveClaimStands, Sole
  <2> QED BY <2>1, <2>2, <1>1 DEF LockInv, ClaimsApart
<1>2. TypeOK /\ LockInv => AloneBeforeALapse
  BY <1>1 DEF AloneBeforeALapse
<1> QED BY <1>2, TypeCorrect, LockInvariant, PTL

-----------------------------------------------------------------------------
\* What is at work is exactly the runs that have claims.
LEMMA WorkingIsClaims ==
    ASSUME TypeOK
    PROVE  Working = {[by |-> replicaOf[r], of |-> occ[r], claim |-> claim[r]] :
                         r \in {q \in Run : claim[q] # NoToken}}
BY DEF TypeOK, Working

\* A step of the lock is a step of the lease, or none.
LEMMA LeaseStep == TypeOK /\ LockInv /\ [Next]_lockVars => [Lease!Next]_(Lease!vars)
<1> SUFFICES ASSUME TypeOK, LockInv, [Next]_lockVars PROVE [Lease!Next]_(Lease!vars)
  OBVIOUS
<1> DEFINE Of(r) == [by |-> replicaOf[r], of |-> occ[r], claim |-> claim[r]]
           AtWork == {Of(r) : r \in {q \in Run : claim[q] # NoToken}}
<1>t. TypeOK'
  BY TypeStep
<1>w. Working = AtWork /\ Working' = AtWork'
  <2>1. Working' = AtWork'
    BY <1>t DEF TypeOK, Working
  <2> QED BY <2>1, WorkingIsClaims
<1> USE RunAssumption, ValueAssumption DEF TypeOK
<1>e. ASSUME NEW R \in SUBSET Run, End(R)
      PROVE  \E W \in SUBSET Working :
                /\ Working' = Working \ W
                /\ Working' = {Of(r) : r \in {q \in Run \ R : claim[q] # NoToken}}
  <2> DEFINE W == {Of(r) : r \in {q \in R : claim[q] # NoToken}}
  <2>1. W \in SUBSET Working
    BY <1>w
  <2>2. Working' = {Of(r) : r \in {q \in Run \ R : claim[q] # NoToken}}
    BY <1>e, <1>w DEF End
  <2>3. Working' = Working \ W
    BY <1>w, <2>2 DEF LockInv, ClaimsApart
  <2> QED BY <2>1, <2>2, <2>3
<1>f. ASSUME NEW R \in SUBSET Run, End(R), UNCHANGED <<store, minted, lapsed, doubled>>
      PROVE  Lease!Next
  <2>1. PICK W \in SUBSET Working : Working' = Working \ W
    BY <1>e, <1>f
  <2>2. Lease!Leave(W)
    BY <1>f, <2>1 DEF Lease!Leave
  <2> QED BY <2>2 DEF Lease!Next
<1>1. ASSUME NEW r \in Run, NEW k \in Occurrence, Ask(r, k) PROVE UNCHANGED Lease!vars
  BY <1>1, <1>w DEF Ask, Lease!vars
<1>2. ASSUME NEW r \in Run, Claim(r) PROVE [Lease!Next]_(Lease!vars)
  <2>1. CASE store[occ[r]] = Free
    <3>1. PICK t \in Token \ minted :
              /\ store' = [store EXCEPT ![occ[r]] = t]
              /\ minted' = minted \cup {t}
              /\ claim' = [claim EXCEPT ![r] = t]
              /\ doubled' = IF AlreadyAtWork(r)
                            THEN doubled \cup {<<replicaOf[r], occ[r]>>}
                            ELSE doubled
      BY <1>2, <2>1 DEF Claim
    <3>2. /\ claim[r] = NoToken /\ occ[r] \in Occurrence /\ lapsed' = lapsed
          /\ occ' = occ /\ t # NoToken
      BY <1>2 DEF Claim
    <3>3. Working' = Working \cup {[by |-> replicaOf[r], of |-> occ[r], claim |-> t]}
      BY <1>w, <3>1, <3>2
    <3>4. AlreadyAtWork(r) <=> \E w \in Working : w.by = replicaOf[r] /\ w.of = occ[r]
      <4>1. ASSUME AlreadyAtWork(r)
            PROVE  \E w \in Working : w.by = replicaOf[r] /\ w.of = occ[r]
        <5>1. PICK q \in Run : /\ replicaOf[q] = replicaOf[r] /\ occ[q] = occ[r]
                              /\ claim[q] # NoToken
          BY <4>1 DEF AlreadyAtWork
        <5>2. Of(q) \in Working
          BY <1>w, <5>1
        <5>3. Of(q).by = replicaOf[r] /\ Of(q).of = occ[r]
          BY <5>1
        <5> QED BY <5>2, <5>3
      <4>2. ASSUME NEW w \in Working, w.by = replicaOf[r], w.of = occ[r]
            PROVE  AlreadyAtWork(r)
        <5>1. PICK q \in Run : claim[q] # NoToken /\ w = Of(q)
          BY <1>w
        <5> QED BY <3>2, <4>2, <5>1 DEF AlreadyAtWork
      <4> QED BY <4>1, <4>2
    <3>5. Lease!Grant(replicaOf[r], occ[r], t)
      BY <2>1, <3>1, <3>2, <3>3, <3>4 DEF Lease!Grant
    <3> QED BY <3>2, <3>5 DEF Lease!Next
  <2>2. CASE store[occ[r]] # Free
    BY <1>2, <1>w, <2>2 DEF Claim, Lease!vars
  <2> QED BY <2>1, <2>2
<1>3. ASSUME NEW r \in Run, Won(r) PROVE UNCHANGED Lease!vars
  BY <1>3, <1>w DEF Won, Lease!vars
<1>4. ASSUME NEW r \in Run, Lost(r) PROVE Lease!Next
  BY <1>4, <1>f DEF Lost
<1>5. ASSUME NEW r \in Run, Unreachable(r) PROVE Lease!Next
  BY <1>5, <1>f DEF Unreachable
<1>6. ASSUME NEW r \in Run, Release(r) PROVE Lease!Next
  <2> DEFINE token == owned[replicaOf[r]][occ[r]]
  <2>1. /\ occ[r] \in Occurrence /\ claim[r] # NoToken /\ pc[r] = "running"
        /\ UNCHANGED <<minted, lapsed, doubled>>
    BY <1>6 DEF Release
  <2>2. /\ \A q \in Run \ {r} : claim'[q] = claim[q] /\ occ'[q] = occ[q]
        /\ claim'[r] = NoToken
        /\ \/ store' = store
           \/ store[occ[r]] = token /\ store' = [store EXCEPT ![occ[r]] = Free]
    BY <1>6, <2>1 DEF Release, End
  <2>3. Working' = Working \ {Of(r)} /\ Of(r) \in Working
    <3>1. Of(r) \in Working
      BY <1>w, <2>1
    <3>2. \A q \in Run : q # r /\ claim[q] # NoToken => Of(q) # Of(r)
      <4>1. \A q \in Run : q # r /\ claim[q] # NoToken => claim[q] # claim[r]
        BY <2>1 DEF LockInv, ClaimsApart
      <4>2. \A q \in Run : Of(q).claim = claim[q]
        OBVIOUS
      <4> QED BY <4>1, <4>2
    <3>3. Working' = {Of(q) : q \in {u \in Run \ {r} : claim[u] # NoToken}}
      <4>1. ASSUME NEW q \in Run, claim'[q] # NoToken
            PROVE  q \in Run \ {r} /\ claim[q] # NoToken /\ Of(q)' = Of(q)
        BY <2>2, <4>1
      <4>2. ASSUME NEW q \in Run \ {r}, claim[q] # NoToken
            PROVE  claim'[q] # NoToken /\ Of(q)' = Of(q)
        BY <2>2, <4>2
      <4>3. Working' = {Of(q)' : q \in {u \in Run : claim'[u] # NoToken}}
        BY <1>w
      <4> HIDE DEF Of
      <4> QED BY <4>1, <4>2, <4>3
    <3>4. Working = {Of(q) : q \in {u \in Run : claim[u] # NoToken}}
      BY <1>w
    <3> HIDE DEF Of
    <3>5. \A w : w \in Working' <=> w \in Working /\ w # Of(r)
      BY <3>2, <3>3, <3>4
    <3> QED BY <3>1, <3>5
  <2>4. CASE store' = store
    <3>1. Lease!Leave({Of(r)})
      BY <2>1, <2>3, <2>4 DEF Lease!Leave
    <3> QED BY <2>3, <3>1 DEF Lease!Next
  <2>5. CASE store[occ[r]] = token /\ store' = [store EXCEPT ![occ[r]] = Free]
                                 /\ store' # store
    <3>1. store[occ[r]] # Free
      BY <2>1, <2>5
    <3>2. ASSUME NEW w \in Working \ {Of(r)}, w.claim = store[occ[r]]
          PROVE  <<w.by, w.of>> \in doubled
      <4>1. PICK q \in Run : claim[q] # NoToken /\ w = Of(q)
        BY <1>w
      <4>2. q # r /\ claim[q] = token
        BY <2>5, <3>2, <4>1
      <4>3. replicaOf[q] = replicaOf[r] /\ occ[q] = occ[r]
        BY <2>1, <4>1, <4>2 DEF LockInv, OwnsItsClaim
      <4>4. ~Sole(q)
        BY <2>1, <4>1, <4>2, <4>3 DEF LockInv, DoublesAreNoted
      <4> QED BY <4>1, <4>4 DEF Sole
    <3>3. Lease!Withdraw(occ[r], {Of(r)})
      BY <2>1, <2>3, <2>5, <3>1, <3>2 DEF Lease!Withdraw
    <3> QED BY <2>1, <2>3, <3>3 DEF Lease!Next
  <2> QED BY <2>2, <2>4, <2>5
<1>7. ASSUME NEW r \in Run, Read(r) PROVE [Lease!Next]_(Lease!vars)
  <2>1. CASE store[occ[r]] = proof[r]
    BY <1>7, <1>w, <2>1 DEF Read, Lease!vars
  <2>2. CASE store[occ[r]] # proof[r]
    BY <1>7, <1>f, <2>2 DEF Read
  <2> QED BY <2>1, <2>2
<1>8. ASSUME NEW r \in Run, Delete(r) PROVE Lease!Next
  <2>1. /\ occ[r] \in Occurrence /\ claim[r] = NoToken /\ proof[r] \in Token
        /\ End({r}) /\ UNCHANGED <<minted, lapsed, doubled>>
    BY <1>8 DEF Delete
  <2>2. CASE store[occ[r]] = proof[r]
    <3>1. store' = [store EXCEPT ![occ[r]] = Free] /\ store[occ[r]] # Free
      BY <1>8, <2>1, <2>2 DEF Delete
    <3>2. PICK W \in SUBSET Working : Working' = Working \ W
      BY <1>e, <2>1
    <3>3. ASSUME NEW w \in Working, w.claim = store[occ[r]]
          PROVE  <<w.by, w.of>> \in doubled
      <4>1. PICK q \in Run : claim[q] # NoToken /\ w = Of(q)
        BY <1>w
      <4>2. ~Sole(q)
        BY <2>2, <3>3, <4>1 DEF LockInv, ClaimsApart
      <4> QED BY <4>1, <4>2 DEF Sole
    <3>4. Lease!Withdraw(occ[r], W)
      BY <2>1, <3>1, <3>2, <3>3 DEF Lease!Withdraw
    <3> QED BY <2>1, <3>4 DEF Lease!Next
  <2>3. CASE store[occ[r]] # proof[r]
    BY <1>8, <1>f, <2>1, <2>3 DEF Delete
  <2> QED BY <2>2, <2>3
<1>9. ASSUME NEW r \in Run, ReleaseFails(r) PROVE Lease!Next
  BY <1>9, <1>f DEF ReleaseFails
<1>10. ASSUME NEW k \in Occurrence, Lapse(k) PROVE Lease!Next
  <2>1. Working' = Working
    BY <1>10 DEF Lapse, Working
  <2>2. Lease!Lapse(k)
    BY <1>10, <2>1 DEF Lapse, Lease!Lapse
  <2> QED BY <2>2 DEF Lease!Next
<1>11. ASSUME NEW p \in Replica, Crash(p) PROVE Lease!Next
  BY <1>11, <1>f DEF Crash
<1>12. CASE UNCHANGED lockVars
  BY <1>12, <1>w DEF lockVars, Lease!vars
<1> QED BY <1>1, <1>2, <1>3, <1>4, <1>5, <1>6, <1>7, <1>8, <1>9, <1>10, <1>11, <1>12
        DEF Next, RunStep

\* The adapters implement leases: a claim under a working run goes only when
\* its TTL does, or its replica doubled the occurrence.
THEOREM Refinement == Spec => ImplementsLease
<1>1. Init => Lease!Init
  BY DEF Init, Lease!Init, Working
<1>2. TypeOK /\ LockInv /\ [Next]_lockVars => [Lease!Next]_(Lease!vars)
  BY LeaseStep
<1> QED BY <1>1, <1>2, TypeCorrect, LockInvariant, PTL
        DEF Spec, ImplementsLease, Lease!Spec
-----------------------------------------------------------------------------
\* The clock shows a minute that exists.
LEMMA ClockInRange == FleetSpec => [](minute \in Occurrence)
<1>1. FleetInit => minute \in Occurrence
  BY MinuteAssumption DEF FleetInit
<1>2. minute \in Occurrence /\ [FleetNext]_fleetVars => (minute \in Occurrence)'
  BY MinuteAssumption
     DEF FleetNext, NextMinute, Fire, RunNow, SkipOccurrence, LockStep, fleetVars
<1> QED BY <1>1, <1>2, PTL DEF FleetSpec

\* Every step of the fleet is a step of its lock, or leaves the lock alone.
THEOREM FleetUsesLock == FleetSpec => Spec
<1>1. FleetInit => Init
  BY DEF FleetInit
<1>2. minute \in Occurrence /\ [FleetNext]_fleetVars => [Next]_lockVars
  <2> SUFFICES ASSUME minute \in Occurrence, [FleetNext]_fleetVars PROVE [Next]_lockVars
    OBVIOUS
  <2>1. CASE NextMinute
    BY <2>1 DEF NextMinute
  <2>2. ASSUME NEW p \in Replica, Fire(p) PROVE Next
    BY <2>2 DEF Fire, AskNow, Next
  <2>3. ASSUME NEW p \in Replica, SkipOccurrence(p) PROVE UNCHANGED lockVars
    BY <2>3 DEF SkipOccurrence
  <2>4. CASE LockStep
    BY <2>4 DEF LockStep, Next
  <2>5. CASE UNCHANGED fleetVars
    BY <2>5 DEF fleetVars
  <2>6. ASSUME NEW p \in Replica, RunNow(p) PROVE Next
    BY <2>6 DEF RunNow, AskNow, Next
  <2> QED BY <2>1, <2>2, <2>3, <2>4, <2>5, <2>6 DEF FleetNext
<1> QED BY <1>1, <1>2, ClockInRange, PTL DEF FleetSpec, Spec

\* In a fleet driven by its timers and by runNow, two runs of one occurrence
\* are at work together only when the TTL of one of them has passed, or the
\* replica of one of them doubled the occurrence.
THEOREM FleetAtMostOnceWithinTTL == FleetSpec => []NoDoubleRunWithinTTL
BY FleetUsesLock, AtMostOnceWithinTTL, PTL
=============================================================================
