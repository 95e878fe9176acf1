----------------------- MODULE ChannelMembershipProofs -----------------------
(***************************************************************************)
(* What one instance keeps about its channels, for any ids, sockets and    *)
(* channels and any number of revocations: types, that what an id holds    *)
(* belongs to the socket registered under it, that only closed sockets are *)
(* torn down, and that no record is cleared before it was applied.         *)
(*                                                                         *)
(* Two parts are added to the properties.  Owned: an id is torn down once, *)
(* and the teardown still has every channel of the id to leave when it     *)
(* releases the binding.  Recorded: the id of a revocation names one pair  *)
(* of a connection and a channel wherever it is carried, nothing carries   *)
(* it before its record is written, and a leave that has yet to clear a    *)
(* record has answered it.                                                 *)
(***************************************************************************)
EXTENDS ChannelMembership, TLAPS

\* What the types leave out: the records of the pass and of the history, and
\* that the revocation of one channel has an id wherever it is.
Named ==
    /\ joined \subseteq Socket \X Channel
    /\ pass \in [stage : {"idle", "applying"}, waits : Socket \cup {None},
                 todo : SUBSET [target : Id, chan : Channel \cup {All},
                                recs : SUBSET (Revocation \cup {None})]]
    /\ \A r \in store : r.chan # All => r.rec \in Revocation
    /\ \A f \in frames : f.rec \in Revocation
    /\ \A g \in pass.todo : g.chan # All => g.recs # {} /\ g.recs \subseteq Revocation


TypeInv == MembershipType /\ Named

LEMMA LeaveTypes ==
    ASSUME TypeInv, NEW id \in Id, NEW c \in Channel, LeaveLocal(id, c)
    PROVE  /\ subscriptions' \in [Channel -> SUBSET Id]
           /\ channelsByClient' \in [Id -> SUBSET Channel]
           /\ joined' \subseteq Socket \X Channel
           /\ answered \subseteq answered'
  BY DEF LeaveLocal, membership, TypeInv, MembershipType, Named

LEMMA AttemptTypes ==
    ASSUME TypeInv, NEW s \in Socket, NEW c \in Channel, Attempt(s, c)
    PROVE  /\ subscriptions' \in [Channel -> SUBSET Id]
           /\ channelsByClient' \in [Id -> SUBSET Channel]
           /\ joined' \subseteq Socket \X Channel
           /\ answered' = answered
  BY MembershipAssumption DEF Attempt, JoinLocal, membership, TypeInv, MembershipType, Named

LEMMA AdvanceTypes ==
    ASSUME TypeInv, NEW s \in Socket, NEW left \in SUBSET Channel,
           NEW others \in SUBSET loops, Advance(s, left, others)
    PROVE  /\ subscriptions' \in [Channel -> SUBSET Id]
           /\ channelsByClient' \in [Id -> SUBSET Channel]
           /\ joined' \subseteq Socket \X Channel
           /\ answered \subseteq answered'
           /\ bound' \in [Id -> Socket \cup {None}]
           /\ loops' \subseteq [of : Socket, left : SUBSET Channel]
  <1>1. IdOf[s] \in Id
    BY MembershipAssumption
  <1>2. CASE left # {} /\ IsOwner(s)
    <2>1. PICK c \in left : /\ LeaveLocal(IdOf[s], c)
                            /\ loops' = others \cup {[of |-> s, left |-> left \ {c}]}
                            /\ UNCHANGED bound
      BY <1>2 DEF Advance
    <2> QED  BY <1>1, <2>1, LeaveTypes DEF TypeInv, MembershipType
  <1>3. CASE ~(left # {} /\ IsOwner(s))
    BY <1>1, <1>3 DEF Advance, TypeInv, MembershipType, Named
  <1> QED  BY <1>2, <1>3

LEMMA BeginTypes ==
    ASSUME TypeInv, NEW id \in Id, Begin(id)
    PROVE  /\ subscriptions' \in [Channel -> SUBSET Id]
           /\ channelsByClient' \in [Id -> SUBSET Channel]
           /\ joined' \subseteq Socket \X Channel
           /\ answered \subseteq answered'
           /\ bound' \in [Id -> Socket \cup {None}]
           /\ retired' \subseteq Socket
           /\ loops' \subseteq [of : Socket, left : SUBSET Channel]
  <1>1. CASE bound[id] = None \/ bound[id] \in retired
    BY <1>1 DEF Begin, membership, teardown, TypeInv, MembershipType, Named
  <1>2. CASE ~(bound[id] = None \/ bound[id] \in retired)
    <2>1. bound[id] \in Socket /\ channelsByClient[id] \in SUBSET Channel
      BY <1>2 DEF TypeInv, MembershipType
    <2>2. retired' = retired \cup {bound[id]} /\ Advance(bound[id], channelsByClient[id], loops)
      BY <1>2 DEF Begin
    <2> QED  BY <2>1, <2>2, AdvanceTypes DEF TypeInv, MembershipType
  <1> QED  BY <1>1, <1>2

\* What the parts of a revocation leave as they should be.
Recs == (SUBSET Revocation) \ {{}}

LEMMA ApplyTypes ==
    ASSUME TypeInv, NEW id \in Id, NEW c \in Channel \cup {All}, NEW recs, NEW inPass \in BOOLEAN,
           c # All => recs \in Recs, Apply(id, c, recs, inPass)
    PROVE  /\ subscriptions' \in [Channel -> SUBSET Id]
           /\ channelsByClient' \in [Id -> SUBSET Channel]
           /\ joined' \subseteq Socket \X Channel
           /\ answered \subseteq answered'
           /\ bound' \in [Id -> Socket \cup {None}]
           /\ retired' \subseteq Socket
           /\ loops' \subseteq [of : Socket, left : SUBSET Channel]
           /\ stage' \in [Socket -> {"fresh", "open", "closing", "closed"}]
           /\ applies' \subseteq [target : Id, chan : Channel, recs : Recs, inPass : BOOLEAN]
  <1>1. CASE c = All
    BY <1>1, BeginTypes DEF Apply, RevokeLocal, TypeInv, MembershipType, Recs
  <1>2. CASE c # All
    <2>1. c \in Channel /\ LeaveLocal(id, c)
      BY <1>2 DEF Apply, RevokeChannelLocal
    <2>2. applies' \subseteq [target : Id, chan : Channel, recs : Recs, inPass : BOOLEAN]
      BY <1>2, <2>1 DEF Apply, RevokeChannelLocal, TypeInv, MembershipType, Recs
    <2> QED  BY <1>2, <2>1, <2>2, LeaveTypes DEF Apply, RevokeChannelLocal, teardown, TypeInv, MembershipType
  <1> QED  BY <1>1, <1>2

LEMMA IdleTypes ==
    ASSUME TypeInv, NotApplied
    PROVE  UNCHANGED <<subscriptions, channelsByClient, joined, answered, bound, retired, loops, stage, applies>>
  BY DEF NotApplied, membership, teardown

LEMMA GroupTypes ==
    ASSUME TypeInv, NEW records \in SUBSET store
    PROVE  /\ Groups(records) \subseteq [target : Id, chan : Channel \cup {All},
                                         recs : SUBSET (Revocation \cup {None})]
           /\ \A g \in Groups(records) : g.chan # All => g.recs # {} /\ g.recs \subseteq Revocation
  BY DEF Groups, TypeInv, MembershipType, Named, Record

LEMMA WithoutTypes ==
    ASSUME TypeInv, NEW a \in applies, NEW recs
    PROVE  /\ Without(a, recs) \subseteq [target : Id, chan : Channel, recs : Recs, inPass : BOOLEAN]
           /\ \A b \in Without(a, recs) :
                \/ b \in applies
                \/ b.target = a.target /\ b.chan = a.chan /\ b.recs \subseteq a.recs
  BY DEF Without, TypeInv, MembershipType, Recs

\* Each step keeps the types.
LEMMA TypeStep == TypeInv /\ [Next]_vars => TypeInv'
  <1> SUFFICES ASSUME TypeInv, [Next]_vars PROVE TypeInv'  OBVIOUS
  <1> USE MembershipAssumption
  <1>1. ASSUME NEW s \in Socket, Opens(s) \/ PeerCloses(s) PROVE TypeInv'
    BY <1>1 DEF TypeInv, MembershipType, Named, Opens, PeerCloses, membership, teardown, revoking
  <1>2. ASSUME NEW s \in Socket, Closed(s) PROVE TypeInv'
    <2>1. CASE IsOwner(s)
      <3>1. Begin(IdOf[s]) /\ IdOf[s] \in Id
        BY <1>2, <2>1 DEF Closed, Disconnect
      <3> QED  BY <1>2, <3>1, BeginTypes DEF Closed, revoking, TypeInv, MembershipType, Named
    <2>2. CASE ~IsOwner(s)
      BY <1>2, <2>2 DEF TypeInv, MembershipType, Named, Closed, Disconnect, membership, teardown, revoking
    <2> QED  BY <2>1, <2>2
  <1>3. ASSUME NEW s \in Socket, NEW c \in Channel, Subscribe(s, c) PROVE TypeInv'
    <2>1. /\ subscriptions' \in [Channel -> SUBSET Id] /\ channelsByClient' \in [Id -> SUBSET Channel]
          /\ joined' \subseteq Socket \X Channel
      BY <1>3, AttemptTypes DEF Subscribe, membership, TypeInv, MembershipType, Named
    <2>2. asking' \subseteq [no : 1..MaxAsking, sock : Socket, chan : Channel]
      BY <1>3 DEF Subscribe, TypeInv, MembershipType
    <2> QED  BY <1>3, <2>1, <2>2 DEF Subscribe, teardown, revoking, TypeInv, MembershipType, Named
  <1>4. ASSUME NEW s \in Socket, NEW c \in Channel, Unsubscribe(s, c) PROVE TypeInv'
    BY <1>4, LeaveTypes DEF Unsubscribe, teardown, revoking, TypeInv, MembershipType, Named
  <1>5. ASSUME NEW a \in asking, Authorized(a) \/ Denied(a) PROVE TypeInv'
    <2>1. a.sock \in Socket /\ a.chan \in Channel
      BY DEF TypeInv, MembershipType
    <2>2. /\ subscriptions' \in [Channel -> SUBSET Id] /\ channelsByClient' \in [Id -> SUBSET Channel]
          /\ joined' \subseteq Socket \X Channel
      BY <1>5, <2>1, AttemptTypes DEF Authorized, Denied, membership, TypeInv, MembershipType, Named
    <2> QED  BY <1>5, <2>2 DEF Authorized, Denied, teardown, revoking, TypeInv, MembershipType, Named
  <1>6. ASSUME NEW l \in loops, LeavesNext(l) PROVE TypeInv'
    <2>1. l.of \in Socket /\ l.left \in SUBSET Channel
      BY DEF TypeInv, MembershipType
    <2>2. Advance(l.of, l.left, loops \ {l}) /\ loops \ {l} \in SUBSET loops
      BY <1>6 DEF LeavesNext
    <2> QED  BY <1>6, <2>1, <2>2, AdvanceTypes DEF LeavesNext, revoking, TypeInv, MembershipType, Named
  <1>7. ASSUME NEW i \in Id, NEW c \in Channel \cup {All}, Revoke(i, c) PROVE TypeInv'
    <2>1. minted + 1 \in Revocation /\ minted' \in 0..MaxRevocations
      BY <1>7 DEF Revoke, TypeInv, MembershipType, Revocation
    <2>2. calls' \subseteq [rec : Revocation, target : Id, chan : Channel \cup {All}, marked : BOOLEAN]
      <3>1. [rec |-> minted + 1, target |-> i, chan |-> c, marked |-> FALSE]
               \in [rec : Revocation, target : Id, chan : Channel \cup {All}, marked : BOOLEAN]
        BY <2>1
      <3>2. calls \subseteq [rec : Revocation, target : Id, chan : Channel \cup {All}, marked : BOOLEAN]
        BY DEF TypeInv, MembershipType
      <3> QED  BY <1>7, <3>1, <3>2 DEF Revoke
    <2> QED  BY <1>7, <2>1, <2>2 DEF Revoke, membership, teardown, TypeInv, MembershipType, Named
  <1>8. ASSUME NEW k \in calls, MarkLands(k) PROVE TypeInv'
    <2>1. /\ k.rec \in Revocation /\ k.target \in Id /\ k.chan \in Channel \cup {All}
          /\ [k EXCEPT !.marked = TRUE] \in [rec : Revocation, target : Id, chan : Channel \cup {All}, marked : BOOLEAN]
      BY ZenonT(30) DEF TypeInv, MembershipType
    <2>2. /\ RecordOf(k) \in Record
          /\ RecordOf(k).chan # All => RecordOf(k).rec \in Revocation
      BY <2>1 DEF RecordOf, Record
    <2> QED  BY <1>8, <2>1, <2>2 DEF MarkLands, Marked, membership, teardown, TypeInv, MembershipType, Named
  <1>9. ASSUME NEW k \in calls, MarkFails(k) PROVE TypeInv'
    <2>1. [k EXCEPT !.marked = TRUE] \in [rec : Revocation, target : Id, chan : Channel \cup {All}, marked : BOOLEAN]
      BY ZenonT(30) DEF TypeInv, MembershipType
    <2>2. calls' \subseteq [rec : Revocation, target : Id, chan : Channel \cup {All}, marked : BOOLEAN]
      BY <1>9, <2>1 DEF MarkFails, Marked, TypeInv, MembershipType
    <2>3. faults' \in 0..MaxFaults
      BY <1>9 DEF MarkFails, Fault, TypeInv, MembershipType
    <2> QED  BY <1>9, <2>2, <2>3 DEF MarkFails, membership, teardown, TypeInv, MembershipType, Named
  <1>10. ASSUME NEW k \in calls, EvictFails(k) PROVE TypeInv'
    BY <1>10, IdleTypes DEF EvictFails, CloseThrows, Fault, TypeInv, MembershipType, Named
  <1>11. ASSUME NEW k \in calls, NEW here \in BOOLEAN, Proceeds(k, here) PROVE TypeInv'
    <2>1. k.rec \in Revocation /\ k.target \in Id /\ k.chan \in Channel \cup {All}
      BY DEF TypeInv, MembershipType
    <2>2. CASE here /\ bound[k.target] # None
      <3>1. Apply(k.target, k.chan, {k.rec}, FALSE) /\ {k.rec} \in Recs
        BY <1>11, <2>1, <2>2 DEF Proceeds, Recs
      <3> QED  BY <1>11, <2>1, <2>2, <3>1, ApplyTypes DEF Proceeds, TypeInv, MembershipType, Named, Recs
    <2>3. CASE ~(here /\ bound[k.target] # None)
      <3>1. /\ NotApplied
            /\ frames' = frames \cup {[target |-> k.target, chan |-> k.chan, rec |-> k.rec]}
        BY <1>11, <2>3 DEF Proceeds
      <3> QED  BY <1>11, <2>1, <3>1, IdleTypes DEF Proceeds, TypeInv, MembershipType, Named, Record
    <2> QED  BY <2>2, <2>3
  <1>12. ASSUME NEW f \in frames, FrameArrives(f) PROVE TypeInv'
    <2>1. f.rec \in Revocation /\ f.target \in Id /\ f.chan \in Channel \cup {All}
      BY DEF TypeInv, MembershipType, Named, Record
    <2>2. CASE bound[f.target] # None
      <3>1. Apply(f.target, f.chan, {f.rec}, FALSE) /\ {f.rec} \in Recs
        BY <1>12, <2>1, <2>2 DEF FrameArrives, Recs
      <3> QED  BY <1>12, <2>1, <3>1, ApplyTypes DEF FrameArrives, TypeInv, MembershipType, Named, Recs
    <2>3. CASE bound[f.target] = None
      BY <1>12, <2>3, IdleTypes DEF FrameArrives, TypeInv, MembershipType, Named
    <2> QED  BY <2>2, <2>3
  <1>13. ASSUME NEW f \in frames, FrameIsLost(f) PROVE TypeInv'
    BY <1>13, IdleTypes DEF FrameIsLost, TypeInv, MembershipType, Named
  <1>14. ASSUME NEW a \in applies, ClearRevocation(a) PROVE TypeInv'
    BY <1>14, WithoutTypes DEF ClearRevocation, Cleared, teardown, TypeInv, MembershipType, Named, Recs
  <1>15. ASSUME NEW a \in applies, ClearFails(a) PROVE TypeInv'
    BY <1>15, WithoutTypes DEF ClearFails, Fault, membership, teardown, TypeInv, MembershipType, Named, Recs
  <1>16. CASE PassReads
    <2>1. pass'.todo = Groups({r \in store : bound[r.target] # None})
      BY <1>16 DEF PassReads, TypeInv, Named
    <2>2. /\ pass'.todo \subseteq [target : Id, chan : Channel \cup {All}, recs : SUBSET (Revocation \cup {None})]
          /\ \A g \in pass'.todo : g.chan # All => g.recs # {} /\ g.recs \subseteq Revocation
      BY <2>1, GroupTypes
    <2>3. pass' = [pass EXCEPT !.stage = "applying", !.todo = pass'.todo]
      BY <1>16, <2>1 DEF PassReads
    <2> QED  BY <1>16, <2>2, <2>3 DEF PassReads, membership, teardown, TypeInv, MembershipType, Named
  <1>17. CASE PassEnds
    BY <1>17 DEF PassEnds, membership, teardown, TypeInv, MembershipType, Named
  <1>18. ASSUME NEW g \in pass.todo, PassApplies(g) PROVE TypeInv'
    <2>1. /\ g.target \in Id /\ g.chan \in Channel \cup {All} /\ g.chan # All => g.recs \in Recs
      BY DEF TypeInv, MembershipType, Named, Recs
    <2>2. /\ pass' = [pass EXCEPT !.todo = @ \ {g}, !.waits = IF g.chan = All THEN bound[g.target] ELSE None]
          /\ UNCHANGED <<asking, calls, store, frames, minted, faults>>
      BY <1>18 DEF PassApplies, PassTakes
    <2>4. /\ pass'.todo \subseteq pass.todo
          /\ pass' \in [stage : {"idle", "applying"}, waits : Socket \cup {None},
                        todo : SUBSET [target : Id, chan : Channel \cup {All}, recs : SUBSET (Revocation \cup {None})]]
      BY <2>1, <2>2 DEF TypeInv, MembershipType, Named
    <2>5. CASE g.chan = All /\ bound[g.target] = None
      <3>1. NotApplied
        BY <1>18, <2>5 DEF PassApplies
      <3> QED  BY <2>2, <2>4, <3>1, IdleTypes DEF TypeInv, MembershipType, Named
    <2>6. CASE ~(g.chan = All /\ bound[g.target] = None)
      <3>1. Apply(g.target, g.chan, g.recs, TRUE)
        BY <1>18, <2>6 DEF PassApplies
      <3> QED  BY <2>1, <2>2, <2>4, <3>1, ApplyTypes DEF TypeInv, MembershipType, Named, Recs
    <2> QED  BY <2>5, <2>6
  <1>19. ASSUME NEW g \in pass.todo, PassApplyFails(g) PROVE TypeInv'
    <2>1. /\ NotApplied /\ Fault
          /\ pass' = [pass EXCEPT !.todo = @ \ {g}, !.waits = None]
          /\ UNCHANGED <<asking, calls, store, frames, minted>>
      BY <1>19 DEF PassApplyFails, PassTakes, CloseThrows
    <2>2. /\ pass'.todo \subseteq pass.todo
          /\ pass' \in [stage : {"idle", "applying"}, waits : Socket \cup {None},
                        todo : SUBSET [target : Id, chan : Channel \cup {All}, recs : SUBSET (Revocation \cup {None})]]
      BY <2>1 DEF TypeInv, Named
    <2>3. faults' \in 0..MaxFaults
      BY <2>1 DEF Fault, TypeInv, MembershipType
    <2> QED  BY <2>1, <2>2, <2>3, IdleTypes DEF TypeInv, MembershipType, Named
  <1>20. CASE UNCHANGED vars
    BY <1>20 DEF vars, membership, teardown, revoking, TypeInv, MembershipType, Named
  <1> QED
    BY <1>1, <1>2, <1>3, <1>4, <1>5, <1>6, <1>7, <1>8, <1>9, <1>10, <1>11, <1>12, <1>13,
       <1>14, <1>15, <1>16, <1>17, <1>18, <1>19, <1>20 DEF Next

-----------------------------------------------------------------------------
\* A socket registered under an id has opened, and the id is its own.
Registered == \A i \in Id : bound[i] # None => IdOf[bound[i]] = i /\ stage[bound[i]] # "fresh"

\* A socket has one teardown at most, and what it has joined is what is left
\* for that one to leave.
OneTeardown ==
    /\ \A l, m \in loops : l.of = m.of => l = m
    /\ \A l \in loops : channelsByClient[IdOf[l.of]] \subseteq l.left

Owned == HeldByTheOwner /\ OnlyTheClosedAreTornDown /\ Registered /\ OneTeardown

\* What a leave takes away, whether or not there was anything to leave.
LEMMA LeaveFacts ==
    ASSUME TypeInv, HeldByTheOwner, NEW id \in Id, NEW c \in Channel, LeaveLocal(id, c)
    PROVE  /\ subscriptions' = [subscriptions EXCEPT ![c] = @ \ {id}]
           /\ channelsByClient' = [channelsByClient EXCEPT ![id] = @ \ {c}]
           /\ \A s \in Socket, d \in Channel :
                <<s, d>> \in joined' <=> <<s, d>> \in joined /\ ~(IdOf[s] = id /\ d = c)
  <1>1. CASE id \notin subscriptions[c]
    <2>1. c \notin channelsByClient[id] /\ \A s \in Socket : IdOf[s] = id => <<s, c>> \notin joined
      BY <1>1 DEF HeldByTheOwner
    <2>2. UNCHANGED <<subscriptions, channelsByClient, joined>>
      BY <1>1 DEF LeaveLocal, membership
    <2> QED  BY <1>1, <2>1, <2>2 DEF TypeInv, MembershipType
  <1>2. CASE id \in subscriptions[c]
    BY <1>2 DEF LeaveLocal
  <1> QED  BY <1>1, <1>2

LEMMA LeaveHolds ==
    ASSUME TypeInv, HeldByTheOwner, NEW id \in Id, NEW c \in Channel,
           LeaveLocal(id, c), UNCHANGED bound
    PROVE  /\ HeldByTheOwner'
           /\ \A i \in Id : channelsByClient'[i] \subseteq channelsByClient[i]
           /\ c \notin channelsByClient'[id]
  <1>1. ASSUME NEW i \in Id, NEW d \in Channel
        PROVE  /\ i \in subscriptions'[d] <=> i \in subscriptions[d] /\ ~(i = id /\ d = c)
               /\ d \in channelsByClient'[i] <=> d \in channelsByClient[i] /\ ~(i = id /\ d = c)
    BY LeaveFacts DEF TypeInv, MembershipType
  <1>2. \A s \in Socket, d \in Channel :
          <<s, d>> \in joined' <=> <<s, d>> \in joined /\ ~(IdOf[s] = id /\ d = c)
    BY LeaveFacts
  <1>3. HeldByTheOwner'
    <2> SUFFICES ASSUME NEW i \in Id, NEW d \in Channel
                 PROVE  /\ i \in subscriptions'[d] <=> d \in channelsByClient'[i]
                        /\ i \in subscriptions'[d] <=> \E s \in Socket : IdOf[s] = i /\ <<s, d>> \in joined'
                        /\ \A s \in Socket : IdOf[s] = i /\ <<s, d>> \in joined' => bound'[i] = s
      BY DEF HeldByTheOwner
    <2>1. /\ i \in subscriptions[d] <=> d \in channelsByClient[i]
          /\ i \in subscriptions[d] <=> \E s \in Socket : IdOf[s] = i /\ <<s, d>> \in joined
          /\ \A s \in Socket : IdOf[s] = i /\ <<s, d>> \in joined => bound[i] = s
      BY DEF HeldByTheOwner
    <2>2. \A s \in Socket : <<s, d>> \in joined' <=> <<s, d>> \in joined /\ ~(IdOf[s] = id /\ d = c)
      BY <1>2
    <2> QED  BY <1>1, <2>1, <2>2
  <1> QED  BY <1>1, <1>3, LeaveTypes DEF TypeInv, MembershipType

LEMMA AttemptHolds ==
    ASSUME TypeInv, HeldByTheOwner, NEW s \in Socket, NEW c \in Channel,
           bound[IdOf[s]] = s, Attempt(s, c), UNCHANGED bound
    PROVE  /\ HeldByTheOwner'
           /\ \A i \in Id : i # IdOf[s] => channelsByClient'[i] = channelsByClient[i]
  <1>1. CASE WithinCaps(IdOf[s], c)
    <2>1. JoinLocal(s, c) /\ IdOf[s] \in Id
      BY <1>1, MembershipAssumption DEF Attempt
    <2>2. ASSUME NEW i \in Id, NEW d \in Channel
          PROVE  /\ i \in subscriptions'[d] <=> i \in subscriptions[d] \/ (i = IdOf[s] /\ d = c)
                 /\ d \in channelsByClient'[i] <=> d \in channelsByClient[i] \/ (i = IdOf[s] /\ d = c)
      BY <2>1 DEF JoinLocal, TypeInv, MembershipType
    <2>3. \A t \in Socket, d \in Channel : <<t, d>> \in joined' <=> <<t, d>> \in joined \/ (t = s /\ d = c)
      BY <2>1 DEF JoinLocal
    <2>4. HeldByTheOwner'
      <3> SUFFICES ASSUME NEW i \in Id, NEW d \in Channel
                   PROVE  /\ i \in subscriptions'[d] <=> d \in channelsByClient'[i]
                          /\ i \in subscriptions'[d] <=> \E t \in Socket : IdOf[t] = i /\ <<t, d>> \in joined'
                          /\ \A t \in Socket : IdOf[t] = i /\ <<t, d>> \in joined' => bound'[i] = t
        BY DEF HeldByTheOwner
      <3>1. /\ i \in subscriptions[d] <=> d \in channelsByClient[i]
            /\ i \in subscriptions[d] <=> \E t \in Socket : IdOf[t] = i /\ <<t, d>> \in joined
            /\ \A t \in Socket : IdOf[t] = i /\ <<t, d>> \in joined => bound[i] = t
        BY DEF HeldByTheOwner
      <3>2. \A t \in Socket : <<t, d>> \in joined' <=> <<t, d>> \in joined \/ (t = s /\ d = c)
        BY <2>3
      <3> QED  BY <2>2, <3>1, <3>2
    <2> QED  BY <2>1, <2>4 DEF JoinLocal, TypeInv, MembershipType
  <1>2. CASE ~WithinCaps(IdOf[s], c)
    <2>1. UNCHANGED membership
      BY <1>2 DEF Attempt
    <2> QED  BY <2>1 DEF membership, HeldByTheOwner
  <1> QED  BY <1>1, <1>2

\* A turn of a teardown's loop, whose socket still has the id.
LEMMA AdvanceOwned ==
    ASSUME TypeInv, HeldByTheOwner, NEW s \in Socket, NEW left \in SUBSET Channel,
           NEW others \in SUBSET loops, \A l \in others : IdOf[l.of] # IdOf[s],
           \A l \in others : channelsByClient[IdOf[l.of]] \subseteq l.left,
           bound[IdOf[s]] = s, channelsByClient[IdOf[s]] \subseteq left,
           Advance(s, left, others)
    PROVE  /\ HeldByTheOwner'
           /\ \A l \in loops' : \/ l \in others
                                \/ l.of = s /\ bound'[IdOf[s]] = s /\ loops' = others \cup {l}
           /\ \A l \in loops' : channelsByClient'[IdOf[l.of]] \subseteq l.left
           /\ \A i \in Id : bound'[i] = bound[i] \/ (i = IdOf[s] /\ bound'[i] = None)
  <1>1. IdOf[s] \in Id /\ IsOwner(s) /\ \A l \in others : l.of \in Socket /\ IdOf[l.of] \in Id
    BY MembershipAssumption DEF IsOwner, TypeInv, MembershipType
  <1>2. CASE left # {}
    <2>1. PICK c \in left : /\ LeaveLocal(IdOf[s], c)
                            /\ loops' = others \cup {[of |-> s, left |-> left \ {c}]}
                            /\ UNCHANGED bound
      BY <1>1, <1>2 DEF Advance
    <2>2. /\ HeldByTheOwner'
          /\ \A i \in Id : channelsByClient'[i] \subseteq channelsByClient[i]
          /\ c \notin channelsByClient'[IdOf[s]]
      BY <1>1, <2>1, LeaveHolds
    <2>3. channelsByClient'[IdOf[s]] \subseteq left \ {c}
      BY <1>1, <2>2
    <2>4. ASSUME NEW l \in others PROVE channelsByClient'[IdOf[l.of]] \subseteq l.left
      <3>1. IdOf[l.of] \in Id /\ channelsByClient[IdOf[l.of]] \subseteq l.left
        BY <1>1
      <3>2. channelsByClient'[IdOf[l.of]] \subseteq channelsByClient[IdOf[l.of]]
        BY <2>2, <3>1
      <3> QED  BY <3>1, <3>2
    <2>5. ASSUME NEW l \in loops', l \notin others
          PROVE  l.of = s /\ l.left = left \ {c} /\ loops' = others \cup {l}
      <3>1. l = [of |-> s, left |-> left \ {c}]
        BY <2>1, <2>5
      <3> QED  BY <2>1, <3>1
    <2>6. \A l \in loops' : \/ l \in others
                            \/ l.of = s /\ bound'[IdOf[s]] = s /\ loops' = others \cup {l}
      BY <2>1, <2>5
    <2>7. \A l \in loops' : channelsByClient'[IdOf[l.of]] \subseteq l.left
      BY <2>3, <2>4, <2>5
    <2>8. \A i \in Id : bound'[i] = bound[i]
      BY <2>1
    <2> QED  BY <2>2, <2>6, <2>7, <2>8
  <1>3. CASE left = {}
    <2>1. /\ loops' = others /\ bound' = [bound EXCEPT ![IdOf[s]] = None]
          /\ channelsByClient' = [channelsByClient EXCEPT ![IdOf[s]] = {}]
          /\ UNCHANGED <<subscriptions, joined, answered>>
      BY <1>1, <1>3 DEF Advance
    <2>2. channelsByClient' = channelsByClient
      BY <1>1, <1>3, <2>1 DEF TypeInv, MembershipType
    <2>3. \A t \in Socket, c \in Channel : IdOf[t] = IdOf[s] => <<t, c>> \notin joined
      BY <1>1, <1>3 DEF HeldByTheOwner
    <2>4. \A i \in Id : bound'[i] = bound[i] \/ (i = IdOf[s] /\ bound'[i] = None)
      BY <1>1, <2>1 DEF TypeInv, MembershipType
    <2>5. HeldByTheOwner'
      BY <2>1, <2>2, <2>3, <2>4 DEF HeldByTheOwner
    <2> QED  BY <2>1, <2>2, <2>4, <2>5
  <1> QED  BY <1>2, <1>3

\* What a step may do to the sockets' stages.
Closes(ss) ==
    /\ \A s \in Socket : stage[s] \in {"closing", "closed"} => stage'[s] \in {"closing", "closed"}
    /\ \A s \in Socket : stage[s] # "fresh" => stage'[s] # "fresh"
    /\ \A s \in ss : stage'[s] \in {"closing", "closed"}

\* A step that touches neither the maps nor the teardowns.
LEMMA StageOwned ==
    ASSUME TypeInv, Owned, UNCHANGED <<subscriptions, channelsByClient, joined, bound, retired, loops>>, Closes({})
    PROVE  Owned'
  <1>1. HeldByTheOwner'
    BY DEF Owned, HeldByTheOwner
  <1>2. OnlyTheClosedAreTornDown'
    BY DEF Owned, OnlyTheClosedAreTornDown, Closes, TypeInv, MembershipType
  <1>3. Registered'
    BY DEF Owned, Registered, Closes, TypeInv, MembershipType
  <1>4. OneTeardown'
    BY DEF Owned, OneTeardown
  <1> QED  BY <1>1, <1>2, <1>3, <1>4 DEF Owned

LEMMA BeginOwned ==
    ASSUME TypeInv, Owned, NEW id \in Id, Begin(id), Closes({bound[id]} \ {None})
    PROVE  Owned'
  <1>1. CASE bound[id] = None \/ bound[id] \in retired
    <2>1. UNCHANGED <<membership, teardown>>
      BY <1>1 DEF Begin
    <2>2. Closes({})
      BY DEF Closes
    <2> QED  BY <2>1, <2>2, StageOwned DEF membership, teardown
  <1>2. CASE ~(bound[id] = None \/ bound[id] \in retired)
    <2> DEFINE s == bound[id]
    <2>1. s \in Socket /\ s # None /\ s \notin retired /\ IdOf[s] = id
      BY <1>2 DEF Owned, Registered, TypeInv, MembershipType
    <2>2. retired' = retired \cup {s} /\ Advance(s, channelsByClient[id], loops)
      BY <1>2 DEF Begin
    <2>3. \A l \in loops : l.of \in Socket /\ IdOf[l.of] \in Id /\ l.of # s /\ IdOf[l.of] # id
      BY <2>1, MembershipAssumption DEF Owned, OnlyTheClosedAreTornDown, TypeInv, MembershipType
    <2>4. /\ HeldByTheOwner'
          /\ \A l \in loops' : \/ l \in loops
                               \/ l.of = s /\ bound'[IdOf[s]] = s /\ loops' = loops \cup {l}
          /\ \A l \in loops' : channelsByClient'[IdOf[l.of]] \subseteq l.left
          /\ \A i \in Id : bound'[i] = bound[i] \/ (i = IdOf[s] /\ bound'[i] = None)
      <3> HIDE DEF s
      <3>1. channelsByClient[id] \in SUBSET Channel
        BY DEF TypeInv, MembershipType
      <3>2. \A l \in loops : channelsByClient[IdOf[l.of]] \subseteq l.left
        BY DEF Owned, OneTeardown
      <3>3. bound[IdOf[s]] = s
        BY <2>1 DEF s
      <3> QED  BY <2>1, <2>2, <2>3, <3>1, <3>2, <3>3, AdvanceOwned DEF Owned
    <2>5. Registered'
      BY <2>4 DEF Owned, Registered, Closes, TypeInv, MembershipType
    <2>6. OnlyTheClosedAreTornDown'
      <3>1. \A t \in retired' : stage'[t] \in {"closing", "closed"}
        BY <2>1, <2>2 DEF Owned, OnlyTheClosedAreTornDown, Closes, TypeInv, MembershipType
      <3>2. \A l \in loops' : l.of \in retired' /\ bound'[IdOf[l.of]] = l.of
        BY <2>1, <2>2, <2>3, <2>4 DEF Owned, OnlyTheClosedAreTornDown
      <3> QED  BY <3>1, <3>2 DEF OnlyTheClosedAreTornDown
    <2>7. OneTeardown'
      <3> HIDE DEF s
      <3>1. \A l, m \in loops' : l.of = m.of => l = m
        BY <2>3, <2>4 DEF Owned, OneTeardown
      <3> QED  BY <2>4, <3>1 DEF OneTeardown
    <2> QED  BY <2>4, <2>5, <2>6, <2>7 DEF Owned
  <1> QED  BY <1>1, <1>2

LEMMA LeaveOwned ==
    ASSUME TypeInv, Owned, NEW id \in Id, NEW c \in Channel, LeaveLocal(id, c),
           UNCHANGED <<bound, retired, loops, stage>>
    PROVE  Owned'
  <1>1. HeldByTheOwner' /\ \A i \in Id : channelsByClient'[i] \subseteq channelsByClient[i]
    BY LeaveHolds DEF Owned
  <1>2. \A l \in loops : IdOf[l.of] \in Id
    BY MembershipAssumption DEF TypeInv, MembershipType
  <1> QED
    BY <1>1, <1>2 DEF Owned, OnlyTheClosedAreTornDown, Registered, OneTeardown

LEMMA AttemptOwned ==
    ASSUME TypeInv, Owned, NEW s \in Socket, NEW c \in Channel, Bound(s),
           Attempt(s, c), UNCHANGED <<bound, retired, loops, stage>>
    PROVE  Owned'
  <1>1. IdOf[s] \in Id /\ bound[IdOf[s]] = s /\ s \notin retired
    BY MembershipAssumption DEF Bound, Admissible
  <1>2. /\ HeldByTheOwner'
        /\ \A i \in Id : i # IdOf[s] => channelsByClient'[i] = channelsByClient[i]
    BY <1>1, AttemptHolds DEF Owned
  <1>3. \A l \in loops : IdOf[l.of] \in Id /\ IdOf[l.of] # IdOf[s]
    BY <1>1, MembershipAssumption DEF Owned, OnlyTheClosedAreTornDown, TypeInv, MembershipType
  <1> QED
    BY <1>2, <1>3 DEF Owned, OnlyTheClosedAreTornDown, Registered, OneTeardown

LEMMA ApplyOwned ==
    ASSUME TypeInv, Owned, NEW id \in Id, NEW c \in Channel \cup {All}, NEW recs, NEW inPass \in BOOLEAN,
           Apply(id, c, recs, inPass)
    PROVE  Owned'
  <1>1. CASE c = All
    <2>1. /\ stage' = [s \in Socket |-> IF s = bound[id] /\ stage[s] = "open" THEN "closing" ELSE stage[s]]
          /\ Begin(id)
      BY <1>1 DEF Apply, RevokeLocal
    <2>2. Closes({bound[id]} \ {None})
      BY <2>1 DEF Closes, Owned, Registered, TypeInv, MembershipType
    <2> QED  BY <2>1, <2>2, BeginOwned
  <1>2. CASE c # All
    BY <1>2, LeaveOwned DEF Apply, RevokeChannelLocal, teardown
  <1> QED  BY <1>1, <1>2

LEMMA IdleOwned == TypeInv /\ Owned /\ NotApplied => Owned'
  BY IdleTypes, StageOwned DEF Closes

\* Each step keeps the ownership of the maps.
LEMMA OwnedStep == TypeInv /\ Owned /\ [Next]_vars => Owned'
  <1> SUFFICES ASSUME TypeInv, Owned, [Next]_vars PROVE Owned'  OBVIOUS
  <1> USE MembershipAssumption
  <1>1. ASSUME NEW s \in Socket, Opens(s) PROVE Owned'
    <2>1. CASE Admissible(s)
      <3>1. /\ stage[s] = "fresh" /\ bound' = [bound EXCEPT ![IdOf[s]] = s] /\ stage' = [stage EXCEPT ![s] = "open"]
            /\ UNCHANGED <<subscriptions, channelsByClient, joined, retired, loops>>
        BY <1>1, <2>1 DEF Opens, membership
      <3>2. IdOf[s] \in Id /\ s \notin retired /\ bound[IdOf[s]] = None
        BY <2>1, <3>1 DEF Admissible, Owned, Registered
      <3>3. \A i \in Id : bound'[i] = IF i = IdOf[s] THEN s ELSE bound[i]
        BY <3>1, <3>2 DEF TypeInv, MembershipType
      <3>4. HeldByTheOwner'
        BY <3>1, <3>2, <3>3, ZenonT(30) DEF Owned, HeldByTheOwner
      <3>5. OnlyTheClosedAreTornDown'
        BY <3>1, <3>2, <3>3 DEF Owned, OnlyTheClosedAreTornDown, TypeInv, MembershipType
      <3>6. Registered' /\ OneTeardown'
        BY <3>1, <3>3 DEF Owned, Registered, OneTeardown, TypeInv, MembershipType
      <3> QED  BY <3>4, <3>5, <3>6 DEF Owned
    <2>2. CASE ~Admissible(s)
      <3>1. Closes({})
        BY <1>1, <2>2 DEF Opens, Closes, TypeInv, MembershipType
      <3> QED  BY <1>1, <2>2, <3>1, StageOwned DEF Opens, membership
    <2> QED  BY <2>1, <2>2
  <1>2. ASSUME NEW s \in Socket, PeerCloses(s) PROVE Owned'
    <2>1. Closes({})
      BY <1>2 DEF PeerCloses, Closes, TypeInv, MembershipType
    <2> QED  BY <1>2, <2>1, StageOwned DEF PeerCloses, membership, teardown
  <1>3. ASSUME NEW s \in Socket, Closed(s) PROVE Owned'
    <2>1. Closes({}) /\ stage'[s] = "closed"
      BY <1>3 DEF Closed, Closes, TypeInv, MembershipType
    <2>2. CASE IsOwner(s)
      <3>1. Begin(IdOf[s]) /\ IdOf[s] \in Id /\ bound[IdOf[s]] = s
        BY <1>3, <2>2 DEF Closed, Disconnect, IsOwner
      <3>2. Closes({bound[IdOf[s]]} \ {None})
        BY <2>1, <3>1 DEF Closes
      <3> QED  BY <3>1, <3>2, BeginOwned
    <2>3. CASE ~IsOwner(s)
      BY <1>3, <2>1, <2>3, StageOwned DEF Closed, Disconnect, membership, teardown
    <2> QED  BY <2>2, <2>3
  <1>4. ASSUME NEW s \in Socket, NEW c \in Channel, Subscribe(s, c) PROVE Owned'
    <2>1. CASE c \in Public
      BY <1>4, <2>1, AttemptOwned DEF Subscribe, teardown
    <2>2. CASE c \notin Public
      <3>1. UNCHANGED <<membership, teardown, stage>>
        BY <1>4, <2>2 DEF Subscribe
      <3>2. Closes({})
        BY <3>1 DEF Closes
      <3> QED  BY <3>1, <3>2, StageOwned DEF membership, teardown
    <2> QED  BY <2>1, <2>2
  <1>5. ASSUME NEW s \in Socket, NEW c \in Channel, Unsubscribe(s, c) PROVE Owned'
    BY <1>5, LeaveOwned DEF Unsubscribe, teardown
  <1>6. ASSUME NEW a \in asking, Authorized(a) \/ Denied(a) PROVE Owned'
    <2>1. a.sock \in Socket /\ a.chan \in Channel
      BY DEF TypeInv, MembershipType
    <2>2. CASE Authorized(a) /\ Bound(a.sock)
      BY <2>1, <2>2, AttemptOwned DEF Authorized, teardown
    <2>3. CASE ~(Authorized(a) /\ Bound(a.sock))
      <3>1. UNCHANGED <<membership, teardown, stage>>
        BY <1>6, <2>3 DEF Authorized, Denied
      <3>2. Closes({})
        BY <3>1 DEF Closes
      <3> QED  BY <3>1, <3>2, StageOwned DEF membership, teardown
    <2> QED  BY <2>2, <2>3
  <1>7. ASSUME NEW l \in loops, LeavesNext(l) PROVE Owned'
    <2> DEFINE others == loops \ {l}
    <2>1. /\ l.of \in Socket /\ l.left \in SUBSET Channel
          /\ \A m \in loops : m.of \in Socket /\ IdOf[m.of] \in Id
      BY DEF TypeInv, MembershipType
    <2>2. /\ bound[IdOf[l.of]] = l.of /\ channelsByClient[IdOf[l.of]] \subseteq l.left
          /\ \A m \in others : IdOf[m.of] # IdOf[l.of]
          /\ \A m \in others : channelsByClient[IdOf[m.of]] \subseteq m.left
      BY DEF Owned, OnlyTheClosedAreTornDown, OneTeardown
    <2>3. Advance(l.of, l.left, others) /\ UNCHANGED <<retired, stage>>
      BY <1>7 DEF LeavesNext
    <2>4. /\ HeldByTheOwner'
          /\ \A k \in loops' : \/ k \in others
                               \/ k.of = l.of /\ bound'[IdOf[l.of]] = l.of /\ loops' = others \cup {k}
          /\ \A k \in loops' : channelsByClient'[IdOf[k.of]] \subseteq k.left
          /\ \A i \in Id : bound'[i] = bound[i] \/ (i = IdOf[l.of] /\ bound'[i] = None)
      <3>1. others \in SUBSET loops
        OBVIOUS
      <3> HIDE DEF others
      <3> QED  BY <2>1, <2>2, <2>3, <3>1, AdvanceOwned DEF Owned
    <2>5. Registered'
      BY <2>3, <2>4 DEF Owned, Registered
    <2>6. OnlyTheClosedAreTornDown'
      BY <2>1, <2>2, <2>3, <2>4 DEF Owned, OnlyTheClosedAreTornDown
    <2>7. OneTeardown'
      <3>1. \A k, m \in loops' : k.of = m.of => k = m
        BY <2>2, <2>4 DEF Owned, OneTeardown
      <3> QED  BY <2>4, <3>1 DEF OneTeardown
    <2> QED  BY <2>4, <2>5, <2>6, <2>7 DEF Owned
  <1>8. ASSUME UNCHANGED <<membership, teardown, stage>> PROVE Owned'
    <2>1. Closes({})
      BY <1>8 DEF Closes
    <2> QED  BY <1>8, <2>1, StageOwned DEF membership, teardown
  <1>9. ASSUME NEW k \in calls, NEW here \in BOOLEAN, Proceeds(k, here) PROVE Owned'
    <2>1. k.target \in Id /\ k.chan \in Channel \cup {All}
      BY DEF TypeInv, MembershipType
    <2> QED  BY <1>9, <2>1, ApplyOwned, IdleOwned DEF Proceeds
  <1>10. ASSUME NEW k \in calls, EvictFails(k) PROVE Owned'
    BY <1>10, IdleOwned DEF EvictFails, CloseThrows
  <1>11. ASSUME NEW f \in frames, FrameArrives(f) \/ FrameIsLost(f) PROVE Owned'
    <2>1. f.target \in Id /\ f.chan \in Channel \cup {All}
      BY DEF TypeInv, MembershipType, Record
    <2> QED  BY <1>11, <2>1, ApplyOwned, IdleOwned DEF FrameArrives, FrameIsLost
  <1>12. ASSUME NEW a \in applies, ClearRevocation(a) PROVE Owned'
    <2>1. UNCHANGED <<subscriptions, channelsByClient, joined, bound, retired, loops, stage>>
      BY <1>12 DEF ClearRevocation, teardown
    <2>2. Closes({})
      BY <2>1 DEF Closes
    <2> QED  BY <2>1, <2>2, StageOwned
  <1>13. ASSUME NEW g \in pass.todo, PassApplies(g) \/ PassApplyFails(g) PROVE Owned'
    <2>1. g.target \in Id /\ g.chan \in Channel \cup {All}
      BY DEF TypeInv, MembershipType
    <2> QED  BY <1>13, <2>1, ApplyOwned, IdleOwned DEF PassApplies, PassApplyFails, CloseThrows
  <1> QED
    BY <1>1, <1>2, <1>3, <1>4, <1>5, <1>6, <1>7, <1>8, <1>9, <1>10, <1>11, <1>12, <1>13
       DEF Next, vars, Revoke, MarkLands, MarkFails, ClearFails, PassReads, PassEnds

-----------------------------------------------------------------------------
\* What carries the id of a revocation after its call, and before as well.
Spoken(id, c, rec) ==
    \/ \E f \in frames : f.target = id /\ f.chan = c /\ f.rec = rec
    \/ \E g \in pass.todo : g.target = id /\ g.chan = c /\ rec \in g.recs
    \/ \E a \in applies : a.target = id /\ a.chan = c /\ rec \in a.recs

Carries(id, c, rec) ==
    Spoken(id, c, rec) \/ \E k \in calls : k.target = id /\ k.chan = c /\ k.rec = rec

Fresh(rec) == /\ \A r \in store : r.rec # rec
              /\ \A id \in Id, c \in Channel \cup {All} : ~Spoken(id, c, rec)

\* The id of a revocation names one pair before, in and after its record.
OnePair ==
    /\ \A k, m \in calls : k.rec = m.rec => k = m
    /\ \A k \in calls : k.rec <= minted /\ (~k.marked => Fresh(k.rec))
    /\ \A rec \in Revocation : rec > minted => Fresh(rec)
    /\ \A r, q \in store : r.rec = q.rec /\ r.rec # None => r = q
    /\ \A r \in store, id \in Id, c \in Channel \cup {All} :
         r.rec # None /\ Carries(id, c, r.rec) => id = r.target /\ c = r.chan

\* What a leave has yet to clear, it has answered, unless there is no record.
Answers == \A a \in applies : \A rec \in a.recs :
    [target |-> a.target, chan |-> a.chan, rec |-> rec] \in store => rec \in answered

Recorded == OnePair /\ Answers

LEMMA IdsAreNumbers ==
    ASSUME TypeInv
    PROVE  /\ Revocation \subseteq Nat /\ None \notin Revocation
           /\ minted \in Nat
           /\ \A r \in store : r.rec # None => r.rec \in Revocation
           /\ \A k \in calls : k.rec \in Revocation /\ k.target \in Id /\ k.chan \in Channel \cup {All}
  BY MembershipAssumption DEF TypeInv, MembershipType, Record, Revocation

\* What is in flight or recorded, and no longer waits for its record.
Known(id, c, rec) ==
    /\ Carries(id, c, rec) \/ [target |-> id, chan |-> c, rec |-> rec] \in store
    /\ rec <= minted /\ \A k \in calls : ~k.marked => k.rec # rec

LEMMA SpokenIsKnown ==
    ASSUME TypeInv, OnePair, NEW id \in Id, NEW c \in Channel \cup {All}, NEW rec \in Revocation,
           Spoken(id, c, rec)
    PROVE  Known(id, c, rec)
  BY IdsAreNumbers DEF Known, OnePair, Carries, Fresh

LEMMA CallIsKnown ==
    ASSUME TypeInv, OnePair, NEW k \in calls, k.marked
    PROVE  Known(k.target, k.chan, k.rec)
  BY IdsAreNumbers DEF Known, OnePair, Carries

LEMMA RecordIsKnown ==
    ASSUME TypeInv, OnePair, NEW r \in store, r.rec # None
    PROVE  Known(r.target, r.chan, r.rec)
  <1>1. r = [target |-> r.target, chan |-> r.chan, rec |-> r.rec]
    BY DEF TypeInv, MembershipType, Record
  <1> QED  BY <1>1, IdsAreNumbers DEF Known, OnePair, Fresh

\* A step that only hands on what is known.
LEMMA HandedOn ==
    ASSUME TypeInv, OnePair, store' \subseteq store, calls' \subseteq calls, UNCHANGED minted,
           \A id \in Id, c \in Channel \cup {All}, rec \in Revocation :
                Spoken(id, c, rec)' => Known(id, c, rec)
    PROVE  OnePair'
  <1>0. ASSUME NEW rec \in Revocation, Fresh(rec),
               rec > minted \/ \E k \in calls : ~k.marked /\ k.rec = rec
        PROVE  Fresh(rec)'
    <2>1. \A id \in Id, c \in Channel \cup {All} : ~Known(id, c, rec)
      BY <1>0, IdsAreNumbers DEF Known
    <2> QED  BY <1>0, <2>1 DEF Fresh
  <1>1. ASSUME NEW k \in calls' PROVE k.rec <= minted' /\ (~k.marked => Fresh(k.rec)')
    <2>1. k \in calls /\ k.rec \in Revocation /\ k.rec <= minted /\ (~k.marked => Fresh(k.rec))
      BY IdsAreNumbers DEF OnePair
    <2> QED  BY <1>0, <2>1
  <1>2. ASSUME NEW rec \in Revocation, rec > minted' PROVE Fresh(rec)'
    BY <1>0, <1>2 DEF OnePair
  <1>3. ASSUME NEW r \in store', NEW id \in Id, NEW c \in Channel \cup {All},
               r.rec # None, Carries(id, c, r.rec)'
        PROVE  id = r.target /\ c = r.chan
    <2>1. r \in store /\ r.rec \in Revocation
      BY <1>3, IdsAreNumbers
    <2>2. Carries(id, c, r.rec) \/ [target |-> id, chan |-> c, rec |-> r.rec] \in store
      BY <1>3, <2>1 DEF Carries, Known
    <2>3. CASE [target |-> id, chan |-> c, rec |-> r.rec] \in store
      <3>1. r = [target |-> id, chan |-> c, rec |-> r.rec]
        BY <1>3, <2>1, <2>3 DEF OnePair
      <3> QED  BY <3>1
    <2> QED  BY <1>3, <2>1, <2>2, <2>3 DEF OnePair
  <1> QED  BY <1>1, <1>2, <1>3 DEF OnePair

\* What applying a revocation adds, and that what it has to clear is answered.
LEMMA ApplyAdds ==
    ASSUME TypeInv, Answers, NEW id \in Id, NEW c \in Channel \cup {All}, NEW recs, NEW inPass,
           Apply(id, c, recs, inPass), UNCHANGED store
    PROVE  /\ Answers'
           /\ \A a \in applies' : \/ a \in applies
                                  \/ a.target = id /\ a.chan = c /\ a.recs = recs
  <1>1. CASE c = All
    <2>1. UNCHANGED applies /\ answered \subseteq answered'
      BY <1>1, BeginTypes DEF Apply, RevokeLocal
    <2> QED  BY <2>1 DEF Answers
  <1>2. CASE c # All
    <2>1. LeaveLocal(id, c) /\ c \in Channel
      BY <1>2 DEF Apply, RevokeChannelLocal
    <2>2. answered \subseteq answered'
      BY <2>1, LeaveTypes
    <2>3. CASE id \notin subscriptions[c]
      BY <1>2, <2>2, <2>3 DEF Apply, RevokeChannelLocal, Answers
    <2>4. CASE id \in subscriptions[c]
      <3>1. answered' = answered \cup {r.rec : r \in {q \in store : q.target = id /\ q.chan = c}}
        BY <2>1, <2>4 DEF LeaveLocal
      <3>2. \A rec : [target |-> id, chan |-> c, rec |-> rec] \in store => rec \in answered'
        BY <3>1
      <3>3. applies' = applies \cup {[target |-> id, chan |-> c, recs |-> recs, inPass |-> inPass]}
        BY <1>2, <2>4 DEF Apply, RevokeChannelLocal
      <3>4. ASSUME NEW a \in applies', a \notin applies
            PROVE  a.target = id /\ a.chan = c /\ a.recs = recs
        <4>1. a = [target |-> id, chan |-> c, recs |-> recs, inPass |-> inPass]
          BY <3>3, <3>4
        <4> QED  BY <4>1
      <3> QED  BY <1>2, <2>2, <3>2, <3>4 DEF Answers
    <2> QED  BY <2>3, <2>4
  <1> QED  BY <1>1, <1>2

LEMMA LeaveAnswers ==
    ASSUME TypeInv, Answers, UNCHANGED <<store, applies>>, answered \subseteq answered'
    PROVE  Answers'
  BY DEF Answers

\* A step that leaves the revocations alone.
LEMMA Elsewhere ==
    ASSUME TypeInv, Recorded, UNCHANGED revoking, answered \subseteq answered'
    PROVE  Recorded'
  <1>1. UNCHANGED <<calls, store, frames, applies, pass, minted>>
    BY DEF revoking
  <1>2. \A id \in Id, c \in Channel \cup {All}, rec \in Revocation :
          Spoken(id, c, rec)' => Spoken(id, c, rec)
    BY <1>1 DEF Spoken
  <1>3. OnePair'
    BY <1>1, <1>2, SpokenIsKnown, HandedOn DEF Recorded
  <1> QED  BY <1>1, <1>3, LeaveAnswers DEF Recorded

\* Each step keeps what is known of the revocations.
LEMMA RecordedStep == TypeInv /\ TypeInv' /\ Recorded /\ [Next]_vars => Recorded'
  <1> SUFFICES ASSUME TypeInv, TypeInv', Recorded, [Next]_vars PROVE Recorded'  OBVIOUS
  <1> USE MembershipAssumption
  <1>i. OnePair /\ Answers
    BY DEF Recorded
  <1>1. ASSUME NEW s \in Socket, Opens(s) \/ PeerCloses(s) PROVE Recorded'
    BY <1>1, Elsewhere DEF Opens, PeerCloses, membership
  <1>2. ASSUME NEW s \in Socket, Closed(s) PROVE Recorded'
    <2>1. answered \subseteq answered'
      BY <1>2, BeginTypes DEF Closed, Disconnect, membership
    <2> QED  BY <1>2, <2>1, Elsewhere DEF Closed
  <1>3. ASSUME NEW s \in Socket, NEW c \in Channel, Subscribe(s, c) \/ Unsubscribe(s, c) PROVE Recorded'
    <2>1. answered \subseteq answered' /\ UNCHANGED revoking
      BY <1>3, AttemptTypes, LeaveTypes DEF Subscribe, Unsubscribe, membership
    <2> QED  BY <2>1, Elsewhere
  <1>4. ASSUME NEW a \in asking, Authorized(a) \/ Denied(a) PROVE Recorded'
    <2>1. a.sock \in Socket /\ a.chan \in Channel
      BY DEF TypeInv, MembershipType
    <2>2. answered \subseteq answered' /\ UNCHANGED revoking
      BY <1>4, <2>1, AttemptTypes DEF Authorized, Denied, membership
    <2> QED  BY <2>2, Elsewhere
  <1>5. ASSUME NEW l \in loops, LeavesNext(l) PROVE Recorded'
    <2>1. l.of \in Socket /\ l.left \in SUBSET Channel
      BY DEF TypeInv, MembershipType
    <2>2. Advance(l.of, l.left, loops \ {l}) /\ loops \ {l} \in SUBSET loops /\ UNCHANGED revoking
      BY <1>5 DEF LeavesNext
    <2>3. answered \subseteq answered'
      BY <2>1, <2>2, AdvanceTypes
    <2> QED  BY <2>2, <2>3, Elsewhere
  <1>6. ASSUME NEW i \in Id, NEW c \in Channel \cup {All}, Revoke(i, c) PROVE Recorded'
    <2> DEFINE n == [rec |-> minted + 1, target |-> i, chan |-> c, marked |-> FALSE]
    <2>1. /\ calls' = calls \cup {n} /\ minted' = minted + 1 /\ minted + 1 \in Revocation
          /\ UNCHANGED <<store, frames, applies, pass, answered>>
      BY <1>6 DEF Revoke, membership, TypeInv, MembershipType, Revocation
    <2>2. n.rec = minted + 1 /\ n.target = i /\ n.chan = c
      OBVIOUS
    <2> HIDE DEF n
    <2>3. \A rec \in Revocation : Fresh(rec) <=> Fresh(rec)'
      BY <2>1 DEF Fresh, Spoken
    <2>4. Fresh(minted + 1)
      BY <1>i, <2>1, IdsAreNumbers DEF OnePair
    <2>5. \A k \in calls : k.rec <= minted /\ k.rec \in Revocation
      BY <1>i, IdsAreNumbers DEF OnePair
    <2>6. \A k, m \in calls' : k.rec = m.rec => k = m
      BY <1>i, <2>1, <2>2, <2>5, IdsAreNumbers DEF OnePair
    <2>7. \A k \in calls' : k.rec <= minted' /\ (~k.marked => Fresh(k.rec)')
      BY <1>i, <2>1, <2>2, <2>3, <2>4, <2>5, IdsAreNumbers DEF OnePair
    <2>8. \A rec \in Revocation : rec > minted' => Fresh(rec)'
      BY <1>i, <2>1, <2>3, IdsAreNumbers DEF OnePair
    <2>9. ASSUME NEW r \in store', NEW id \in Id, NEW d \in Channel \cup {All}, r.rec # None,
                 Carries(id, d, r.rec)'
          PROVE  id = r.target /\ d = r.chan
      <3>1. Carries(id, d, r.rec)
        BY <2>1, <2>2, <2>4, <2>9 DEF Carries, Spoken, Fresh
      <3> QED  BY <1>i, <2>1, <2>9, <3>1 DEF OnePair
    <2>10. OnePair'
      BY <1>i, <2>1, <2>6, <2>7, <2>8, <2>9 DEF OnePair
    <2>11. Answers'
      BY <1>i, <2>1, LeaveAnswers
    <2> QED  BY <2>10, <2>11 DEF Recorded
  <1>7. ASSUME NEW k \in calls, MarkLands(k) \/ MarkFails(k) PROVE Recorded'
    <2> DEFINE m == [k EXCEPT !.marked = TRUE]
    <2>1. /\ ~k.marked /\ calls' = (calls \ {k}) \cup {m}
          /\ UNCHANGED <<frames, applies, pass, minted, answered>>
          /\ store' = store \/ store' = store \cup {RecordOf(k)}
      BY <1>7 DEF MarkLands, MarkFails, Marked, membership
    <2>2. /\ m.rec = k.rec /\ m.target = k.target /\ m.chan = k.chan /\ m.marked
          /\ k.rec \in Revocation /\ k.target \in Id /\ k.chan \in Channel \cup {All}
          /\ Fresh(k.rec) /\ k.rec <= minted
      BY <1>i, <2>1, IdsAreNumbers DEF OnePair, TypeInv, MembershipType
    <2> HIDE DEF m
    <2>3. \A id \in Id, c \in Channel \cup {All}, rec \in Revocation :
            /\ Spoken(id, c, rec)' <=> Spoken(id, c, rec)
            /\ Carries(id, c, rec)' <=> Carries(id, c, rec)
      BY <2>1, <2>2 DEF Spoken, Carries
    <2>4. /\ RecordOf(k).rec \in {k.rec, None} /\ RecordOf(k).target = k.target /\ RecordOf(k).chan = k.chan
      BY DEF RecordOf
    <2>5. \A rec \in Revocation : rec # k.rec /\ Fresh(rec) => Fresh(rec)'
      BY <2>1, <2>3, <2>4, IdsAreNumbers DEF Fresh
    <2>6. \A j \in calls : j # k => j.rec # k.rec
      BY <1>i, <2>1 DEF OnePair
    <2>7. \A i, j \in calls' : i.rec = j.rec => i = j
      BY <1>i, <2>1, <2>2, <2>6 DEF OnePair
    <2>8. \A j \in calls' : j.rec <= minted' /\ (~j.marked => Fresh(j.rec)')
      BY <1>i, <2>1, <2>2, <2>5, <2>6, IdsAreNumbers DEF OnePair
    <2>9. \A rec \in Revocation : rec > minted' => Fresh(rec)'
      BY <1>i, <2>1, <2>2, <2>5, IdsAreNumbers DEF OnePair
    <2>10. \A r, q \in store' : r.rec = q.rec /\ r.rec # None => r = q
      BY <1>i, <2>1, <2>2, <2>4 DEF OnePair, Fresh
    <2>11. ASSUME NEW r \in store', NEW id \in Id, NEW c \in Channel \cup {All}, r.rec # None,
                  Carries(id, c, r.rec)'
           PROVE  id = r.target /\ c = r.chan
      <3>1. CASE r \in store
        BY <1>i, <2>3, <2>11, <3>1, IdsAreNumbers DEF OnePair
      <3>2. CASE r = RecordOf(k)
        <4>1. r.rec = k.rec /\ Carries(id, c, k.rec)
          BY <2>2, <2>3, <2>4, <2>11, <3>2
        <4>2. PICK j \in calls : j.target = id /\ j.chan = c /\ j.rec = k.rec
          BY <2>2, <4>1 DEF Carries, Fresh
        <4> QED  BY <2>4, <2>6, <3>2, <4>2
      <3> QED  BY <2>1, <3>1, <3>2
    <2>12. OnePair'
      BY <2>7, <2>8, <2>9, <2>10, <2>11 DEF OnePair
    <2>13. ASSUME NEW a \in applies', NEW rec \in a.recs,
                  [target |-> a.target, chan |-> a.chan, rec |-> rec] \in store'
           PROVE  rec \in answered'
      <3>1. a.target \in Id /\ a.chan \in Channel /\ rec \in Revocation /\ a \in applies
        BY <2>1 DEF TypeInv, MembershipType
      <3>2. Spoken(a.target, a.chan, rec)
        BY <3>1 DEF Spoken
      <3>3. rec # k.rec /\ rec # None
        BY <2>2, <3>1, <3>2, IdsAreNumbers DEF Fresh
      <3>4. [target |-> a.target, chan |-> a.chan, rec |-> rec] # RecordOf(k)
        BY <2>4, <3>3
      <3> QED  BY <1>i, <2>1, <2>13, <3>1, <3>4 DEF Answers
    <2>14. Answers'
      BY <2>13 DEF Answers
    <2> QED  BY <2>12, <2>14 DEF Recorded
  <1>8. ASSUME NEW k \in calls, EvictFails(k) PROVE Recorded'
    <2>1. /\ calls' \subseteq calls
          /\ UNCHANGED <<store, frames, applies, pass, minted, answered>>
      BY <1>8, IdleTypes DEF EvictFails, CloseThrows
    <2>2. \A id \in Id, d \in Channel \cup {All}, rec \in Revocation : Spoken(id, d, rec)' => Spoken(id, d, rec)
      BY <2>1 DEF Spoken
    <2> QED  BY <1>i, <2>1, <2>2, SpokenIsKnown, HandedOn, LeaveAnswers DEF Recorded
  <1>9. ASSUME NEW k \in calls, NEW here \in BOOLEAN, Proceeds(k, here) PROVE Recorded'
    <2>1. /\ k.marked /\ k.rec \in Revocation /\ k.target \in Id /\ k.chan \in Channel \cup {All}
          /\ calls' \subseteq calls /\ UNCHANGED <<store, pass, minted>>
      BY <1>9, IdsAreNumbers DEF Proceeds
    <2>2. Known(k.target, k.chan, k.rec)
      BY <1>i, <2>1, CallIsKnown
    <2>3. CASE here /\ bound[k.target] # None
      <3>1. Apply(k.target, k.chan, {k.rec}, FALSE) /\ UNCHANGED frames
        BY <1>9, <2>3 DEF Proceeds
      <3>2. /\ Answers'
            /\ \A a \in applies' : \/ a \in applies
                                   \/ a.target = k.target /\ a.chan = k.chan /\ a.recs = {k.rec}
        BY <1>i, <2>1, <3>1, ApplyAdds
      <3>3. \A id \in Id, d \in Channel \cup {All}, rec \in Revocation :
              Spoken(id, d, rec)' => Spoken(id, d, rec) \/ (id = k.target /\ d = k.chan /\ rec = k.rec)
        BY <2>1, <3>1, <3>2 DEF Spoken
      <3> QED  BY <1>i, <2>1, <2>2, <3>2, <3>3, SpokenIsKnown, HandedOn DEF Recorded
    <2>4. CASE ~(here /\ bound[k.target] # None)
      <3>1. /\ frames' = frames \cup {[target |-> k.target, chan |-> k.chan, rec |-> k.rec]}
            /\ UNCHANGED <<applies, answered>>
        BY <1>9, <2>4, IdleTypes DEF Proceeds
      <3>2. \A id \in Id, d \in Channel \cup {All}, rec \in Revocation :
              Spoken(id, d, rec)' => Spoken(id, d, rec) \/ (id = k.target /\ d = k.chan /\ rec = k.rec)
        BY <2>1, <3>1 DEF Spoken
      <3> QED  BY <1>i, <2>1, <2>2, <3>1, <3>2, SpokenIsKnown, HandedOn, LeaveAnswers DEF Recorded
    <2> QED  BY <2>3, <2>4
  <1>10. ASSUME NEW f \in frames, FrameArrives(f) \/ FrameIsLost(f) PROVE Recorded'
    <2>1. /\ f.rec \in Revocation /\ f.target \in Id /\ f.chan \in Channel \cup {All}
          /\ frames' \subseteq frames /\ UNCHANGED <<calls, store, pass, minted>>
      BY <1>10 DEF FrameArrives, FrameIsLost, TypeInv, MembershipType, Named, Record
    <2>2. Known(f.target, f.chan, f.rec)
      BY <1>i, <2>1, SpokenIsKnown DEF Spoken
    <2>3. CASE Apply(f.target, f.chan, {f.rec}, FALSE)
      <3>1. /\ Answers'
            /\ \A a \in applies' : \/ a \in applies
                                   \/ a.target = f.target /\ a.chan = f.chan /\ a.recs = {f.rec}
        <4>1. UNCHANGED store /\ f.target \in Id /\ f.chan \in Channel \cup {All}
          BY <2>1
        <4> QED  BY ONLY TypeInv, <1>i, <2>3, <4>1, ApplyAdds
      <3>2. \A id \in Id, d \in Channel \cup {All}, rec \in Revocation :
              Spoken(id, d, rec)' => Spoken(id, d, rec) \/ (id = f.target /\ d = f.chan /\ rec = f.rec)
        BY <2>1, <3>1 DEF Spoken
      <3> QED  BY <1>i, <2>1, <2>2, <3>1, <3>2, SpokenIsKnown, HandedOn DEF Recorded
    <2>4. CASE NotApplied
      <3>1. UNCHANGED <<applies, answered>>
        BY <2>4, IdleTypes
      <3>2. \A id \in Id, d \in Channel \cup {All}, rec \in Revocation : Spoken(id, d, rec)' => Spoken(id, d, rec)
        BY <2>1, <3>1 DEF Spoken
      <3> QED  BY <1>i, <2>1, <3>1, <3>2, SpokenIsKnown, HandedOn, LeaveAnswers DEF Recorded
    <2> QED  BY <1>10, <2>3, <2>4 DEF FrameArrives, FrameIsLost
  <1>11. ASSUME NEW a \in applies, ClearRevocation(a) PROVE Recorded'
    <2>1. PICK rec \in a.recs : /\ store' = Cleared(a, rec)
                                /\ applies' = Without(a, {rec})
                                /\ answered' = answered \ {rec}
      BY <1>11 DEF ClearRevocation
    <2>2. /\ a.target \in Id /\ a.chan \in Channel /\ rec \in Revocation
          /\ UNCHANGED <<calls, frames, pass, minted>>
          /\ store' = store \ {[target |-> a.target, chan |-> a.chan, rec |-> rec]}
      BY <1>11, <2>1 DEF ClearRevocation, Cleared, TypeInv, MembershipType
    <2>3. \A b \in applies' : \/ b \in applies
                              \/ b.target = a.target /\ b.chan = a.chan /\ b.recs \subseteq a.recs
      BY <2>1, WithoutTypes
    <2>4. \A id \in Id, d \in Channel \cup {All}, q \in Revocation : Spoken(id, d, q)' => Spoken(id, d, q)
      BY <2>2, <2>3 DEF Spoken
    <2>5. OnePair'
      BY <1>i, <2>2, <2>4, SpokenIsKnown, HandedOn
    <2>6. ASSUME NEW b \in applies', NEW q \in b.recs,
                 [target |-> b.target, chan |-> b.chan, rec |-> q] \in store'
          PROVE  q \in answered'
      <3>1. PICK e \in applies : e.target = b.target /\ e.chan = b.chan /\ q \in e.recs
        BY <2>3
      <3>2. /\ b.target \in Id /\ b.chan \in Channel /\ q \in Revocation
            /\ [target |-> b.target, chan |-> b.chan, rec |-> q] \in store
        BY <2>2, <2>6, <3>1 DEF TypeInv, MembershipType
      <3>3. q \in answered
        BY <1>i, <3>1, <3>2 DEF Answers
      <3>4. CASE q = rec
        <4>1. Carries(a.target, a.chan, q)
          BY <2>2, <3>4 DEF Carries, Spoken
        <4>2. a.target = b.target /\ a.chan = b.chan
          BY <1>i, <2>2, <3>2, <4>1, IdsAreNumbers DEF OnePair
        <4> QED  BY <2>2, <2>6, <3>4, <4>2
      <3> QED  BY <2>1, <3>3, <3>4
    <2> QED  BY <2>5, <2>6 DEF Recorded, Answers
  <1>12. ASSUME NEW a \in applies, ClearFails(a) PROVE Recorded'
    <2>1. PICK recs \in SUBSET a.recs : applies' = Without(a, recs)
      BY <1>12 DEF ClearFails
    <2>2. UNCHANGED <<calls, store, frames, pass, minted, answered>>
      BY <1>12 DEF ClearFails, membership
    <2>3. \A b \in applies' : \/ b \in applies
                              \/ b.target = a.target /\ b.chan = a.chan /\ b.recs \subseteq a.recs
      BY <2>1, WithoutTypes
    <2>4. \A id \in Id, d \in Channel \cup {All}, q \in Revocation : Spoken(id, d, q)' => Spoken(id, d, q)
      BY <2>2, <2>3 DEF Spoken
    <2>5. OnePair'
      BY <1>i, <2>2, <2>4, SpokenIsKnown, HandedOn
    <2>6. Answers'
      <3>1. \A b \in applies' : \A q \in b.recs :
              \E e \in applies : e.target = b.target /\ e.chan = b.chan /\ q \in e.recs
        BY <2>3
      <3> QED  BY <1>i, <2>2, <3>1 DEF Answers
    <2> QED  BY <2>5, <2>6 DEF Recorded
  <1>13. CASE PassReads
    <2>1. /\ UNCHANGED <<calls, store, frames, applies, minted, answered>>
          /\ pass'.todo = Groups({r \in store : bound[r.target] # None})
      BY <1>13 DEF PassReads, membership, TypeInv, Named
    <2>2. ASSUME NEW g \in pass'.todo, NEW rec \in g.recs
          PROVE  \E r \in store : r.target = g.target /\ r.chan = g.chan /\ r.rec = rec
      BY <2>1 DEF Groups
    <2>3. \A r \in store, rec \in Revocation : r.rec = rec => Known(r.target, r.chan, rec)
      BY <1>i, RecordIsKnown, IdsAreNumbers
    <2>4. ASSUME NEW id \in Id, NEW d \in Channel \cup {All}, NEW rec \in Revocation, Spoken(id, d, rec)'
          PROVE  Known(id, d, rec)
      <3>1. CASE \E g \in pass'.todo : g.target = id /\ g.chan = d /\ rec \in g.recs
        BY <2>2, <2>3, <3>1
      <3>2. CASE ~ \E g \in pass'.todo : g.target = id /\ g.chan = d /\ rec \in g.recs
        <4>1. Spoken(id, d, rec)
          BY <2>1, <2>4, <3>2 DEF Spoken
        <4> QED  BY <1>i, <4>1, SpokenIsKnown
      <3> QED  BY <3>1, <3>2
    <2>5. OnePair'
      BY <1>i, <2>1, <2>4, HandedOn
    <2> QED  BY <1>i, <2>1, <2>5, LeaveAnswers DEF Recorded
  <1>14. CASE PassEnds
    <2>1. /\ UNCHANGED <<calls, store, frames, applies, minted, answered>> /\ pass'.todo = {}
      BY <1>14 DEF PassEnds, membership
    <2>2. \A id \in Id, d \in Channel \cup {All}, rec \in Revocation : Spoken(id, d, rec)' => Spoken(id, d, rec)
      BY <2>1 DEF Spoken
    <2> QED  BY <1>i, <2>1, <2>2, SpokenIsKnown, HandedOn, LeaveAnswers DEF Recorded
  <1>15. ASSUME NEW g \in pass.todo, PassApplies(g) \/ PassApplyFails(g) PROVE Recorded'
    <2>1. /\ g.target \in Id /\ g.chan \in Channel \cup {All} /\ g.recs \subseteq Revocation \cup {None}
          /\ UNCHANGED <<calls, store, frames, minted>>
          /\ pass'.todo \subseteq pass.todo
      <3>1. pass'.todo \subseteq pass.todo
        <4>1. pass \in [stage : {"idle", "applying"}, waits : Socket \cup {None},
                        todo : SUBSET [target : Id, chan : Channel \cup {All}, recs : SUBSET (Revocation \cup {None})]]
          BY DEF TypeInv, Named
        <4>2. PICK w : pass' = [pass EXCEPT !.todo = @ \ {g}, !.waits = w]
          BY <1>15 DEF PassApplies, PassApplyFails
        <4> QED  BY <4>1, <4>2
      <3>2. UNCHANGED <<calls, store, frames, minted>>
        BY <1>15 DEF PassApplies, PassApplyFails, PassTakes
      <3> QED  BY <3>1, <3>2 DEF TypeInv, MembershipType
    <2>2. CASE Apply(g.target, g.chan, g.recs, TRUE)
      <3>1. /\ Answers'
            /\ \A a \in applies' : \/ a \in applies
                                   \/ a.target = g.target /\ a.chan = g.chan /\ a.recs = g.recs
        <4>1. UNCHANGED store /\ g.target \in Id /\ g.chan \in Channel \cup {All}
          BY <2>1
        <4> QED  BY ONLY TypeInv, <1>i, <2>2, <4>1, ApplyAdds
      <3>2. \A id \in Id, d \in Channel \cup {All}, rec \in Revocation : Spoken(id, d, rec)' => Spoken(id, d, rec)
        BY <2>1, <3>1 DEF Spoken
      <3> QED  BY <1>i, <2>1, <3>1, <3>2, SpokenIsKnown, HandedOn DEF Recorded
    <2>3. CASE NotApplied
      <3>1. UNCHANGED <<applies, answered>>
        BY <2>3, IdleTypes
      <3>2. \A id \in Id, d \in Channel \cup {All}, rec \in Revocation : Spoken(id, d, rec)' => Spoken(id, d, rec)
        BY <2>1, <3>1 DEF Spoken
      <3> QED  BY <1>i, <2>1, <3>1, <3>2, SpokenIsKnown, HandedOn, LeaveAnswers DEF Recorded
    <2> QED  BY <1>15, <2>2, <2>3 DEF PassApplies, PassApplyFails, CloseThrows
  <1>16. CASE UNCHANGED vars
    BY <1>16, Elsewhere DEF vars, membership
  <1> QED
    BY <1>1, <1>2, <1>3, <1>4, <1>5, <1>6, <1>7, <1>8, <1>9, <1>10, <1>11, <1>12, <1>13,
       <1>14, <1>15, <1>16 DEF Next

-----------------------------------------------------------------------------
IInv == TypeInv /\ Owned /\ Recorded

LEMMA InitIInv == Init => IInv
  <1> SUFFICES ASSUME Init PROVE IInv  OBVIOUS
  <1> USE MembershipAssumption DEF Init
  <1>1. TypeInv
    BY DEF TypeInv, MembershipType, Named
  <1>2. HeldByTheOwner
    BY DEF HeldByTheOwner
  <1>3. Owned
    BY <1>2 DEF Owned, OnlyTheClosedAreTornDown, Registered, OneTeardown
  <1>4. \A id \in Id, c \in Channel \cup {All}, rec \in Revocation : ~Spoken(id, c, rec)
    BY DEF Spoken
  <1>5. Recorded
    BY <1>4 DEF Recorded, OnePair, Answers, Fresh
  <1> QED  BY <1>1, <1>3, <1>5 DEF IInv

LEMMA Inductive == Safety => []IInv
  <1>1. IInv /\ [Next]_vars => IInv'
    BY TypeStep, OwnedStep, RecordedStep DEF IInv
  <1> QED  BY <1>1, InitIInv, PTL DEF Safety

\* Types of the manager's maps, of the calls, of the frames and of the pass.
THEOREM TypeCorrect == Safety => []MembershipType
  <1>1. IInv => MembershipType
    BY DEF IInv, TypeInv
  <1> QED  BY <1>1, Inductive, PTL

\* For any sockets that share ids in any order: the two indexes agree, and
\* what an id holds was joined by the socket that is registered under it.
THEOREM OwnersHold == Safety => []HeldByTheOwner
  <1>1. IInv => HeldByTheOwner
    BY DEF IInv, Owned
  <1> QED  BY <1>1, Inductive, PTL

\* However late a close hook runs, only a socket that has closed is torn down,
\* and its id stays bound to it until its teardown has left every channel.
THEOREM TeardownsAreOwned == Safety => []OnlyTheClosedAreTornDown
  <1>1. IInv => OnlyTheClosedAreTornDown
    BY DEF IInv, Owned
  <1> QED  BY <1>1, Inductive, PTL

\* A step that clears a record clears one that its connection has answered.
LEMMA ClearStep ==
    ASSUME IInv, [Next]_vars, NEW r \in store \ store'
    PROVE  r.chan # All /\ r.rec \in answered
  <1> USE MembershipAssumption
  <1>1. PICK a \in applies : ClearRevocation(a)
    BY DEF Next, vars, revoking, Opens, PeerCloses, Closed, Subscribe, Unsubscribe, Authorized, Denied,
       LeavesNext, Revoke, MarkLands, MarkFails, EvictFails, Proceeds, FrameArrives, FrameIsLost,
       ClearFails, PassReads, PassEnds, PassApplies, PassApplyFails, PassTakes
  <1>2. PICK rec \in a.recs : store' = store \ {[target |-> a.target, chan |-> a.chan, rec |-> rec]}
    BY <1>1 DEF ClearRevocation, Cleared
  <1>3. r = [target |-> a.target, chan |-> a.chan, rec |-> rec]
    BY <1>2
  <1>4. a.chan \in Channel /\ rec \in answered
    BY <1>3 DEF IInv, Recorded, Answers, TypeInv, MembershipType
  <1> QED  BY <1>3, <1>4

\* Whatever is lost, fails or is recorded meanwhile: a record is forgotten only
\* when its connection has left the channel since it was written.
THEOREM ClearsAreEarned == Safety => ClearedOnceApplied
  <1>1. IInv /\ [Next]_vars => [\A r \in store \ store' : r.chan # All /\ r.rec \in answered]_vars
    BY ClearStep
  <1> QED  BY <1>1, Inductive, PTL DEF Safety, ClearedOnceApplied
=============================================================================
