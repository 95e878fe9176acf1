------------------------- MODULE PresenceRosterProofs -------------------------
(***************************************************************************)
(* The roster as Redis keeps it is consistent; the instances use it as its *)
(* scripts allow; no living instance keeps a ghost; and a shared read of a *)
(* roster is as fresh as one's own.  For any instances, connections, slots *)
(* and callers, and any number of calls and failures.                      *)
(***************************************************************************)
EXTENDS PresenceRoster, RosterReadBarrier, FiniteSetTheorems, SequenceTheorems, TLAPS

-----------------------------------------------------------------------------
(* The store.                                                              *)

StoreInv == StoreType /\ StoreConsistent

LEMMA HoldKeeps == ASSUME StoreInv, NEW i \in Instance, NEW s \in Slot, HoldMember(i, s)
                   PROVE  StoreInv'
  <1>1. StoreType'  BY DEF StoreInv, StoreType, HoldMember
  <1>2. ShownIsHeld'
    BY NobodyAssumption DEF StoreInv, StoreType, StoreConsistent, ShownIsHeld, HoldMember
  <1>3. HoldsAreSweepable'
    BY DEF StoreInv, StoreType, StoreConsistent, HoldsAreSweepable, HoldMember
  <1> QED  BY <1>1, <1>2, <1>3 DEF StoreInv, StoreConsistent

\* What a release may show is nothing or the entry of a holder that is left.
LEMMA PromotedIs == ASSUME StoreInv, NEW i \in Instance, NEW s \in Slot, NEW e \in Promoted(i, s)
                    PROVE  /\ holders[s] \ {i} = {} => e = Nobody
                           /\ holders[s] \ {i} # {} => e \in holders[s] \ {i}
  <1>1. CASE holders[s] \ {i} = {}  BY <1>1 DEF Promoted
  <1>2. CASE holders[s] \ {i} # {} /\ shown[s] = Mine(i, s)  BY <1>2 DEF Promoted
  <1>3. CASE holders[s] \ {i} # {} /\ shown[s] # Mine(i, s)
    <2>1. e = shown[s]  BY <1>3 DEF Promoted
    <2>2. shown[s] \in holders[s]
      BY <1>3 DEF StoreInv, StoreConsistent, ShownIsHeld
    <2>3. shown[s] # i  BY <1>3, <2>2 DEF Mine
    <2> QED  BY <1>3, <2>1, <2>2, <2>3
  <1> QED  BY <1>1, <1>2, <1>3

LEMMA ReleaseKeeps ==
    ASSUME StoreInv, NEW i \in Instance, NEW s \in Slot, NEW onBehalf \in BOOLEAN,
           ReleaseMember(i, s, onBehalf)
    PROVE  StoreInv'
  <1>1. CASE Refused(i, onBehalf)
    BY <1>1 DEF ReleaseMember, storeVars, StoreInv, StoreType, StoreConsistent,
                ShownIsHeld, HoldsAreSweepable
  <1>2. CASE ~Refused(i, onBehalf)
    <2>1. PICK e \in Promoted(i, s) :
             /\ holders' = [holders EXCEPT ![s] = @ \ {i}]
             /\ owned' = [owned EXCEPT ![i] = @ \ {s}]
             /\ shown' = [shown EXCEPT ![s] = e]
             /\ UNCHANGED <<instances, alive>>
      BY <1>2 DEF ReleaseMember
    <2>2. /\ holders[s] \ {i} = {} => e = Nobody
          /\ holders[s] \ {i} # {} => e \in holders[s] \ {i}
      BY PromotedIs
    <2>3. e \in Instance \cup {Nobody}
      BY <2>2 DEF StoreInv, StoreType
    <2>4. StoreType'  BY <2>1, <2>3 DEF StoreInv, StoreType
    <2>5. ShownIsHeld'
      BY <2>1, <2>2, NobodyAssumption DEF StoreInv, StoreType, StoreConsistent, ShownIsHeld
    <2>6. HoldsAreSweepable'
      BY <2>1 DEF StoreInv, StoreType, StoreConsistent, HoldsAreSweepable
    <2> QED  BY <2>4, <2>5, <2>6 DEF StoreInv, StoreConsistent
  <1> QED  BY <1>1, <1>2

LEMMA KeysKeep == ASSUME StoreInv, NEW i \in Instance,
                         Deregister(i) \/ Renew(i) \/ Register(i) \/ Lapse(i)
                  PROVE  StoreInv'
  <1>1. StoreType'
    BY DEF StoreInv, StoreType, Deregister, Renew, Register, Lapse
  <1>2. ShownIsHeld'
    BY DEF StoreInv, StoreConsistent, ShownIsHeld, Deregister, Renew, Register, Lapse
  <1>3. HoldsAreSweepable'
    <2>1. CASE Deregister(i)
      BY <2>1 DEF StoreInv, StoreConsistent, HoldsAreSweepable, Deregister
    <2>2. CASE Renew(i) \/ Register(i) \/ Lapse(i)
      BY <2>2 DEF StoreInv, StoreConsistent, HoldsAreSweepable, Renew, Register, Lapse
    <2> QED  BY <2>1, <2>2
  <1> QED  BY <1>1, <1>2, <1>3 DEF StoreInv, StoreConsistent

\* Whatever order the scripts arrive in, a slot is shown exactly while it is
\* held, as one of its holders, and whatever is held can be swept.
THEOREM StoreStaysConsistent == StoreSpec => []StoreInv
  <1>1. StoreInit => StoreInv
    BY DEF StoreInit, StoreInv, StoreType, StoreConsistent, ShownIsHeld, HoldsAreSweepable
  <1>2. StoreInv /\ [StoreNext]_storeVars => StoreInv'
    <2> SUFFICES ASSUME StoreInv, [StoreNext]_storeVars PROVE StoreInv'  OBVIOUS
    <2>1. CASE UNCHANGED storeVars
      BY <2>1 DEF storeVars, StoreInv, StoreType, StoreConsistent, ShownIsHeld, HoldsAreSweepable
    <2>2. CASE StoreNext
      <3>1. PICK i \in Instance :
               \/ \E s \in Slot : \/ HoldMember(i, s)
                                  \/ ReleaseMember(i, s, TRUE)
                                  \/ ReleaseMember(i, s, FALSE)
               \/ Deregister(i) \/ Renew(i) \/ Register(i) \/ Lapse(i)
        BY <2>2 DEF StoreNext
      <3> QED  BY <3>1, HoldKeeps, ReleaseKeeps, KeysKeep
    <2> QED  BY <2>1, <2>2
  <1> QED  BY <1>1, <1>2, PTL DEF StoreSpec

-----------------------------------------------------------------------------
(* Types of the instances, group by group.                                 *)

CallJob == {job \in Job : job.conn # None}

MembershipType == up \subseteq Instance /\ local \subseteq Conn /\ waiting \subseteq CallJob

WritesType == /\ tail \in [Instance -> [Slot -> Seq(Job)]]
              /\ step \in [Instance -> [Slot ->
                             {"idle", "boot", "hold", "release", "sent"}]]

Replies == {"none", "arrived", "held", "emptied", "kept", "absent", "refused",
            "continuous", "lapsed"}

WireType == wire \in [Instance ->
               [op : {"none", "write", "beat", "sweep"}, slot : Slot \cup {None},
                reply : Replies]]

BeatingType == /\ started \in [Instance -> {"no", "boot", "yes"}]
               /\ holdIssued \subseteq Instance
               /\ beat \in [Instance -> {"idle", "set", "sent", "continuous",
                                         "lapsed", "failed"}]
               /\ suspected \subseteq Instance

LapseType == lapse \in [Instance ->
                [state : {"off", "revoking", "holding"}, left : SUBSET Slot,
                 at : Slot \cup {None}, failed : BOOLEAN, trailing : BOOLEAN]]

DrainType == /\ owed \in [Instance -> SUBSET Slot]
             /\ drain \in [Instance ->
                   [on : BOOLEAN, left : SUBSET Slot, at : Slot \cup {None},
                    fresh : SUBSET Slot, trailing : BOOLEAN]]

SweepType == sweep \in [Instance ->
                [target : Instance \cup {None}, todo : SUBSET Slot]]

HistoryType == /\ announced \in [Slot -> Int]
               /\ lost \in [Slot -> Int]
               /\ adrift \subseteq Command
               /\ astray \in [Instance -> SUBSET Slot]
               /\ used \in [{"calls", "troubles"} -> Nat]

\* A write in progress is the head of its slot's tail; what is on the wire is
\* what the write, the beat or the sweep that sent it waits for.
Wired == \A i \in Instance :
            /\ \A s \in Slot :
                  /\ step[i][s] # "idle" => tail[i][s] # <<>>
                  /\ step[i][s] = "sent" => wire[i].op = "write" /\ wire[i].slot = s
            /\ beat[i] = "sent" => /\ wire[i].op = "beat"
                                   /\ wire[i].reply \in {"continuous", "lapsed"}
            /\ sweep[i] # NoSweep => sweep[i].target \in Instance

IInv == /\ StoreType /\ MembershipType /\ WritesType /\ WireType /\ BeatingType
        /\ LapseType /\ DrainType /\ SweepType /\ HistoryType /\ Wired

LEMMA IInvIsTyped == IInv => RosterType
  BY DEF IInv, RosterType, MembershipType, CallJob, WritesType, WireType, Replies,
         BeatingType, LapseType, DrainType, SweepType, HistoryType

LEMMA InitIInv == RosterInit => IInv
  <1> SUFFICES ASSUME RosterInit PROVE IInv  OBVIOUS
  <1> USE DEF RosterInit
  <1>1. StoreType  BY DEF StoreInit, StoreType
  <1>2. MembershipType  BY DEF MembershipType
  <1>3. WritesType
    <2>1. <<>> \in Seq(Job)  BY EmptySeq
    <2> QED  BY <2>1 DEF WritesType
  <1>4. WireType  BY DEF WireType, Quiet, Replies
  <1>5. BeatingType  BY DEF BeatingType
  <1>6. LapseType  BY DEF LapseType, NoLapse
  <1>7. DrainType  BY DEF DrainType, NoDrain
  <1>8. SweepType  BY DEF SweepType, NoSweep
  <1>9. HistoryType  BY DEF HistoryType
  <1>10. Wired  BY DEF Wired
  <1> QED  BY <1>1, <1>2, <1>3, <1>4, <1>5, <1>6, <1>7, <1>8, <1>9, <1>10 DEF IInv

\* What is given up is a command.
LEMMA GivenUpIsCommand ==
    ASSUME HistoryType, NEW i \in Instance,
           \/ \E s \in Slot, op \in {"hold", "release", "sweep"} : GivenUp(op, i, s)
           \/ \E op \in {"renew", "register", "deregister"} : GivenUp(op, i, None)
           \/ UNCHANGED adrift
    PROVE  adrift' \subseteq Command
  <1>1. used.troubles \in Nat  BY DEF HistoryType
  <1>2. ASSUME NEW s \in Slot, NEW op \in {"hold", "release", "sweep"}
        PROVE  [op |-> op, of |-> i, slot |-> s, no |-> used.troubles] \in Command
    BY <1>1 DEF Command
  <1>3. ASSUME NEW op \in {"renew", "register", "deregister"}
        PROVE  [op |-> op, of |-> i, slot |-> None, no |-> used.troubles] \in Command
    BY <1>1 DEF Command
  <1>4. CASE \E s \in Slot, op \in {"hold", "release", "sweep"} : GivenUp(op, i, s)
    BY <1>2, <1>4 DEF GivenUp, HistoryType
  <1>5. CASE \E op \in {"renew", "register", "deregister"} : GivenUp(op, i, None)
    BY <1>3, <1>5 DEF GivenUp, HistoryType
  <1> QED  BY <1>4, <1>5 DEF HistoryType

\* Scripts keep the store typed.
LEMMA StoreTypeKept ==
    ASSUME StoreType, NEW i \in Instance,
           \/ \E s \in Slot : \/ HoldMember(i, s)
                              \/ ReleaseMember(i, s, TRUE)
                              \/ ReleaseMember(i, s, FALSE)
           \/ Deregister(i) \/ Renew(i) \/ Register(i) \/ Lapse(i)
           \/ UNCHANGED storeVars
    PROVE  StoreType'
  <1>1. CASE \E s \in Slot : HoldMember(i, s)
    BY <1>1 DEF StoreType, HoldMember
  <1>2. ASSUME NEW s \in Slot, NEW onBehalf \in BOOLEAN, ReleaseMember(i, s, onBehalf)
        PROVE  StoreType'
    <2>1. Promoted(i, s) \subseteq Instance \cup {Nobody}
      BY DEF Promoted, StoreType
    <2> QED  BY <1>2, <2>1 DEF StoreType, ReleaseMember, storeVars
  <1>3. CASE Deregister(i) \/ Renew(i) \/ Register(i) \/ Lapse(i) \/ UNCHANGED storeVars
    BY <1>3 DEF StoreType, Deregister, Renew, Register, Lapse, storeVars
  <1> QED  BY <1>1, <1>2, <1>3

LEMMA JobsAre == ASSUME NEW job \in Job
                 PROVE  /\ job.kind \in {"join", "leave", "reclaim", "lapse", "drain"}
                        /\ job.kind \in {"join", "leave", "reclaim"} => job.conn \in Conn
                        /\ job.conn # None => job.conn \in Conn
  BY DEF Job

LEMMA CallJobsAre == ASSUME NEW c \in Conn, NEW k \in {"join", "leave", "reclaim"}
                     PROVE  [kind |-> k, conn |-> c] \in CallJob
  BY RosterAssumption DEF CallJob, Job

LEMMA JoinTyped == ASSUME IInv, NEW c \in Conn, Join(c) \/ Leave(c) PROVE IInv'
  <1> USE DEF Join, Leave, writes, beating, runs, history, membership, storeVars, IInv
  <1>1. StoreType'  BY DEF StoreType
  <1>2. MembershipType'
    BY CallJobsAre DEF MembershipType
  <1>3. WritesType' /\ WireType' /\ BeatingType' /\ LapseType' /\ DrainType' /\ SweepType'
    BY DEF WritesType, WireType, BeatingType, LapseType, DrainType, SweepType
  <1>4. HistoryType'  BY DEF HistoryType, Spend
  <1>5. Wired'  BY DEF Wired
  <1> QED  BY <1>1, <1>2, <1>3, <1>4, <1>5

\* A job more in one tail.
LEMMA TailGrows ==
    ASSUME IInv, NEW i \in Instance, NEW s \in Slot, NEW job \in Job,
           tail' = [tail EXCEPT ![i][s] = Append(@, job)], UNCHANGED step
    PROVE  /\ WritesType'
           /\ \A j \in Instance, r \in Slot : step'[j][r] # "idle" => tail'[j][r] # <<>>
  <1>1. /\ Append(tail[i][s], job) \in Seq(Job)
        /\ Append(tail[i][s], job) # <<>>
    <2>1. tail[i][s] \in Seq(Job)  BY DEF IInv, WritesType
    <2> QED  BY <2>1, AppendProperties
  <1>2. WritesType'  BY <1>1 DEF IInv, WritesType
  <1>3. ASSUME NEW j \in Instance, NEW r \in Slot, step'[j][r] # "idle"
        PROVE  tail'[j][r] # <<>>
    <2>1. tail'[j][r] = IF j = i /\ r = s THEN Append(tail[i][s], job) ELSE tail[j][r]
      BY DEF IInv, WritesType
    <2> QED  BY <1>1, <1>3, <2>1 DEF IInv, Wired
  <1> QED  BY <1>2, <1>3

LEMMA EnqueueTyped == ASSUME IInv, NEW job \in waiting, Enqueue(job) PROVE IInv'
  <1> DEFINE i == homeOf[job.conn]
             s == slotOf[job.conn]
  <1>0. job \in Job /\ job.conn \in Conn /\ i \in Instance /\ s \in Slot
    BY JobsAre, RosterAssumption DEF IInv, MembershipType, CallJob
  <1>a. tail' = [tail EXCEPT ![i][s] = Append(@, job)] /\ UNCHANGED step
    BY DEF Enqueue
  <1> HIDE DEF i, s
  <1>b. /\ WritesType'
        /\ \A j \in Instance, r \in Slot : step'[j][r] # "idle" => tail'[j][r] # <<>>
    BY <1>0, <1>a, TailGrows
  <1> USE DEF Enqueue, beating, runs, history, storeVars, IInv
  <1>1. StoreType'  BY DEF StoreType
  <1>2. MembershipType'  BY DEF MembershipType
  <1>3. WireType' /\ BeatingType' /\ LapseType' /\ DrainType' /\ SweepType' /\ HistoryType'
    BY DEF WireType, BeatingType, LapseType, DrainType, SweepType, HistoryType
  <1>4. Wired'  BY <1>b DEF Wired
  <1> QED  BY <1>1, <1>2, <1>3, <1>4, <1>b

LEMMA StartTyped == ASSUME IInv, NEW i \in Instance, NEW s \in Slot, StartWrite(i, s)
                    PROVE  IInv'
  <1> USE DEF StartWrite, membership, runs, history, storeVars, IInv
  <1>1. StoreType' /\ MembershipType' /\ WireType' /\ LapseType' /\ DrainType'
        /\ SweepType' /\ HistoryType'
    BY DEF StoreType, MembershipType, WireType, LapseType, DrainType, SweepType, HistoryType
  <1>2. PICK x \in {"boot", "hold", "release"} : step' = [step EXCEPT ![i][s] = x]
    OBVIOUS
  <1>3. WritesType'  BY <1>2 DEF WritesType
  <1>4. BeatingType'  BY DEF BeatingType
  <1>5. Wired'
    <2>1. ASSUME NEW j \in Instance, NEW r \in Slot
          PROVE  /\ step'[j][r] # "idle" => tail'[j][r] # <<>>
                 /\ step'[j][r] = "sent" => wire'[j].op = "write" /\ wire'[j].slot = r
      BY <1>2 DEF WritesType, Wired
    <2>2. ASSUME NEW j \in Instance, beat'[j] = "sent" PROVE beat[j] = "sent"
      BY <2>2 DEF BeatingType
    <2> QED  BY <2>1, <2>2 DEF Wired
  <1> QED  BY <1>1, <1>3, <1>4, <1>5

LEMMA BootedTyped == ASSUME IInv, NEW i \in Instance, NEW s \in Slot, Booted(i, s)
                     PROVE  IInv'
  <1> USE DEF Booted, membership, runs, history, storeVars, IInv
  <1>1. StoreType' /\ MembershipType' /\ WireType' /\ LapseType' /\ DrainType'
        /\ SweepType' /\ HistoryType' /\ BeatingType' /\ WritesType'
    BY DEF StoreType, MembershipType, WireType, LapseType, DrainType, SweepType,
           HistoryType, BeatingType, WritesType
  <1>2. Wired'  BY DEF Wired, WritesType
  <1> QED  BY <1>1, <1>2

\* While nothing is on the wire, no write, beat or sweep awaits a reply.
LEMMA IdleWire == ASSUME IInv, NEW i \in Instance, wire[i] = Quiet
                  PROVE  /\ wire[i].op = "none"
                         /\ beat[i] # "sent"
                         /\ \A s \in Slot : step[i][s] # "sent"
  BY DEF IInv, Wired, Quiet

LEMMA SendTyped == ASSUME IInv, NEW i \in Instance, NEW s \in Slot, SendWrite(i, s)
                   PROVE  IInv'
  <1> USE DEF SendWrite, membership, beating, runs, history, IInv
  <1>0. /\ beat[i] # "sent" /\ \A r \in Slot : step[i][r] # "sent"
        /\ step[i][s] # "idle"
    BY IdleWire DEF Idle
  <1>1. StoreType'
    <2>1. HoldMember(i, s) \/ ReleaseMember(i, s, FALSE)  OBVIOUS
    <2> QED  BY <2>1, StoreTypeKept
  <1>2. MembershipType' /\ LapseType' /\ DrainType' /\ SweepType' /\ BeatingType'
    BY DEF MembershipType, LapseType, DrainType, SweepType, BeatingType
  <1>h. HistoryType'  BY DEF HistoryType
  <1>3. WritesType'  BY DEF WritesType
  <1>4. PICK x \in Replies : wire' = [wire EXCEPT ![i] =
                               [op |-> "write", slot |-> s, reply |-> x]]
    BY DEF HoldReply, ReleaseReply, Replies
  <1>5. WireType'  BY <1>4 DEF WireType
  <1>6. Wired'
    <2>1. ASSUME NEW j \in Instance, NEW r \in Slot
          PROVE  /\ step'[j][r] # "idle" => tail'[j][r] # <<>>
                 /\ step'[j][r] = "sent" => wire'[j].op = "write" /\ wire'[j].slot = r
      BY <1>0, <1>4 DEF WritesType, WireType, Wired
    <2>2. ASSUME NEW j \in Instance, beat'[j] = "sent"
          PROVE  wire'[j].op = "beat" /\ wire'[j].reply \in {"continuous", "lapsed"}
      <3>1. j # i /\ beat[j] = "sent"  BY <1>0, <2>2
      <3>2. wire'[j] = wire[j]  BY <1>4, <3>1 DEF WireType
      <3> QED  BY <3>1, <3>2 DEF Wired
    <2>3. UNCHANGED sweep  OBVIOUS
    <2> QED  BY <2>1, <2>2, <2>3 DEF Wired
  <1> QED  BY <1>1, <1>2, <1>h, <1>3, <1>5, <1>6

\* What a write leaves behind when it settles, whoever asked for it.
LEMMA SettleIs ==
    ASSUME IInv, NEW i \in Instance, NEW s \in Slot, NEW ok \in BOOLEAN,
           step[i][s] # "idle", Settle(i, s, ok)
    PROVE  /\ local' \subseteq Conn /\ waiting' \subseteq CallJob
           /\ WritesType' /\ LapseType' /\ DrainType'
           /\ tail' = [tail EXCEPT ![i][s] = Tail(@)]
           /\ step' = [step EXCEPT ![i][s] = "idle"]
           /\ Head(tail[i][s]) \in Job
  <1> DEFINE job == Head(tail[i][s])
  <1>1. tail[i][s] \in Seq(Job) /\ tail[i][s] # <<>>
    BY DEF IInv, WritesType, Wired
  <1>2. job \in Job /\ Tail(tail[i][s]) \in Seq(Job)
    BY <1>1, HeadTailProperties
  <1>3. /\ tail' = [tail EXCEPT ![i][s] = Tail(@)]
        /\ step' = [step EXCEPT ![i][s] = "idle"]
        /\ job.kind = "lapse" => LapseSettles(i, s, ok)
        /\ job.kind = "drain" => DrainSettles(i, s, ok)
        /\ job.kind \in {"join", "leave", "reclaim"} => CallSettles(i, s, job, ok)
    BY DEF Settle
  <1> HIDE DEF job
  <1>4. WritesType'  BY <1>2, <1>3 DEF IInv, WritesType
  <1>5. CASE job.kind = "lapse"
    <2>1. LapseSettles(i, s, ok)  BY <1>3, <1>5
    <2>2. LapseType'  BY <2>1, ZenonT(30) DEF IInv, LapseType, LapseSettles
    <2> QED
      BY <1>2, <1>3, <1>4, <2>1, <2>2
      DEF LapseSettles, membership, IInv, MembershipType, DrainType, job
  <1>6. CASE job.kind = "drain"
    <2>1. DrainSettles(i, s, ok)  BY <1>3, <1>6
    <2>2. DrainType'  BY <2>1 DEF IInv, DrainType, DrainSettles
    <2> QED
      BY <1>2, <1>3, <1>4, <2>1, <2>2
      DEF DrainSettles, membership, IInv, MembershipType, LapseType, job
  <1>7. CASE job.kind \in {"join", "leave", "reclaim"}
    <2>1. CallSettles(i, s, job, ok)  BY <1>3, <1>7
    <2>2. job.conn \in Conn  BY <1>2, <1>7, JobsAre
    <2>3. LapseType'  BY <2>1 DEF CallSettles, IInv, LapseType
    <2>5. UNCHANGED <<owed, drain>> => DrainType'  BY DEF IInv, DrainType
    <2>6. RecordOwed(i, s) => DrainType'  BY DEF RecordOwed, IInv, DrainType
    <2>7. DrainType'  BY <2>1, <2>5, <2>6 DEF CallSettles
    <2>4. local' \subseteq Conn /\ waiting' \subseteq CallJob
      BY <2>1, <2>2, CallJobsAre DEF CallSettles, membership, IInv, MembershipType
    <2> QED  BY <1>2, <1>3, <1>4, <2>3, <2>4, <2>7 DEF job
  <1> QED  BY <1>2, <1>5, <1>6, <1>7, JobsAre

LEMMA ChangeIsInt == \A reply : Change(reply) \in Int
  BY DEF Change

LEMMA HistoryCounts ==
    ASSUME HistoryType, NEW i \in Instance,
           \/ Announce(i) /\ UNCHANGED lost
           \/ Lose(i) /\ UNCHANGED announced,
           UNCHANGED used \/ Spend("troubles"),
           adrift' \subseteq Command, astray' \in [Instance -> SUBSET Slot]
    PROVE  HistoryType'
  <1>1. announced' \in [Slot -> Int] /\ lost' \in [Slot -> Int]
    <2>1. \A s \in Slot, n \in Int :
             n + (IF s = wire[i].slot THEN Change(wire[i].reply) ELSE 0) \in Int
      BY ChangeIsInt
    <2> QED  BY <2>1 DEF HistoryType, Announce, Lose
  <1>2. used' \in [{"calls", "troubles"} -> Nat]  BY DEF HistoryType, Spend
  <1> QED  BY <1>1, <1>2 DEF HistoryType

\* A write that settles leaves the wire to the next command.
LEMMA SettledIsWired ==
    ASSUME IInv, NEW i \in Instance, NEW s \in Slot, NEW ok \in BOOLEAN,
           step[i][s] = "sent" \/ Idle(i), step[i][s] # "idle", Settle(i, s, ok),
           wire' = [wire EXCEPT ![i] = Quiet], UNCHANGED <<beat, sweep>>
    PROVE  WireType' /\ Wired'
  <1>1. WireType'  BY DEF IInv, WireType, Quiet, Replies
  <1>2. /\ WritesType'
        /\ tail' = [tail EXCEPT ![i][s] = Tail(@)]
        /\ step' = [step EXCEPT ![i][s] = "idle"]
    BY SettleIs
  <1>3. \A r \in Slot : r # s => step[i][r] # "sent"
    BY IdleWire DEF IInv, Wired, Idle
  <1>4. beat[i] # "sent"
    BY IdleWire DEF IInv, Wired, Idle
  <1>5. ASSUME NEW j \in Instance, NEW r \in Slot
        PROVE  /\ step'[j][r] # "idle" => tail'[j][r] # <<>>
               /\ step'[j][r] = "sent" => wire'[j].op = "write" /\ wire'[j].slot = r
    <2>1. CASE j = i /\ r = s  BY <2>1, <1>2 DEF IInv, WritesType
    <2>2. CASE ~(j = i /\ r = s)
      <3>1. step'[j][r] = step[j][r] /\ tail'[j][r] = tail[j][r]
        BY <2>2, <1>2 DEF IInv, WritesType
      <3>2. j # i => wire'[j] = wire[j]  BY DEF IInv, WireType
      <3> QED  BY <3>1, <3>2, <2>2, <1>3 DEF IInv, Wired
    <2> QED  BY <2>1, <2>2
  <1>6. ASSUME NEW j \in Instance, beat'[j] = "sent"
        PROVE  wire'[j].op = "beat" /\ wire'[j].reply \in {"continuous", "lapsed"}
    <2>1. j # i /\ beat[j] = "sent"  BY <1>4, <1>6
    <2>2. wire'[j] = wire[j]  BY <2>1 DEF IInv, WireType
    <2> QED  BY <2>1, <2>2 DEF IInv, Wired
  <1> QED  BY <1>1, <1>5, <1>6 DEF IInv, Wired

LEMMA ReplyTyped == ASSUME IInv, NEW i \in Instance, NEW s \in Slot, WriteReply(i, s)
                    PROVE  IInv'
  <1>1. step[i][s] # "idle" /\ Settle(i, s, TRUE) /\ step[i][s] = "sent"  BY DEF WriteReply
  <1>2. MembershipType' /\ WritesType' /\ LapseType' /\ DrainType'
    BY <1>1, SettleIs DEF WriteReply, MembershipType, IInv
  <1>3. WireType' /\ Wired'  BY <1>1, SettledIsWired DEF WriteReply, beating
  <1>4. HistoryType'
    <2>1. adrift' \subseteq Command /\ astray' \in [Instance -> SUBSET Slot]
      BY DEF WriteReply, IInv, HistoryType
    <2> QED  BY <2>1, HistoryCounts DEF WriteReply, IInv
  <1>5. StoreType' /\ BeatingType' /\ SweepType'
    BY DEF WriteReply, beating, storeVars, IInv, StoreType, BeatingType, SweepType
  <1> QED  BY <1>2, <1>3, <1>4, <1>5 DEF IInv

LEMMA FailureTyped == ASSUME IInv, NEW i \in Instance, NEW s \in Slot, WriteFails(i, s)
                      PROVE  IInv'
  <1>1. /\ step[i][s] # "idle" /\ Settle(i, s, FALSE)
        /\ step[i][s] = "sent" \/ Idle(i)
    BY DEF WriteFails
  <1>2. MembershipType' /\ WritesType' /\ LapseType' /\ DrainType'
    BY <1>1, SettleIs DEF WriteFails, MembershipType, IInv
  <1>3. WireType' /\ Wired'  BY <1>1, SettledIsWired DEF WriteFails, beating
  <1>4. HistoryType'
    <2>1. adrift' \subseteq Command  BY GivenUpIsCommand DEF WriteFails, IInv
    <2>2. astray' \in [Instance -> SUBSET Slot]  BY DEF WriteFails, IInv, HistoryType
    <2> QED  BY <2>1, <2>2, HistoryCounts DEF WriteFails, IInv
  <1>5. StoreType' /\ BeatingType' /\ SweepType'
    BY DEF WriteFails, beating, storeVars, IInv, StoreType, BeatingType, SweepType
  <1> QED  BY <1>2, <1>3, <1>4, <1>5 DEF IInv

-----------------------------------------------------------------------------
(* The heartbeat and its runs.                                             *)

LEMMA SendBeatTyped == ASSUME IInv, NEW i \in Instance, SendBeat(i) PROVE IInv'
  <1> USE DEF SendBeat, membership, writes, runs, history, IInv
  <1>0. wire[i].op = "none" /\ \A s \in Slot : step[i][s] # "sent"
    BY IdleWire DEF Idle
  <1>1. StoreType'  BY StoreTypeKept
  <1>2. MembershipType' /\ WritesType' /\ LapseType' /\ DrainType' /\ SweepType'
        /\ HistoryType' /\ BeatingType'
    BY DEF MembershipType, WritesType, LapseType, DrainType, SweepType, HistoryType,
           BeatingType
  <1>3. PICK x \in {"continuous", "lapsed"} : wire' = [wire EXCEPT ![i] =
                       [op |-> "beat", slot |-> None, reply |-> x]]
    OBVIOUS
  <1>4. WireType'  BY <1>3 DEF WireType, Replies
  <1>5. Wired'  BY <1>0, <1>3 DEF Wired, WireType, BeatingType
  <1> QED  BY <1>1, <1>2, <1>4, <1>5

LEMMA BeatReplyTyped == ASSUME IInv, NEW i \in Instance, BeatReply(i) PROVE IInv'
  <1> USE DEF BeatReply, membership, writes, runs, history, storeVars, IInv
  <1>0. wire[i].op = "beat" /\ wire[i].reply \in {"continuous", "lapsed"}  BY DEF Wired
  <1>1. StoreType' /\ MembershipType' /\ WritesType' /\ LapseType' /\ DrainType'
        /\ SweepType' /\ HistoryType'
    BY DEF StoreType, MembershipType, WritesType, LapseType, DrainType, SweepType,
           HistoryType
  <1>2. BeatingType'  BY <1>0 DEF BeatingType
  <1>3. WireType'  BY DEF WireType, Quiet, Replies
  <1>4. Wired'  BY <1>0 DEF Wired, WireType, BeatingType
  <1> QED  BY <1>1, <1>2, <1>3, <1>4

LEMMA BeatFailsTyped == ASSUME IInv, NEW i \in Instance, BeatFails(i) PROVE IInv'
  <1> USE DEF BeatFails, membership, writes, runs, history, storeVars, IInv
  <1>0. \A s \in Slot : step[i][s] # "sent"
    BY IdleWire DEF Idle, Wired
  <1>1. StoreType' /\ MembershipType' /\ WritesType' /\ LapseType' /\ DrainType'
        /\ SweepType'
    BY DEF StoreType, MembershipType, WritesType, LapseType, DrainType, SweepType
  <1>h. HistoryType'
    <2>1. adrift' \subseteq Command  BY GivenUpIsCommand
    <2> QED  BY <2>1 DEF HistoryType, Spend
  <1>2. BeatingType'  BY DEF BeatingType
  <1>3. WireType'  BY DEF WireType, Quiet, Replies
  <1>4. Wired'  BY <1>0 DEF Wired, WireType, BeatingType
  <1> QED  BY <1>1, <1>h, <1>2, <1>3, <1>4

\* Starting a run, or asking for one more, keeps its type.
LEMMA BeatEndsTyped == ASSUME IInv, NEW i \in Instance, BeatEnds(i) PROVE IInv'
  <1> USE DEF BeatEnds, membership, writes, history, storeVars, IInv
  <1>1. StoreType'
    <2>1. Register(i) \/ UNCHANGED storeVars  OBVIOUS
    <2> QED  BY <2>1, StoreTypeKept
  <1>2. MembershipType' /\ WritesType' /\ WireType' /\ SweepType' /\ BeatingType'
    BY DEF MembershipType, WritesType, WireType, SweepType, BeatingType
  <1>3. HistoryType'
    <2>1. adrift' \subseteq Command  BY GivenUpIsCommand
    <2> QED  BY <2>1 DEF HistoryType, Spend
  <1>4. LapseType'  BY ZenonT(30) DEF LapseType, LapseRun, Triggered, NoLapse
  <1>5. DrainType'  BY ZenonT(30) DEF DrainType, DrainRun, Triggered, NoDrain
  <1>6. Wired'  BY DEF Wired, BeatingType
  <1> QED  BY <1>1, <1>2, <1>3, <1>4, <1>5, <1>6

LEMMA RunsTyped ==
    ASSUME IInv, NEW i \in Instance,
           \/ LapseSnapshot(i) \/ LapseEnds(i) \/ DrainEnds(i)
           \/ \E s \in Slot : LapseWrites(i, s) \/ DrainWrites(i, s)
    PROVE  IInv'
  <1> USE DEF membership, beating, history, storeVars
  <1>1. CASE LapseSnapshot(i) \/ LapseEnds(i) \/ DrainEnds(i)
    <2> USE <1>1 DEF LapseSnapshot, LapseEnds, DrainEnds, writes, IInv
    <2>1. StoreType' /\ MembershipType' /\ WritesType' /\ WireType' /\ SweepType'
          /\ HistoryType' /\ BeatingType'
      BY DEF StoreType, MembershipType, WritesType, WireType, SweepType, HistoryType,
             BeatingType
    <2>2. LapseType'
      <3>1. CASE LapseSnapshot(i)
        <4>1. {s \in Slot : Desired(i, s)} \in SUBSET Slot  OBVIOUS
        <4> QED  BY <3>1, <4>1, ZenonT(30) DEF LapseType
      <3>2. CASE LapseEnds(i)
        <4>1. /\ LapseRun.begun \in [state : {"off", "revoking", "holding"}, left : SUBSET Slot,
                   at : Slot \cup {None}, failed : BOOLEAN, trailing : BOOLEAN]
              /\ NoLapse \in [state : {"off", "revoking", "holding"}, left : SUBSET Slot,
                   at : Slot \cup {None}, failed : BOOLEAN, trailing : BOOLEAN]
          BY DEF LapseRun, NoLapse
        <4> QED  BY <3>2, <4>1 DEF LapseType
      <3>3. CASE DrainEnds(i)  BY <3>3 DEF LapseType
      <3> QED  BY <3>1, <3>2, <3>3, <1>1
    <2>3. DrainType'
      <3>1. CASE LapseSnapshot(i) \/ LapseEnds(i)  BY <3>1 DEF DrainType
      <3>2. CASE DrainEnds(i)
        <4>1. /\ DrainRun(i).begun \in [on : BOOLEAN, left : SUBSET Slot, at : Slot \cup {None},
                    fresh : SUBSET Slot, trailing : BOOLEAN]
              /\ NoDrain \in [on : BOOLEAN, left : SUBSET Slot, at : Slot \cup {None},
                    fresh : SUBSET Slot, trailing : BOOLEAN]
          BY DEF DrainRun, NoDrain, DrainType
        <4> QED  BY <3>2, <4>1 DEF DrainType
      <3> QED  BY <3>1, <3>2, <1>1
    <2>4. Wired'  BY DEF Wired
    <2> QED  BY <2>1, <2>2, <2>3, <2>4
  <1>2. ASSUME NEW s \in Slot, LapseWrites(i, s) \/ DrainWrites(i, s) PROVE IInv'
    <2>1. PICK k \in {"lapse", "drain"} :
             tail' = [tail EXCEPT ![i][s] = Append(@, [kind |-> k, conn |-> None])]
      BY <1>2 DEF LapseWrites, DrainWrites
    <2>2. [kind |-> k, conn |-> None] \in Job  BY DEF Job
    <2>3. UNCHANGED step  BY <1>2 DEF LapseWrites, DrainWrites
    <2>4. /\ WritesType'
          /\ \A j \in Instance, r \in Slot : step'[j][r] # "idle" => tail'[j][r] # <<>>
      BY <2>1, <2>2, <2>3, TailGrows
    <2> USE <1>2 DEF LapseWrites, DrainWrites, IInv
    <2>5. StoreType' /\ MembershipType' /\ WireType' /\ SweepType'
          /\ HistoryType' /\ BeatingType'
      BY DEF StoreType, MembershipType, WireType, SweepType, HistoryType, BeatingType
    <2>6. LapseType'  BY DEF LapseType
    <2>7. DrainType'  BY DEF DrainType
    <2>8. Wired'  BY <2>4 DEF Wired
    <2> QED  BY <2>4, <2>5, <2>6, <2>7, <2>8
  <1> QED  BY <1>1, <1>2

-----------------------------------------------------------------------------
(* The sweep, and what the environment does.                               *)

LEMMA SweepStartTyped ==
    ASSUME IInv, NEW i \in Instance,
           (\E dead \in Instance : SweepSelects(i, dead)) \/ SweepDeregisters(i)
    PROVE  IInv'
  <1> USE DEF others, membership, writes, beating, runs, history, IInv
  <1>1. StoreType'
    <2>1. CASE \E dead \in Instance : SweepSelects(i, dead)
      <3>1. UNCHANGED storeVars  BY <2>1 DEF SweepSelects
      <3> QED  BY <3>1, StoreTypeKept
    <2>2. CASE SweepDeregisters(i)
      <3>1. sweep[i].target \in Instance /\ Deregister(sweep[i].target)
        BY <2>2 DEF SweepDeregisters, Wired
      <3> QED  BY <3>1, StoreTypeKept
    <2> QED  BY <2>1, <2>2
  <1>2. MembershipType' /\ WritesType' /\ WireType' /\ BeatingType' /\ LapseType'
        /\ DrainType' /\ HistoryType'
    BY DEF SweepSelects, SweepDeregisters, MembershipType, WritesType, WireType,
           BeatingType, LapseType, DrainType, HistoryType
  <1>3. SweepType' /\ \A j \in Instance : sweep'[j] # NoSweep => sweep'[j].target \in Instance
    <2>1. ASSUME NEW dead \in Instance, SweepSelects(i, dead)
          PROVE  <1>3!:
      <3>1. owned[dead] \subseteq Slot  BY DEF StoreType
      <3> QED  BY <2>1, <3>1 DEF SweepSelects, SweepType, Wired
    <2>2. CASE SweepDeregisters(i)
      BY <2>2 DEF SweepDeregisters, SweepType, Wired, NoSweep
    <2> QED  BY <2>1, <2>2
  <1>4. Wired'  BY <1>3 DEF SweepSelects, SweepDeregisters, Wired
  <1> QED  BY <1>1, <1>2, <1>3, <1>4

LEMMA SweepReleasesTyped ==
    ASSUME IInv, NEW i \in Instance, NEW s \in Slot, SweepReleases(i, s)
    PROVE  IInv'
  <1> DEFINE dead == sweep[i].target
  <1>1. /\ wire[i] = Quiet /\ sweep[i] # NoSweep /\ dead \in Instance
        /\ ReleaseMember(dead, s, TRUE)
        /\ wire' = [wire EXCEPT ![i] = [op |-> "sweep", slot |-> s,
                                        reply |-> ReleaseReply(dead, s, TRUE)]]
        /\ UNCHANGED <<others, sweep, history, used>>
    BY DEF SweepReleases, IInv, Wired, Idle
  <1> HIDE DEF dead
  <1>2. StoreType'  BY <1>1, StoreTypeKept DEF IInv
  <1>3. ReleaseReply(dead, s, TRUE) \in Replies  BY DEF ReleaseReply, Replies
  <1>4. WireType'  BY <1>1, <1>3 DEF IInv, WireType
  <1> USE DEF others, membership, writes, beating, runs, history, IInv
  <1>5. MembershipType' /\ WritesType' /\ BeatingType' /\ LapseType' /\ DrainType'
        /\ SweepType' /\ HistoryType'
    BY <1>1 DEF MembershipType, WritesType, BeatingType, LapseType, DrainType,
                SweepType, HistoryType
  <1>6. beat[i] # "sent" /\ \A r \in Slot : step[i][r] # "sent"  BY <1>1, IdleWire
  <1>7. \A j \in Instance : j # i => wire'[j] = wire[j]  BY <1>1 DEF WireType
  <1>8. Wired'  BY <1>1, <1>6, <1>7 DEF Wired
  <1> QED  BY <1>2, <1>4, <1>5, <1>8

\* The end of a wait for a sweep's reply, answered or not.
LEMMA SweepEndTyped ==
    ASSUME IInv, NEW i \in Instance, SweepReply(i) \/ SweepFails(i)
    PROVE  IInv'
  <1>1. /\ beat[i] # "sent" /\ \A r \in Slot : step[i][r] # "sent"
        /\ wire' = [wire EXCEPT ![i] = Quiet]
        /\ UNCHANGED <<storeVars, others>>
    BY IdleWire DEF SweepReply, SweepFails, Idle, IInv, Wired
  <1>2. HistoryType'
    <2>1. sweep[i].todo \subseteq Slot /\ (sweep[i] # NoSweep => sweep[i].target \in Instance)
      BY DEF IInv, SweepType, Wired
    <2>2. adrift' \subseteq Command
      <3>1. CASE SweepReply(i)  BY <3>1 DEF SweepReply, IInv, HistoryType
      <3>2. CASE SweepFails(i)
        <4>1. \/ \E s \in Slot : GivenUp("sweep", sweep[i].target, s)
              \/ GivenUp("deregister", sweep[i].target, None)
              \/ UNCHANGED adrift
          BY <3>2, <2>1 DEF SweepFails
        <4> QED  BY <4>1, <3>2, <2>1, GivenUpIsCommand DEF SweepFails, IInv
      <3> QED  BY <3>1, <3>2
    <2>3. astray' \in [Instance -> SUBSET Slot]
      BY DEF SweepReply, SweepFails, IInv, HistoryType
    <2> QED  BY <2>2, <2>3, HistoryCounts DEF SweepReply, SweepFails, IInv
  <1>3. PICK x \in {NoSweep, [sweep[i] EXCEPT !.todo = @ \ {wire[i].slot}]} :
             sweep' = [sweep EXCEPT ![i] = x]
    <2>1. CASE SweepFails(i)  BY <2>1 DEF SweepFails
    <2>2. CASE SweepReply(i)
      <3> DEFINE x == IF wire[i].reply = "refused" THEN NoSweep
                      ELSE [sweep[i] EXCEPT !.todo = @ \ {wire[i].slot}]
      <3>1. sweep' = [sweep EXCEPT ![i] = x]  BY <2>2 DEF SweepReply
      <3>2. x \in {NoSweep, [sweep[i] EXCEPT !.todo = @ \ {wire[i].slot}]}  OBVIOUS
      <3> HIDE DEF x
      <3> QED  BY <3>1, <3>2
    <2> QED  BY <2>1, <2>2
  <1>4. SweepType' /\ \A j \in Instance : sweep'[j] # NoSweep => sweep'[j].target \in Instance
    <2>1. x \in [target : Instance \cup {None}, todo : SUBSET Slot]
      BY <1>3 DEF IInv, SweepType, NoSweep
    <2>2. x # NoSweep => sweep[i] # NoSweep /\ x.target = sweep[i].target
      <3>1. CASE sweep[i] = NoSweep
        <4>1. [sweep[i] EXCEPT !.todo = @ \ {wire[i].slot}] = NoSweep
          BY <3>1 DEF NoSweep
        <4> QED  BY <4>1, <1>3
      <3>2. CASE sweep[i] # NoSweep
        BY <3>2, <1>3 DEF IInv, SweepType
      <3> QED  BY <3>1, <3>2
    <2> QED  BY <1>3, <2>1, <2>2 DEF IInv, SweepType, Wired
  <1> USE DEF others, membership, writes, beating, runs, history, storeVars, IInv
  <1>5. StoreType' /\ MembershipType' /\ WritesType' /\ BeatingType' /\ LapseType'
        /\ DrainType'
    BY <1>1 DEF StoreType, MembershipType, WritesType, BeatingType, LapseType, DrainType
  <1>6. WireType'  BY <1>1 DEF WireType, Quiet, Replies
  <1>7. \A j \in Instance : j # i => wire'[j] = wire[j]  BY <1>1 DEF WireType
  <1>8. Wired'  BY <1>1, <1>4, <1>7 DEF Wired
  <1> QED  BY <1>2, <1>4, <1>5, <1>6, <1>8

LEMMA LapsesTyped == ASSUME IInv, NEW i \in Instance, KeyLapses(i) PROVE IInv'
  <1>1. StoreType'  BY StoreTypeKept DEF KeyLapses, IInv
  <1> USE DEF KeyLapses, others, membership, writes, beating, runs, history, IInv
  <1>2. MembershipType' /\ WritesType' /\ WireType' /\ BeatingType' /\ LapseType'
        /\ DrainType' /\ SweepType' /\ HistoryType'
    BY DEF MembershipType, WritesType, WireType, BeatingType, LapseType, DrainType,
           SweepType, HistoryType, Spend
  <1>3. Wired'  BY DEF Wired
  <1> QED  BY <1>1, <1>2, <1>3

LEMMA CrashTyped == ASSUME IInv, NEW i \in Instance, Crash(i) PROVE IInv'
  <1> USE DEF IInv
  <1>1. StoreType'  BY DEF Crash, storeVars, StoreType
  <1>2. MembershipType'  BY DEF Crash, MembershipType
  <1>3. WritesType'
    <2>1. <<>> \in Seq(Job)  BY EmptySeq
    <2>2. [s \in Slot |-> <<>>] \in [Slot -> Seq(Job)]  BY <2>1
    <2> QED  BY <2>2 DEF Crash, WritesType
  <1>4. WireType'  BY DEF Crash, WireType, Quiet, Replies
  <1>5. BeatingType'  BY DEF Crash, BeatingType
  <1>6. LapseType'  BY DEF Crash, LapseType, NoLapse
  <1>7. DrainType'  BY DEF Crash, DrainType, NoDrain
  <1>8. SweepType'  BY DEF Crash, SweepType, NoSweep
  <1>9. HistoryType'
    <2>1. Lose(i) /\ UNCHANGED announced /\ Spend("troubles")  BY DEF Crash
    <2>2. adrift' \subseteq Command /\ astray' \in [Instance -> SUBSET Slot]
      BY DEF Crash, HistoryType
    <2> QED  BY <2>1, <2>2, HistoryCounts
  <1>10. Wired'
    <2>1. ASSUME NEW j \in Instance, j # i
          PROVE  /\ step'[j] = step[j] /\ tail'[j] = tail[j] /\ wire'[j] = wire[j]
                 /\ beat'[j] = beat[j] /\ sweep'[j] = sweep[j]
      BY <2>1 DEF Crash, WritesType, WireType, BeatingType, SweepType
    <2>2. /\ \A s \in Slot : step'[i][s] = "idle"
          /\ beat'[i] = "idle" /\ sweep'[i] = NoSweep
      BY DEF Crash, WritesType, BeatingType, SweepType
    <2>3. ASSUME NEW j \in Instance, NEW s \in Slot
          PROVE  /\ step'[j][s] # "idle" => tail'[j][s] # <<>>
                 /\ step'[j][s] = "sent" => wire'[j].op = "write" /\ wire'[j].slot = s
      BY <2>1, <2>2 DEF Wired
    <2>4. ASSUME NEW j \in Instance, beat'[j] = "sent"
          PROVE  wire'[j].op = "beat" /\ wire'[j].reply \in {"continuous", "lapsed"}
      BY <2>1, <2>2, <2>4 DEF Wired
    <2>5. ASSUME NEW j \in Instance, sweep'[j] # NoSweep
          PROVE  sweep'[j].target \in Instance
      BY <2>1, <2>2, <2>5 DEF Wired
    <2> QED  BY <2>3, <2>4, <2>5 DEF Wired
  <1> QED  BY <1>1, <1>2, <1>3, <1>4, <1>5, <1>6, <1>7, <1>8, <1>9, <1>10

\* What a command carried out late is to Redis.
LEMMA LateIsScript ==
    ASSUME HistoryType, NEW command \in adrift, CarriedOutLate(command)
    PROVE  /\ command.of \in Instance
           /\ \/ /\ command.slot \in Slot
                 /\ \/ HoldMember(command.of, command.slot)
                    \/ ReleaseMember(command.of, command.slot, FALSE)
                    \/ ReleaseMember(command.of, command.slot, TRUE)
              \/ Renew(command.of) \/ Register(command.of) \/ Deregister(command.of)
  <1>1. command \in Command  BY DEF HistoryType
  <1>2. /\ command.of \in Instance
        /\ command.op \in {"hold", "release", "sweep"} => command.slot \in Slot
    BY <1>1 DEF Command
  <1> QED  BY <1>2 DEF CarriedOutLate

LEMMA LateTyped == ASSUME IInv, NEW command \in adrift, CarriedOutLate(command)
                   PROVE  IInv'
  <1>1. StoreType'
    <2>1. HistoryType  BY DEF IInv
    <2> QED  BY <2>1, LateIsScript, StoreTypeKept DEF IInv
  <1>2. HistoryType'
    <2>1. adrift' \subseteq Command  BY DEF CarriedOutLate, IInv, HistoryType
    <2>2. lost' \in [Slot -> Int]
      <3>1. lost \in [Slot -> Int]  BY DEF IInv, HistoryType
      <3>2. \/ UNCHANGED lost
            \/ \E reply : lost' = [lost EXCEPT ![command.slot] = @ + Change(reply)]
        BY DEF CarriedOutLate
      <3>3. ASSUME NEW reply,
                   lost' = [lost EXCEPT ![command.slot] = @ + Change(reply)]
            PROVE  lost' \in [Slot -> Int]
        <4> DEFINE n == Change(reply)
        <4>1. n \in Int  BY ChangeIsInt
        <4>2. lost' = [lost EXCEPT ![command.slot] = @ + n]  BY <3>3
        <4> HIDE DEF n
        <4>3. CASE command.slot \in Slot
          <5>1. lost[command.slot] + n \in Int  BY <3>1, <4>1, <4>3
          <5> QED  BY <3>1, <4>2, <5>1
        <4>4. CASE command.slot \notin Slot  BY <3>1, <4>2, <4>4
        <4> QED  BY <4>3, <4>4
      <3> QED  BY <3>1, <3>2, <3>3
    <2>3. astray' \in [Instance -> SUBSET Slot]
      <3>1. /\ command.of \in Instance
            /\ command.op \in {"hold", "release"} => command.slot \in Slot
            /\ astray \in [Instance -> SUBSET Slot]
        BY DEF IInv, HistoryType, Command
      <3>2. \/ UNCHANGED astray
            \/ \E slots \in SUBSET Slot :
                  astray' = [astray EXCEPT ![command.of] = @ \cup slots]
        <4>1. {command.slot} \ owned[command.of] \subseteq {command.slot}
              /\ {command.slot} \cap owned[command.of] \subseteq {command.slot}
              /\ Slot \ owned[command.of] \subseteq Slot
          OBVIOUS
        <4>2. CASE command.op \in {"hold", "release"}
          <5>1. {command.slot} \subseteq Slot  BY <3>1, <4>2
          <5> QED  BY <4>1, <4>2, <5>1 DEF CarriedOutLate
        <4>3. CASE command.op = "renew"
          BY <4>1, <4>3 DEF CarriedOutLate
        <4>4. CASE command.op \notin {"hold", "release", "renew"}
          BY <4>4 DEF CarriedOutLate
        <4> QED  BY <4>2, <4>3, <4>4
      <3> QED  BY <3>1, <3>2
    <2> QED  BY <2>1, <2>2, <2>3 DEF CarriedOutLate, IInv, HistoryType
  <1>3. UNCHANGED <<others, wire, sweep>>  BY DEF CarriedOutLate
  <1> USE <1>3 DEF others, membership, writes, beating, runs, IInv
  <1>4. MembershipType' /\ WritesType' /\ WireType' /\ BeatingType' /\ LapseType'
        /\ DrainType' /\ SweepType' /\ Wired'
    BY DEF MembershipType, WritesType, WireType, BeatingType, LapseType, DrainType,
           SweepType, Wired
  <1> QED  BY <1>1, <1>2, <1>4

LEMMA StutterTyped == ASSUME IInv, UNCHANGED vars PROVE IInv'
  BY DEF vars, storeVars, membership, writes, beating, runs, history, IInv, StoreType,
         MembershipType, WritesType, WireType, BeatingType, LapseType, DrainType,
         SweepType, HistoryType, Wired

LEMMA Typed == RosterSafety => []IInv
  <1>1. ASSUME IInv, [RosterNext]_vars PROVE IInv'
    <2>1. CASE UNCHANGED vars  BY <1>1, <2>1, StutterTyped
    <2>2. CASE \E c \in Conn : Join(c) \/ Leave(c)  BY <1>1, <2>2, JoinTyped
    <2>3. CASE \E job \in waiting : Enqueue(job)  BY <1>1, <2>3, EnqueueTyped
    <2>4. CASE \E i \in Instance, s \in Slot : Write(i, s)
      BY <1>1, <2>4, StartTyped, BootedTyped, SendTyped, ReplyTyped, FailureTyped DEF Write
    <2>5. CASE \E i \in Instance : Beat(i)
      BY <1>1, <2>5, SendBeatTyped, BeatReplyTyped, BeatFailsTyped, BeatEndsTyped DEF Beat
    <2>6. CASE \E i \in Instance : Recover(i)
      BY <1>1, <2>6, RunsTyped DEF Recover
    <2>7. CASE \E i \in Instance : Sweep(i)
      BY <1>1, <2>7, SweepStartTyped, SweepReleasesTyped, SweepEndTyped DEF Sweep
    <2>8. CASE \E i \in Instance : KeyLapses(i) \/ Crash(i)
      BY <1>1, <2>8, LapsesTyped, CrashTyped
    <2>9. CASE \E command \in adrift : CarriedOutLate(command)
      BY <1>1, <2>9, LateTyped
    <2> QED  BY <1>1, <2>1, <2>2, <2>3, <2>4, <2>5, <2>6, <2>7, <2>8, <2>9 DEF RosterNext
  <1> QED  BY <1>1, InitIInv, PTL DEF RosterSafety

\* Types of the instances and of the store they share.
THEOREM TypeCorrect == RosterSafety => []RosterType
  BY Typed, IInvIsTyped, PTL

-----------------------------------------------------------------------------
(* Refinement of the store.                                                *)

LEMMA StepsAreScripts == ASSUME IInv, [RosterNext]_vars PROVE [StoreNext]_storeVars
  <1>1. CASE UNCHANGED vars  BY <1>1 DEF vars
  <1>2. CASE \E c \in Conn : Join(c) \/ Leave(c)  BY <1>2 DEF Join, Leave
  <1>3. CASE \E job \in waiting : Enqueue(job)  BY <1>3 DEF Enqueue
  <1>4. ASSUME NEW i \in Instance, NEW s \in Slot, Write(i, s)
        PROVE  [StoreNext]_storeVars
    <2>1. CASE SendWrite(i, s)
      <3>1. HoldMember(i, s) \/ ReleaseMember(i, s, FALSE)  BY <2>1 DEF SendWrite
      <3> QED  BY <3>1 DEF StoreNext
    <2>2. CASE StartWrite(i, s) \/ Booted(i, s) \/ WriteReply(i, s) \/ WriteFails(i, s)
      BY <2>2 DEF StartWrite, Booted, WriteReply, WriteFails
    <2> QED  BY <1>4, <2>1, <2>2 DEF Write
  <1>5. ASSUME NEW i \in Instance, Beat(i) \/ Recover(i) \/ KeyLapses(i) \/ Crash(i)
        PROVE  [StoreNext]_storeVars
    <2>1. CASE SendBeat(i)
      <3>1. Renew(i)  BY <2>1 DEF SendBeat
      <3> QED  BY <3>1 DEF StoreNext
    <2>2. CASE BeatEnds(i)
      <3>1. Register(i) \/ UNCHANGED storeVars  BY <2>2 DEF BeatEnds
      <3> QED  BY <3>1 DEF StoreNext
    <2>3. CASE KeyLapses(i)
      <3>1. Lapse(i)  BY <2>3 DEF KeyLapses
      <3> QED  BY <3>1 DEF StoreNext
    <2>4. CASE BeatReply(i) \/ BeatFails(i) \/ Recover(i) \/ Crash(i)
      BY <2>4 DEF BeatReply, BeatFails, Recover, LapseSnapshot, LapseWrites, DrainWrites,
                  LapseEnds, DrainEnds, Crash
    <2> QED  BY <1>5, <2>1, <2>2, <2>3, <2>4 DEF Beat
  <1>6. ASSUME NEW i \in Instance, Sweep(i) PROVE [StoreNext]_storeVars
    <2>1. ASSUME NEW s \in Slot, SweepReleases(i, s) PROVE [StoreNext]_storeVars
      <3>1. sweep[i].target \in Instance /\ ReleaseMember(sweep[i].target, s, TRUE)
        BY <2>1 DEF SweepReleases, IInv, Wired
      <3> QED  BY <3>1 DEF StoreNext
    <2>2. CASE SweepDeregisters(i)
      <3>1. sweep[i].target \in Instance /\ Deregister(sweep[i].target)
        BY <2>2 DEF SweepDeregisters, IInv, Wired
      <3> QED  BY <3>1 DEF StoreNext
    <2>3. CASE \/ \E dead \in Instance : SweepSelects(i, dead)
               \/ SweepReply(i) \/ SweepFails(i)
      BY <2>3 DEF SweepSelects, SweepReply, SweepFails
    <2> QED  BY <1>6, <2>1, <2>2, <2>3 DEF Sweep
  <1>7. ASSUME NEW command \in adrift, CarriedOutLate(command)
        PROVE  [StoreNext]_storeVars
    BY <1>7, LateIsScript DEF IInv, StoreNext
  <1> QED  BY <1>1, <1>2, <1>3, <1>4, <1>5, <1>6, <1>7 DEF RosterNext

\* Every step of any number of instances is, for Redis, one script or nothing.
THEOREM Refinement == RosterSafety => ImplementsStore
  <1>1. RosterInit => StoreInit  BY DEF RosterInit
  <1> QED  BY <1>1, Typed, StepsAreScripts, PTL DEF RosterSafety, ImplementsStore, StoreSpec

\* The roster shows a member exactly while some instance holds it, as one of
\* its holders, and whatever is held can be swept.
THEOREM RosterStaysConsistent == RosterSafety => []StoreConsistent
  <1>1. StoreInv => StoreConsistent  BY DEF StoreInv
  <1> QED  BY <1>1, Refinement, StoreStaysConsistent, PTL DEF ImplementsStore

\* A release lets go of the releaser's own hold, and only if it is not refused.
LEMMA ReleaseSpares ==
    ASSUME StoreType, NEW d \in Instance, NEW r \in Slot, NEW onBehalf \in BOOLEAN,
           ReleaseMember(d, r, onBehalf),
           NEW i \in Instance, NEW s \in Slot, i \in holders[s] \ holders'[s]
    PROVE  d = i /\ r = s /\ ~Refused(d, onBehalf)
  <1>1. CASE Refused(d, onBehalf)  BY <1>1 DEF ReleaseMember, storeVars
  <1>2. CASE ~Refused(d, onBehalf)
    <2>1. holders' = [holders EXCEPT ![r] = @ \ {d}]  BY <1>2 DEF ReleaseMember
    <2> QED  BY <1>2, <2>1 DEF StoreType
  <1> QED  BY <1>1, <1>2

\* What a late command lets go of is its own instance's, or a dead one's.
LEMMA LateSpares ==
    ASSUME IInv, NEW command \in adrift, CarriedOutLate(command),
           NEW i \in alive, NEW s \in Slot, i \in holders[s] \ holders'[s]
    PROVE  command.op = "release" /\ command.of = i /\ command.slot = s
  <1>1. holders' # holders /\ i \in Instance  BY DEF IInv, StoreType
  <1>2. /\ command.of \in Instance
        /\ command.op \in {"hold", "release", "sweep"} => command.slot \in Slot
    BY DEF IInv, HistoryType, Command
  <1>3. command.op \notin {"renew", "register", "deregister"}
    BY <1>1 DEF CarriedOutLate, Renew, Register, Deregister
  <1>4. command.op # "hold"
    <2>1. SUFFICES ASSUME command.op = "hold" PROVE FALSE  OBVIOUS
    <2>2. HoldMember(command.of, command.slot)  BY <2>1 DEF CarriedOutLate
    <2> QED  BY <2>1, <2>2, <1>1, <1>2 DEF HoldMember, IInv, StoreType
  <1>5. command.op # "sweep"
    <2>1. SUFFICES ASSUME command.op = "sweep" PROVE FALSE  OBVIOUS
    <2>2. ReleaseMember(command.of, command.slot, TRUE)  BY <2>1 DEF CarriedOutLate
    <2>3. command.of = i /\ ~Refused(command.of, TRUE)
      BY <2>1, <2>2, <1>1, <1>2, ReleaseSpares DEF IInv
    <2> QED  BY <2>3 DEF Refused
  <1>6. command.op = "release" /\ ReleaseMember(command.of, command.slot, FALSE)
    BY <1>3, <1>4, <1>5 DEF CarriedOutLate
  <1> QED  BY <1>1, <1>2, <1>6, ReleaseSpares DEF IInv

\* While the key of an instance exists, nobody else lets go of its holds.
THEOREM SweepsSpareTheLiving == RosterSafety => OnlyTheDeadAreSwept
  <1> DEFINE Spared ==
               \A i \in alive, s \in Slot : i \in holders[s] \ holders'[s] =>
                  \/ step[i][s] = "release" /\ step'[i][s] = "sent"
                  \/ \E command \in adrift \ adrift' :
                       command.op = "release" /\ command.of = i /\ command.slot = s
  <1>0. ASSUME IInv, NEW i \in alive, NEW s \in Slot, i \in holders[s] \ holders'[s],
               NEW command \in adrift, CarriedOutLate(command)
        PROVE  \E gone \in adrift \ adrift' :
                  gone.op = "release" /\ gone.of = i /\ gone.slot = s
    <2>1. command \notin adrift'  BY <1>0 DEF CarriedOutLate
    <2> QED  BY <1>0, <2>1, LateSpares
  <1>1. ASSUME IInv, [RosterNext]_vars PROVE [Spared]_vars
    <2> SUFFICES ASSUME RosterNext, NEW i \in alive, NEW s \in Slot,
                        i \in holders[s] \ holders'[s],
                        ~(\E command \in adrift : CarriedOutLate(command))
                 PROVE  step[i][s] = "release" /\ step'[i][s] = "sent"
      BY <1>0, <1>1
    <2>1. holders' # holders /\ i \in Instance  BY <1>1 DEF IInv, StoreType
    <2>2. ~(\E c \in Conn : Join(c) \/ Leave(c)) /\ ~(\E job \in waiting : Enqueue(job))
      BY <2>1 DEF Join, Leave, Enqueue, storeVars
    <2>3. ASSUME NEW j \in Instance
          PROVE  ~Beat(j) /\ ~Recover(j) /\ ~KeyLapses(j) /\ ~Crash(j)
      BY <2>1 DEF Beat, SendBeat, BeatReply, BeatFails, BeatEnds, Recover, LapseSnapshot,
                  LapseWrites, DrainWrites, LapseEnds, DrainEnds, KeyLapses, Crash,
                  Renew, Register, Lapse, storeVars
    <2>4. ASSUME NEW j \in Instance PROVE ~Sweep(j)
      <3>1. SUFFICES ASSUME Sweep(j) PROVE FALSE  OBVIOUS
      <3>2. PICK r \in Slot : SweepReleases(j, r)
        BY <2>1, <3>1 DEF Sweep, SweepSelects, SweepReply, SweepDeregisters, SweepFails,
                          Deregister, storeVars
      <3> DEFINE dead == sweep[j].target
      <3>3. dead \in Instance /\ ReleaseMember(dead, r, TRUE)
        BY <3>2, <1>1 DEF SweepReleases, IInv, Wired
      <3> HIDE DEF dead
      <3>4. dead = i /\ ~Refused(dead, TRUE)
        BY <3>3, <2>1, <1>1, ReleaseSpares DEF IInv
      <3> QED  BY <3>4 DEF Refused
    <2>5. PICK j \in Instance, r \in Slot : Write(j, r)
      BY <2>2, <2>3, <2>4 DEF RosterNext
    <2>6. SendWrite(j, r)
      BY <2>1, <2>5 DEF Write, StartWrite, Booted, WriteReply, WriteFails, storeVars
    <2>7. step[j][r] = "release" /\ ReleaseMember(j, r, FALSE)
      <3>1. ~HoldMember(j, r)
        BY <2>1, <1>1 DEF HoldMember, IInv, StoreType
      <3> QED  BY <2>6, <3>1 DEF SendWrite
    <2>8. j = i /\ r = s
      BY <2>7, <2>1, <1>1, ReleaseSpares DEF IInv
    <2> QED  BY <2>6, <2>7, <2>8, <1>1 DEF SendWrite, IInv, WritesType
  <1> QED  BY <1>1, Typed, PTL DEF RosterSafety, OnlyTheDeadAreSwept

-----------------------------------------------------------------------------
(* No ghost of the living.  What accounts for a hold nobody wants any more *)
(* must be a call: the writes of a lapse run or of a drain do not record   *)
(* what they failed to release.                                            *)

Calls == {"join", "leave", "reclaim"}

CallWaits(i, s) == \E job \in waiting : homeOf[job.conn] = i /\ slotOf[job.conn] = s

\* Where the writes begin that have yet to read what is wanted.
Behind(i, s) == IF step[i][s] = "idle" THEN 1 ELSE 2

CallQueued(i, s) == \E k \in Behind(i, s)..Len(tail[i][s]) : tail[i][s][k].kind \in Calls

CallDue(i, s) == CallWaits(i, s) \/ CallQueued(i, s)

\* A call's job is in the tail of its connection's slot.
Filed == \A i \in Instance, s \in Slot : \A k \in 1..Len(tail[i][s]) :
            tail[i][s][k].kind \in Calls =>
               homeOf[tail[i][s][k].conn] = i /\ slotOf[tail[i][s][k].conn] = s

\* A hold that no late command has had a part in since the slot was written.
Known(i, s) == i \in holders[s] /\ s \notin astray[i]

Accounted(i, s) == i \in up /\ Known(i, s) /\ ~Desired(i, s) =>
                      \/ CallDue(i, s)
                      \/ step[i][s] = "release" /\ Head(tail[i][s]).kind \in Calls
                      \/ s \in owed[i]

\* A hold on its way, or taken and not yet answered, whose members have all
\* left since it was asked for, has a call behind it.
HoldUnderWay(i, s) == \/ step[i][s] \in {"boot", "hold"}
                      \/ step[i][s] = "sent" /\ Known(i, s)

Overtaken(i, s) == i \in up /\ HoldUnderWay(i, s) => Desired(i, s) \/ CallDue(i, s)

GhostInv == /\ Filed
            /\ \A i \in Instance, s \in Slot : Accounted(i, s) /\ Overtaken(i, s)

LEMMA CallKinds == \A job \in CallJob : job.kind \in Calls /\ job.conn \in Conn
  BY DEF CallJob, Job, Calls

\* A slot whose write goes no step further, and that loses no call and no wish
\* for which no call comes, stays accounted for.
LEMMA Undisturbed ==
    ASSUME NEW i \in Instance, NEW s \in Slot, Accounted(i, s), Overtaken(i, s),
           i \in up' => i \in up,
           Known(i, s)' => Known(i, s),
           step'[i][s] = step[i][s],
           Desired(i, s) => Desired(i, s)' \/ CallDue(i, s)',
           CallDue(i, s) => CallDue(i, s)',
           step[i][s] = "release" => Head(tail'[i][s]) = Head(tail[i][s]),
           s \in owed[i] => s \in owed'[i]
    PROVE  Accounted(i, s)' /\ Overtaken(i, s)'
  BY DEF Accounted, Overtaken, HoldUnderWay

\* Calls that wait or are queued stay so while nothing is taken away.
LEMMA DueStays ==
    ASSUME NEW i \in Instance, NEW s \in Slot, waiting \subseteq waiting',
           tail'[i][s] = tail[i][s], step'[i][s] = step[i][s]
    PROVE  CallDue(i, s) => CallDue(i, s)'
  BY DEF CallDue, CallWaits, CallQueued, Behind

\* One more job in a tail moves none, and a call's job makes a call due.
LEMMA AppendKeeps ==
    ASSUME IInv, Filed, NEW i \in Instance, NEW s \in Slot, NEW job \in Job,
           tail' = [tail EXCEPT ![i][s] = Append(@, job)], UNCHANGED step,
           job.kind \in Calls => homeOf[job.conn] = i /\ slotOf[job.conn] = s
    PROVE  /\ Filed'
           /\ job.kind \in Calls => CallQueued(i, s)'
           /\ \A j \in Instance, r \in Slot :
                /\ CallQueued(j, r) => CallQueued(j, r)'
                /\ step[j][r] # "idle" => Head(tail'[j][r]) = Head(tail[j][r])
  <1> DEFINE new == Append(tail[i][s], job)
  <1>1. tail[i][s] \in Seq(Job)  BY DEF IInv, WritesType
  <1>2. /\ new \in Seq(Job) /\ Len(new) = Len(tail[i][s]) + 1
        /\ \A k \in 1..Len(tail[i][s]) : new[k] = tail[i][s][k]
        /\ new[Len(tail[i][s]) + 1] = job
    BY <1>1, AppendProperties
  <1>3. \A j \in Instance, r \in Slot :
           tail'[j][r] = IF j = i /\ r = s THEN new ELSE tail[j][r]
    BY DEF IInv, WritesType
  <1> HIDE DEF new
  <1>4. Len(tail[i][s]) \in Nat  BY <1>1
  <1>5. Filed'
    <2> SUFFICES ASSUME NEW j \in Instance, NEW r \in Slot, NEW k \in 1..Len(tail'[j][r]),
                        tail'[j][r][k].kind \in Calls
                 PROVE  homeOf[tail'[j][r][k].conn] = j /\ slotOf[tail'[j][r][k].conn] = r
      BY DEF Filed
    <2>1. CASE ~(j = i /\ r = s)  BY <2>1, <1>3 DEF Filed
    <2>2. CASE j = i /\ r = s /\ k \in 1..Len(tail[i][s])
      BY <2>2, <1>2, <1>3 DEF Filed
    <2>3. CASE j = i /\ r = s /\ k = Len(tail[i][s]) + 1
      BY <2>3, <1>2, <1>3
    <2> QED  BY <2>1, <2>2, <2>3, <1>2, <1>3, <1>4
  <1>6. job.kind \in Calls => CallQueued(i, s)'
    <2>1. step[i][s] # "idle" => Len(tail[i][s]) >= 1
      BY <1>1, EmptySeq DEF IInv, Wired
    <2>2. Len(tail[i][s]) + 1 \in Behind(i, s)'..Len(tail'[i][s])
      BY <2>1, <1>2, <1>3, <1>4 DEF Behind
    <2> QED  BY <2>2, <1>2, <1>3 DEF CallQueued
  <1>7. ASSUME NEW j \in Instance, NEW r \in Slot, CallQueued(j, r) PROVE CallQueued(j, r)'
    <2>1. PICK k \in Behind(j, r)..Len(tail[j][r]) : tail[j][r][k].kind \in Calls
      BY <1>7 DEF CallQueued
    <2>2. k \in 1..Len(tail[j][r]) /\ Behind(j, r)' = Behind(j, r)
      BY <2>1 DEF Behind
    <2>3. k \in Behind(j, r)'..Len(tail'[j][r]) /\ tail'[j][r][k] = tail[j][r][k]
      BY <2>1, <2>2, <1>2, <1>3, <1>4
    <2> QED  BY <2>1, <2>3 DEF CallQueued
  <1>8. ASSUME NEW j \in Instance, NEW r \in Slot, step[j][r] # "idle"
        PROVE  Head(tail'[j][r]) = Head(tail[j][r])
    <2>1. CASE ~(j = i /\ r = s)  BY <2>1, <1>3
    <2>2. CASE j = i /\ r = s
      <3>1. tail[i][s] # <<>>  BY <2>2, <1>8 DEF IInv, Wired
      <3>2. 1 \in 1..Len(tail[i][s])  BY <3>1, <1>1, EmptySeq
      <3>3. new[1] = tail[i][s][1] /\ Head(new) = new[1] /\ Head(tail[i][s]) = tail[i][s][1]
        BY <3>2, <1>2
      <3> QED  BY <3>3, <2>2, <1>3
    <2> QED  BY <2>1, <2>2
  <1> QED  BY <1>5, <1>6, <1>7, <1>8

\* Steps that touch no tail, no call and no wish, and take no new hold.
LEMMA FarSteps ==
    ASSUME IInv, GhostInv, UNCHANGED <<local, waiting, tail, step>>, up' \subseteq up,
           \A i \in Instance, s \in Slot :
              /\ Known(i, s)' => Known(i, s)
              /\ s \in owed[i] => s \in owed'[i]
    PROVE  GhostInv'
  <1>1. Filed'  BY DEF GhostInv, Filed
  <1>2. ASSUME NEW i \in Instance, NEW s \in Slot
        PROVE  Accounted(i, s)' /\ Overtaken(i, s)'
    <2>1. CallDue(i, s) => CallDue(i, s)'  BY DueStays
    <2>2. Desired(i, s) => Desired(i, s)'  BY DEF Desired
    <2> QED  BY <2>1, <2>2, Undisturbed DEF GhostInv
  <1> QED  BY <1>1, <1>2 DEF GhostInv

LEMMA CallGhosts == ASSUME IInv, GhostInv, NEW c \in Conn, Join(c) \/ Leave(c)
                    PROVE  GhostInv'
  <1> USE DEF Join, Leave, writes, runs, history, storeVars
  <1>1. Filed'  BY DEF GhostInv, Filed
  <1>2. ASSUME NEW i \in Instance, NEW s \in Slot
        PROVE  Accounted(i, s)' /\ Overtaken(i, s)'
    <2>1. CallDue(i, s) => CallDue(i, s)'  BY DueStays
    <2>2. Desired(i, s) => Desired(i, s)' \/ CallDue(i, s)'
      <3>1. CASE Join(c)  BY <3>1 DEF Desired
      <3>2. CASE Leave(c)
        <4>1. ASSUME homeOf[c] = i, slotOf[c] = s PROVE CallWaits(i, s)'
          BY <3>2, <4>1 DEF CallWaits
        <4> QED  BY <3>2, <4>1 DEF Desired, CallDue
      <3> QED  BY <3>1, <3>2
    <2>3. Known(i, s)' => Known(i, s)  BY DEF Known
    <2> QED  BY <2>1, <2>2, <2>3, Undisturbed DEF GhostInv
  <1> QED  BY <1>1, <1>2 DEF GhostInv

\* An append leaves wishes and holds alone.
LEMMA EnqueueGhosts == ASSUME IInv, GhostInv, NEW job \in waiting, Enqueue(job)
                       PROVE  GhostInv'
  <1> DEFINE i == homeOf[job.conn]
             s == slotOf[job.conn]
  <1>0. /\ job \in Job /\ job.kind \in Calls /\ i \in Instance /\ s \in Slot
    BY CallKinds, RosterAssumption DEF IInv, MembershipType, CallJob
  <1>a. /\ tail' = [tail EXCEPT ![i][s] = Append(@, job)] /\ UNCHANGED step
        /\ waiting' = waiting \ {job} /\ UNCHANGED <<up, local, holders, astray, owed>>
    BY DEF Enqueue, runs, history, storeVars
  <1>b. homeOf[job.conn] = i /\ slotOf[job.conn] = s  OBVIOUS
  <1> HIDE DEF i, s
  <1>1. /\ Filed' /\ CallQueued(i, s)'
        /\ \A j \in Instance, r \in Slot :
             /\ CallQueued(j, r) => CallQueued(j, r)'
             /\ step[j][r] # "idle" => Head(tail'[j][r]) = Head(tail[j][r])
    BY <1>0, <1>a, <1>b, AppendKeeps DEF GhostInv
  <1>2. ASSUME NEW j \in Instance, NEW r \in Slot
        PROVE  Accounted(j, r)' /\ Overtaken(j, r)'
    <2>1. CallDue(j, r) => CallDue(j, r)'
      BY <1>1, <1>a, <1>b DEF CallDue, CallWaits
    <2>2. Desired(j, r) => Desired(j, r)'  BY <1>a DEF Desired
    <2>3. Known(j, r)' => Known(j, r)  BY <1>a DEF Known
    <2> QED  BY <2>1, <2>2, <2>3, <1>1, <1>a, Undisturbed DEF GhostInv
  <1> QED  BY <1>1, <1>2 DEF GhostInv

LEMMA RunGhosts ==
    ASSUME IInv, GhostInv, NEW i \in Instance, NEW s \in Slot,
           LapseWrites(i, s) \/ DrainWrites(i, s)
    PROVE  GhostInv'
  <1>1. PICK k \in {"lapse", "drain"} :
           tail' = [tail EXCEPT ![i][s] = Append(@, [kind |-> k, conn |-> None])]
    BY DEF LapseWrites, DrainWrites
  <1> DEFINE job == [kind |-> k, conn |-> None]
  <1>2. job \in Job /\ job.kind \notin Calls  BY DEF Job, Calls
  <1>a. tail' = [tail EXCEPT ![i][s] = Append(@, job)]  BY <1>1
  <1> HIDE DEF job
  <1>3. UNCHANGED <<up, local, waiting, step, holders, astray, owed>>
    BY DEF LapseWrites, DrainWrites, membership, history, storeVars
  <1>4. /\ Filed'
        /\ \A j \in Instance, r \in Slot :
             /\ CallQueued(j, r) => CallQueued(j, r)'
             /\ step[j][r] # "idle" => Head(tail'[j][r]) = Head(tail[j][r])
    BY <1>2, <1>3, <1>a, AppendKeeps DEF GhostInv
  <1>5. ASSUME NEW j \in Instance, NEW r \in Slot
        PROVE  Accounted(j, r)' /\ Overtaken(j, r)'
    <2>1. CallDue(j, r) => CallDue(j, r)'  BY <1>3, <1>4 DEF CallDue, CallWaits
    <2>2. Desired(j, r) => Desired(j, r)'  BY <1>3 DEF Desired
    <2>3. Known(j, r)' => Known(j, r)  BY <1>3 DEF Known
    <2> QED  BY <2>1, <2>2, <2>3, <1>3, <1>4, Undisturbed DEF GhostInv
  <1> QED  BY <1>4, <1>5 DEF GhostInv

\* Another slot's write does not disturb this one.
LEMMA OtherSlots ==
    ASSUME IInv, GhostInv, NEW j \in Instance, NEW r \in Slot,
           UNCHANGED <<up, local, waiting>>, step'[j][r] = step[j][r],
           tail'[j][r] = tail[j][r],
           Known(j, r)' => Known(j, r), owed'[j] = owed[j]
    PROVE  Accounted(j, r)' /\ Overtaken(j, r)'
  <1>1. CallDue(j, r) => CallDue(j, r)'  BY DueStays
  <1>2. Desired(j, r) => Desired(j, r)'  BY DEF Desired
  <1> QED  BY <1>1, <1>2, Undisturbed DEF GhostInv

LEMMA StartGhosts == ASSUME IInv, GhostInv, NEW i \in Instance, NEW s \in Slot,
                            StartWrite(i, s)
                     PROVE  GhostInv'
  <1>1. UNCHANGED <<up, local, waiting, tail, holders, astray, owed>>
    BY DEF StartWrite, membership, runs, history, storeVars
  <1>k. \A j \in Instance, r \in Slot : Known(j, r)' = Known(j, r)  BY <1>1 DEF Known
  <1>2. PICK x \in {"boot", "hold", "release"} :
          /\ step' = [step EXCEPT ![i][s] = x]
          /\ x \in {"boot", "hold"} <=> Desired(i, s)
    BY DEF StartWrite
  <1>3. \A j \in Instance, r \in Slot :
          step'[j][r] = IF j = i /\ r = s THEN x ELSE step[j][r]
    BY <1>2 DEF IInv, WritesType
  <1>4. Filed'  BY <1>1 DEF GhostInv, Filed
  <1>5. ASSUME NEW j \in Instance, NEW r \in Slot, ~(j = i /\ r = s)
        PROVE  Accounted(j, r)' /\ Overtaken(j, r)'
    BY <1>1, <1>k, <1>3, <1>5, OtherSlots
  <1>6. Accounted(i, s)' /\ Overtaken(i, s)'
    <2>1. Desired(i, s)' = Desired(i, s) /\ CallWaits(i, s)' = CallWaits(i, s)
      BY <1>1 DEF Desired, CallWaits
    <2>2. CASE Desired(i, s)  BY <2>1, <2>2 DEF Accounted, Overtaken
    <2>3. CASE ~Desired(i, s)
      <3>1. step[i][s] = "idle" /\ step'[i][s] = "release"
        BY <2>3, <1>2, <1>3 DEF StartWrite
      <3>2. tail[i][s] \in Seq(Job)  BY DEF IInv, WritesType
      <3>3. CallQueued(i, s) => CallQueued(i, s)' \/ Head(tail[i][s]).kind \in Calls
        <4> SUFFICES ASSUME CallQueued(i, s), Head(tail[i][s]).kind \notin Calls
                     PROVE  CallQueued(i, s)'
          OBVIOUS
        <4>1. PICK k \in 1..Len(tail[i][s]) : tail[i][s][k].kind \in Calls
          BY <3>1 DEF CallQueued, Behind
        <4>2. Head(tail[i][s]) = tail[i][s][1]  BY <3>2, <4>1
        <4>3. k \in 2..Len(tail[i][s])  BY <4>1, <4>2, <3>2
        <4> QED  BY <4>1, <4>3, <3>1, <1>1 DEF CallQueued, Behind
      <3> QED
        BY <2>1, <2>3, <3>1, <3>3, <1>1, <1>k
        DEF GhostInv, Accounted, Overtaken, HoldUnderWay, CallDue
    <2> QED  BY <2>2, <2>3
  <1> QED  BY <1>4, <1>5, <1>6 DEF GhostInv

LEMMA BootedGhosts == ASSUME IInv, GhostInv, NEW i \in Instance, NEW s \in Slot,
                             Booted(i, s)
                      PROVE  GhostInv'
  <1>1. /\ UNCHANGED <<up, local, waiting, tail, holders, astray, owed>>
        /\ step[i][s] = "boot" /\ step' = [step EXCEPT ![i][s] = "hold"]
    BY DEF Booted, membership, runs, history, storeVars
  <1>k. \A j \in Instance, r \in Slot : Known(j, r)' = Known(j, r)  BY <1>1 DEF Known
  <1>2. \A j \in Instance, r \in Slot :
          step'[j][r] = IF j = i /\ r = s THEN "hold" ELSE step[j][r]
    BY <1>1 DEF IInv, WritesType
  <1>3. Filed'  BY <1>1 DEF GhostInv, Filed
  <1>4. ASSUME NEW j \in Instance, NEW r \in Slot, ~(j = i /\ r = s)
        PROVE  Accounted(j, r)' /\ Overtaken(j, r)'
    BY <1>1, <1>k, <1>2, <1>4, OtherSlots
  <1>5. Accounted(i, s)' /\ Overtaken(i, s)'
    <2>1. Desired(i, s)' = Desired(i, s) /\ CallDue(i, s)' = CallDue(i, s)
      BY <1>1, <1>2 DEF Desired, CallDue, CallWaits, CallQueued, Behind
    <2> QED
      BY <2>1, <1>1, <1>k, <1>2 DEF GhostInv, Accounted, Overtaken, HoldUnderWay
  <1> QED  BY <1>3, <1>4, <1>5 DEF GhostInv

\* A hold taken late has a call behind it; a release leaves no hold.
LEMMA SendGhosts == ASSUME IInv, GhostInv, NEW i \in Instance, NEW s \in Slot,
                           SendWrite(i, s)
                    PROVE  GhostInv'
  <1>1. /\ UNCHANGED <<up, local, waiting, tail, owed>>
        /\ step[i][s] \in {"hold", "release"} /\ step' = [step EXCEPT ![i][s] = "sent"]
        /\ step[i][s] = "hold" => HoldMember(i, s)
        /\ step[i][s] = "release" => ReleaseMember(i, s, FALSE)
        /\ astray' = [astray EXCEPT ![i] = @ \ {s}]
    BY DEF SendWrite, membership, runs
  <1>2. \A j \in Instance, r \in Slot :
          step'[j][r] = IF j = i /\ r = s THEN "sent" ELSE step[j][r]
    BY <1>1 DEF IInv, WritesType
  <1>3. Filed'  BY <1>1 DEF GhostInv, Filed
  <1>4. /\ \A j \in Instance, r \in Slot : ~(j = i /\ r = s) /\ j \in holders'[r] =>
              j \in holders[r]
        /\ step[i][s] = "release" => i \notin holders'[s]
    <2>1. CASE step[i][s] = "hold"
      BY <1>1, <2>1 DEF HoldMember, IInv, StoreType
    <2>2. CASE step[i][s] = "release"
      <3>1. holders' = [holders EXCEPT ![s] = @ \ {i}]
        BY <1>1, <2>2 DEF ReleaseMember, Refused
      <3> QED  BY <2>2, <3>1 DEF IInv, StoreType
    <2> QED  BY <1>1, <2>1, <2>2
  <1>k. /\ \A j \in Instance, r \in Slot :
              ~(j = i /\ r = s) /\ Known(j, r)' => Known(j, r)
        /\ step[i][s] = "release" => ~Known(i, s)'
    BY <1>1, <1>4 DEF Known, IInv, HistoryType
  <1>5. ASSUME NEW j \in Instance, NEW r \in Slot, ~(j = i /\ r = s)
        PROVE  Accounted(j, r)' /\ Overtaken(j, r)'
    BY <1>1, <1>2, <1>k, <1>5, OtherSlots
  <1>6. Accounted(i, s)' /\ Overtaken(i, s)'
    <2>1. Desired(i, s)' = Desired(i, s) /\ CallDue(i, s)' = CallDue(i, s)
      BY <1>1, <1>2 DEF Desired, CallDue, CallWaits, CallQueued, Behind
    <2> QED
      BY <2>1, <1>1, <1>2, <1>k DEF GhostInv, Accounted, Overtaken, HoldUnderWay
  <1> QED  BY <1>3, <1>5, <1>6 DEF GhostInv

\* What a settled write takes away it gives back as a call or a release owed.
LEMMA SettledCalls ==
    ASSUME IInv, NEW i \in Instance, NEW s \in Slot, NEW ok \in BOOLEAN,
           step[i][s] # "idle", Settle(i, s, ok)
    PROVE  LET job == Head(tail[i][s])
           IN /\ waiting \subseteq waiting'
              /\ \A j \in Instance, r \in Slot : Desired(j, r) =>
                    Desired(j, r)' \/ CallWaits(j, r)'
              /\ \A j \in Instance, r \in Slot : ~(j = i /\ r = s) /\ r \in owed[j] =>
                    r \in owed'[j]
              /\ ~ok => owed[i] \subseteq owed'[i]
              /\ ~ok /\ job.kind = "join" =>
                    [kind |-> "reclaim", conn |-> job.conn] \in waiting'
              /\ ~ok /\ job.kind \in {"leave", "reclaim"} => s \in owed'[i]
  <1> DEFINE job == Head(tail[i][s])
  <1>1. job \in Job  BY SettleIs
  <1>2. /\ job.kind = "lapse" => LapseSettles(i, s, ok)
        /\ job.kind = "drain" => DrainSettles(i, s, ok)
        /\ job.kind \in Calls => CallSettles(i, s, job, ok)
    BY DEF Settle, Calls
  <1> HIDE DEF job
  <1>3. CASE job.kind \in {"lapse", "drain"}
    <2>1. UNCHANGED <<local, waiting>>
      BY <1>2, <1>3 DEF LapseSettles, DrainSettles, membership
    <2>2. UNCHANGED owed \/ (ok /\ owed' = [owed EXCEPT ![i] = @ \ {s}])
      BY <1>2, <1>3 DEF LapseSettles, DrainSettles
    <2>3. \A j \in Instance, r \in Slot : ~(j = i /\ r = s) /\ r \in owed[j] => r \in owed'[j]
      BY <2>2 DEF IInv, DrainType
    <2> QED  BY <1>3, <2>1, <2>2, <2>3 DEF Desired, job
  <1>4. CASE job.kind \in Calls
    <2>1. CallSettles(i, s, job, ok)  BY <1>2, <1>4
    <2>2. CASE ok
      <3>1. UNCHANGED <<local, waiting, owed>>  BY <2>1, <2>2 DEF CallSettles, membership
      <3> QED  BY <2>2, <3>1 DEF Desired
    <2>3. CASE ~ok /\ job.kind = "join"
      <3>1. /\ local' = local \ {job.conn} /\ UNCHANGED owed
            /\ waiting' = waiting \cup {[kind |-> "reclaim", conn |-> job.conn]}
        BY <2>1, <2>3 DEF CallSettles
      <3>2. ASSUME NEW j \in Instance, NEW r \in Slot, Desired(j, r)
            PROVE  Desired(j, r)' \/ CallWaits(j, r)'
        <4>1. PICK c \in local : homeOf[c] = j /\ slotOf[c] = r  BY <3>2 DEF Desired
        <4>2. CASE c = job.conn
          <5>1. [kind |-> "reclaim", conn |-> c] \in waiting'  BY <3>1, <4>2
          <5> QED  BY <4>1, <5>1 DEF CallWaits
        <4>3. CASE c # job.conn  BY <3>1, <4>1, <4>3 DEF Desired
        <4> QED  BY <4>2, <4>3
      <3> QED  BY <2>3, <3>1, <3>2 DEF job
    <2>4. CASE ~ok /\ job.kind # "join"
      <3>1. RecordOwed(i, s) /\ UNCHANGED <<local, waiting>>
        BY <2>1, <2>4 DEF CallSettles, membership
      <3>2. /\ s \in owed'[i]
            /\ \A j \in Instance : owed[j] \subseteq owed'[j]
        BY <3>1 DEF RecordOwed, IInv, DrainType
      <3> QED  BY <2>4, <3>1, <3>2 DEF Desired, job
    <2> QED  BY <2>2, <2>3, <2>4
  <1> QED  BY <1>1, <1>3, <1>4, JobsAre DEF Calls

\* The tail of a write that settles is one job shorter, and the others are as
\* they were.
LEMMA SettledTail ==
    ASSUME IInv, NEW i \in Instance, NEW s \in Slot, step[i][s] # "idle",
           tail' = [tail EXCEPT ![i][s] = Tail(@)],
           step' = [step EXCEPT ![i][s] = "idle"]
    PROVE  /\ \A j \in Instance, r \in Slot :
                /\ step'[j][r] = IF j = i /\ r = s THEN "idle" ELSE step[j][r]
                /\ ~(j = i /\ r = s) => tail'[j][r] = tail[j][r]
           /\ Len(tail'[i][s]) = Len(tail[i][s]) - 1 /\ Len(tail[i][s]) \in Nat
           /\ Head(tail[i][s]) = tail[i][s][1] /\ 1 \in 1..Len(tail[i][s])
           /\ \A k \in Nat :
                /\ k \in 1..Len(tail'[i][s]) =>
                     k + 1 \in 1..Len(tail[i][s]) /\ tail'[i][s][k] = tail[i][s][k + 1]
                /\ k + 1 \in 2..Len(tail[i][s]) =>
                     k \in 1..Len(tail'[i][s]) /\ tail'[i][s][k] = tail[i][s][k + 1]
  <1> DEFINE rest == Tail(tail[i][s])
             n == Len(tail[i][s])
  <1>1. /\ tail[i][s] \in Seq(Job) /\ tail[i][s] # <<>>
        /\ \A j \in Instance, r \in Slot :
              /\ tail'[j][r] = IF j = i /\ r = s THEN rest ELSE tail[j][r]
              /\ step'[j][r] = IF j = i /\ r = s THEN "idle" ELSE step[j][r]
    BY DEF IInv, WritesType, Wired
  <1>2. /\ Len(rest) = n - 1 /\ n \in Nat
        /\ \A k \in 1..n - 1 : rest[k] = tail[i][s][k + 1]
        /\ Head(tail[i][s]) = tail[i][s][1] /\ 1 \in 1..n
    BY <1>1, HeadTailProperties, EmptySeq
  <1>3. tail'[i][s] = rest  BY <1>1
  <1>4. ASSUME NEW k \in Nat
        PROVE  /\ k \in 1..Len(tail'[i][s]) =>
                    k + 1 \in 1..n /\ tail'[i][s][k] = tail[i][s][k + 1]
               /\ k + 1 \in 2..n =>
                    k \in 1..Len(tail'[i][s]) /\ tail'[i][s][k] = tail[i][s][k + 1]
    <2>1. k \in 1..n - 1 => rest[k] = tail[i][s][k + 1]  BY <1>2
    <2> HIDE DEF rest, n
    <2>2. /\ k \in 1..n - 1 => k + 1 \in 1..n
          /\ k + 1 \in 2..n => k \in 1..n - 1
      BY <1>2
    <2>3. /\ k \in 1..Len(rest) => k + 1 \in 1..n /\ rest[k] = tail[i][s][k + 1]
          /\ k + 1 \in 2..n => k \in 1..Len(rest) /\ rest[k] = tail[i][s][k + 1]
      BY <1>2, <2>1, <2>2
    <2> QED  BY <1>3, <2>3
  <1>5. Len(tail'[i][s]) = n - 1 /\ n \in Nat  BY <1>2, <1>3
  <1>6. Head(tail[i][s]) = tail[i][s][1] /\ 1 \in 1..n  BY <1>2
  <1>7. \A j \in Instance, r \in Slot :
           /\ step'[j][r] = IF j = i /\ r = s THEN "idle" ELSE step[j][r]
           /\ ~(j = i /\ r = s) => tail'[j][r] = tail[j][r]
    BY <1>1
  <1> HIDE DEF rest
  <1> QED  BY <1>4, <1>5, <1>6, <1>7

LEMMA SettleGhosts == ASSUME IInv, GhostInv, NEW i \in Instance, NEW s \in Slot,
                             WriteReply(i, s) \/ WriteFails(i, s)
                      PROVE  GhostInv'
  <1>1. PICK ok \in BOOLEAN :
          /\ Settle(i, s, ok)
          /\ step[i][s] = "sent" \/ (~ok /\ step[i][s] \in {"hold", "release"})
          /\ UNCHANGED <<up, holders, astray>>
    <2>1. CASE WriteReply(i, s)  BY <2>1 DEF WriteReply, storeVars
    <2>2. CASE WriteFails(i, s)  BY <2>2 DEF WriteFails, storeVars
    <2> QED  BY <2>1, <2>2
  <1> DEFINE job == Head(tail[i][s])
  <1>2. /\ waiting \subseteq waiting'
        /\ \A j \in Instance, r \in Slot : Desired(j, r) =>
              Desired(j, r)' \/ CallWaits(j, r)'
        /\ \A j \in Instance, r \in Slot : ~(j = i /\ r = s) /\ r \in owed[j] =>
              r \in owed'[j]
        /\ ~ok => owed[i] \subseteq owed'[i]
        /\ ~ok /\ job.kind = "join" =>
              [kind |-> "reclaim", conn |-> job.conn] \in waiting'
        /\ ~ok /\ job.kind \in {"leave", "reclaim"} => s \in owed'[i]
    BY <1>1, SettledCalls
  <1>3. /\ tail' = [tail EXCEPT ![i][s] = Tail(@)]
        /\ step' = [step EXCEPT ![i][s] = "idle"]
    BY <1>1, SettleIs
  <1>4. /\ \A j \in Instance, r \in Slot :
              /\ step'[j][r] = IF j = i /\ r = s THEN "idle" ELSE step[j][r]
              /\ ~(j = i /\ r = s) => tail'[j][r] = tail[j][r]
        /\ Len(tail'[i][s]) = Len(tail[i][s]) - 1 /\ Len(tail[i][s]) \in Nat
        /\ job = tail[i][s][1] /\ 1 \in 1..Len(tail[i][s])
    BY <1>1, <1>3, SettledTail, ZenonT(30)
  <1> HIDE DEF job
  <1>5. \A k \in Nat :
           /\ k \in 1..Len(tail'[i][s]) =>
                k + 1 \in 1..Len(tail[i][s]) /\ tail'[i][s][k] = tail[i][s][k + 1]
           /\ k + 1 \in 2..Len(tail[i][s]) =>
                k \in 1..Len(tail'[i][s]) /\ tail'[i][s][k] = tail[i][s][k + 1]
    BY <1>1, <1>3, SettledTail
  <1>6. Filed'
    <2> SUFFICES ASSUME NEW j \in Instance, NEW r \in Slot, NEW k \in 1..Len(tail'[j][r]),
                        tail'[j][r][k].kind \in Calls
                 PROVE  homeOf[tail'[j][r][k].conn] = j /\ slotOf[tail'[j][r][k].conn] = r
      BY DEF Filed
    <2>1. CASE ~(j = i /\ r = s)  BY <2>1, <1>4 DEF GhostInv, Filed
    <2>2. CASE j = i /\ r = s
      <3>1. /\ k + 1 \in 1..Len(tail[i][s])
            /\ tail'[j][r][k] = tail[i][s][k + 1]
        <4>1. k \in Nat  OBVIOUS
        <4>2. k \in 1..Len(tail'[i][s])  BY <2>2
        <4> QED  BY <2>2, <4>1, <4>2, <1>5
      <3> QED  BY <2>2, <3>1 DEF GhostInv, Filed
    <2> QED  BY <2>1, <2>2
  <1>7. ASSUME NEW j \in Instance, NEW r \in Slot, ~(j = i /\ r = s)
        PROVE  Accounted(j, r)' /\ Overtaken(j, r)'
    <2>1. CallDue(j, r) => CallDue(j, r)'  BY <1>2, <1>4, <1>7, DueStays
    <2>2. Desired(j, r) => Desired(j, r)' \/ CallDue(j, r)'  BY <1>2 DEF CallDue
    <2>3. j \in up' => j \in up  BY <1>1
    <2>4. Known(j, r)' => Known(j, r)  BY <1>1 DEF Known
    <2> QED  BY <2>1, <2>2, <2>3, <2>4, <1>2, <1>4, <1>7, Undisturbed DEF GhostInv
  <1>8. Accounted(i, s)' /\ Overtaken(i, s)'
    <2>1. CallDue(i, s) => CallDue(i, s)'
      <3>1. CallWaits(i, s) => CallWaits(i, s)'  BY <1>2 DEF CallWaits
      <3>2. ASSUME CallQueued(i, s) PROVE CallQueued(i, s)'
        <4>1. PICK k \in 2..Len(tail[i][s]) : tail[i][s][k].kind \in Calls
          BY <3>2, <1>1 DEF CallQueued, Behind
        <4>2. /\ k - 1 \in 1..Len(tail'[i][s])
              /\ tail'[i][s][k - 1] = tail[i][s][k]
          <5>1. k - 1 \in Nat /\ (k - 1) + 1 = k  BY <4>1, <1>4
          <5> QED  BY <4>1, <5>1, <1>5
        <4> QED  BY <4>1, <4>2, <1>4 DEF CallQueued, Behind
      <3> QED  BY <3>1, <3>2 DEF CallDue
    <2>2. Overtaken(i, s)'  BY <1>4 DEF Overtaken, HoldUnderWay
    <2>3. SUFFICES ASSUME i \in up, Known(i, s), ~Desired(i, s)', ~CallDue(i, s)'
                   PROVE  s \in owed'[i]
      BY <1>1, <2>2 DEF Accounted, Known
    <2>4. ~Desired(i, s) /\ ~CallDue(i, s)
      BY <2>1, <2>3, <1>2 DEF CallDue
    <2>5. step[i][s] = "release" /\ ~ok
      BY <2>3, <2>4, <1>1 DEF GhostInv, Overtaken, HoldUnderWay
    <2>6. job.kind \in Calls \/ s \in owed[i]
      BY <2>3, <2>4 DEF GhostInv, Accounted, job
    <2>7. job.kind # "join"
      <3>1. SUFFICES ASSUME job.kind = "join" PROVE FALSE  OBVIOUS
      <3>2. homeOf[job.conn] = i /\ slotOf[job.conn] = s
        BY <3>1, <1>4 DEF GhostInv, Filed, Calls
      <3>3. CallWaits(i, s)'  BY <3>1, <3>2, <2>5, <1>2 DEF CallWaits
      <3> QED  BY <3>3, <2>3 DEF CallDue
    <2> QED  BY <2>5, <2>6, <2>7, <1>2 DEF Calls
  <1> QED  BY <1>6, <1>7, <1>8 DEF GhostInv

LEMMA CrashGhosts == ASSUME IInv, GhostInv, NEW i \in Instance, Crash(i) PROVE GhostInv'
  <1>1. /\ up' = up \ {i} /\ UNCHANGED holders
        /\ local' = {c \in local : homeOf[c] # i}
        /\ waiting' = {job \in waiting : homeOf[job.conn] # i}
    BY DEF Crash, storeVars
  <1>2. /\ \A s \in Slot : tail'[i][s] = <<>>
        /\ \A j \in Instance : j # i =>
              /\ tail'[j] = tail[j] /\ step'[j] = step[j] /\ owed'[j] = owed[j]
              /\ astray'[j] = astray[j]
    BY DEF Crash, IInv, WritesType, DrainType, HistoryType
  <1>3. Filed'
    <2> SUFFICES ASSUME NEW j \in Instance, NEW s \in Slot, NEW k \in 1..Len(tail'[j][s]),
                        tail'[j][s][k].kind \in Calls
                 PROVE  homeOf[tail'[j][s][k].conn] = j /\ slotOf[tail'[j][s][k].conn] = s
      BY DEF Filed
    <2>1. CASE j = i  BY <2>1, <1>2
    <2>2. CASE j # i  BY <2>2, <1>2 DEF GhostInv, Filed
    <2> QED  BY <2>1, <2>2
  <1>4. ASSUME NEW j \in Instance, NEW s \in Slot
        PROVE  Accounted(j, s)' /\ Overtaken(j, s)'
    <2>1. CASE j = i  BY <2>1, <1>1 DEF Accounted, Overtaken
    <2>2. CASE j # i
      <3>1. Desired(j, s)' = Desired(j, s)  BY <2>2, <1>1 DEF Desired
      <3>2. CallDue(j, s)' = CallDue(j, s)
        BY <2>2, <1>1, <1>2 DEF CallDue, CallWaits, CallQueued, Behind
      <3>3. Known(j, s)' = Known(j, s)  BY <2>2, <1>1, <1>2 DEF Known
      <3> QED
        BY <2>2, <3>1, <3>2, <3>3, <1>1, <1>2
        DEF GhostInv, Accounted, Overtaken, HoldUnderWay
    <2> QED  BY <2>1, <2>2
  <1> QED  BY <1>3, <1>4 DEF GhostInv

\* Sweeps take no hold.
LEMMA SweepGhosts == ASSUME IInv, GhostInv, NEW i \in Instance, Sweep(i) PROVE GhostInv'
  <1>1. UNCHANGED <<up, local, waiting, tail, step, owed, astray>>
    BY DEF Sweep, SweepSelects, SweepReleases, SweepReply, SweepDeregisters, SweepFails,
           others, membership, writes, runs, history
  <1>2. \A j \in Instance, r \in Slot : j \in holders'[r] => j \in holders[r]
    <2>1. ASSUME NEW s \in Slot, SweepReleases(i, s) PROVE <1>2!:
      <3> DEFINE dead == sweep[i].target
      <3>1. ReleaseMember(dead, s, TRUE)  BY <2>1 DEF SweepReleases
      <3> HIDE DEF dead
      <3>2. UNCHANGED holders \/ holders' = [holders EXCEPT ![s] = @ \ {dead}]
        BY <3>1 DEF ReleaseMember, storeVars
      <3> QED  BY <3>2 DEF IInv, StoreType
    <2>2. CASE \/ \E dead \in Instance : SweepSelects(i, dead)
               \/ SweepReply(i) \/ SweepDeregisters(i) \/ SweepFails(i)
      BY <2>2 DEF SweepSelects, SweepReply, SweepDeregisters, SweepFails, Deregister, storeVars
    <2> QED  BY <2>1, <2>2 DEF Sweep
  <1>3. \A j \in Instance, r \in Slot : Known(j, r)' => Known(j, r)
    BY <1>1, <1>2 DEF Known
  <1> QED  BY <1>1, <1>3, FarSteps

\* A hold or release carried out late leaves no hold that counts as known.
LEMMA LateGhosts == ASSUME IInv, StoreConsistent, GhostInv, NEW command \in adrift,
                           CarriedOutLate(command)
                    PROVE  GhostInv'
  <1> DEFINE i == command.of
             s == command.slot
  <1>1. UNCHANGED <<up, local, waiting, tail, step, owed>>
    BY DEF CarriedOutLate, others, membership, writes, runs
  <1>2. /\ i \in Instance
        /\ command.op \in {"hold", "release", "sweep"} => s \in Slot
    BY DEF IInv, HistoryType, Command
  <1>3. \A j \in Instance : astray[j] \subseteq astray'[j]
    BY <1>2 DEF CarriedOutLate, IInv, HistoryType
  <1>4. ASSUME NEW j \in Instance, NEW r \in Slot, j \in holders'[r], j \notin holders[r]
        PROVE  r \in astray'[j] \/ r \in owned[j]
    <2>1. ~ReleaseMember(i, s, TRUE) /\ ~ReleaseMember(i, s, FALSE)
      <3>1. SUFFICES ASSUME NEW onBehalf \in BOOLEAN, ReleaseMember(i, s, onBehalf)
                     PROVE  FALSE
        OBVIOUS
      <3>2. UNCHANGED holders \/ holders' = [holders EXCEPT ![s] = @ \ {i}]
        BY <3>1 DEF ReleaseMember, storeVars
      <3> QED  BY <3>2, <1>4 DEF IInv, StoreType
    <2>2. ~Renew(i) /\ ~Register(i) /\ ~Deregister(i)
      BY <1>4 DEF Renew, Register, Deregister
    <2>3. /\ command.op = "hold" /\ HoldMember(i, s)
          /\ astray' = [astray EXCEPT ![i] = @ \cup ({s} \ owned[i])]
      BY <2>1, <2>2 DEF CarriedOutLate
    <2>4. j = i /\ r = s
      BY <2>3, <1>2, <1>4 DEF HoldMember, IInv, StoreType
    <2> QED  BY <2>3, <2>4, <1>2 DEF IInv, HistoryType
  <1> HIDE DEF i, s
  <1>5. \A j \in Instance, r \in Slot : r \in owned[j] <=> j \in holders[r]
    BY DEF StoreConsistent, HoldsAreSweepable
  <1>6. \A j \in Instance, r \in Slot : Known(j, r)' => Known(j, r)
    BY <1>3, <1>4, <1>5 DEF Known
  <1> QED  BY <1>1, <1>6, FarSteps

LEMMA BeatGhosts ==
    ASSUME IInv, GhostInv, NEW i \in Instance,
           \/ Beat(i) \/ LapseSnapshot(i) \/ LapseEnds(i) \/ DrainEnds(i) \/ KeyLapses(i)
    PROVE  GhostInv'
  <1>1. UNCHANGED <<up, local, waiting, tail, step, owed, holders, astray>>
    BY DEF Beat, SendBeat, BeatReply, BeatFails, BeatEnds, LapseSnapshot, LapseEnds,
           DrainEnds, KeyLapses, Renew, Register, Lapse, storeVars, others, membership,
           writes, runs, history
  <1>2. \A j \in Instance, r \in Slot : Known(j, r)' => Known(j, r)  BY <1>1 DEF Known
  <1> QED  BY <1>1, <1>2, FarSteps

LEMMA Accountable == RosterSafety => []GhostInv
  <1>1. RosterInit => GhostInv
    <2> SUFFICES ASSUME RosterInit PROVE GhostInv  OBVIOUS
    <2>1. Filed  BY DEF RosterInit, Filed
    <2>2. ASSUME NEW i \in Instance, NEW s \in Slot PROVE Accounted(i, s) /\ Overtaken(i, s)
      BY DEF RosterInit, StoreInit, Accounted, Overtaken, HoldUnderWay, Known
    <2> QED  BY <2>1, <2>2 DEF GhostInv
  <1>2. ASSUME IInv, StoreConsistent, GhostInv, [RosterNext]_vars PROVE GhostInv'
    <2>1. CASE UNCHANGED vars
      <3>1. UNCHANGED <<up, local, waiting, tail, step, owed, holders, astray>>
        BY <2>1 DEF vars, storeVars, membership, writes, runs, history
      <3>2. \A j \in Instance, r \in Slot : Known(j, r)' => Known(j, r)  BY <3>1 DEF Known
      <3> QED  BY <1>2, <3>1, <3>2, FarSteps
    <2>2. CASE \E c \in Conn : Join(c) \/ Leave(c)  BY <1>2, <2>2, CallGhosts
    <2>3. CASE \E job \in waiting : Enqueue(job)  BY <1>2, <2>3, EnqueueGhosts
    <2>4. CASE \E i \in Instance, s \in Slot : Write(i, s)
      BY <1>2, <2>4, StartGhosts, BootedGhosts, SendGhosts, SettleGhosts DEF Write
    <2>5. CASE \E i \in Instance : Beat(i) \/ Recover(i) \/ KeyLapses(i)
      BY <1>2, <2>5, BeatGhosts, RunGhosts DEF Recover
    <2>6. CASE \E i \in Instance : Sweep(i) \/ Crash(i)
      BY <1>2, <2>6, SweepGhosts, CrashGhosts
    <2>7. CASE \E command \in adrift : CarriedOutLate(command)
      BY <1>2, <2>7, LateGhosts
    <2> QED  BY <1>2, <2>1, <2>2, <2>3, <2>4, <2>5, <2>6, <2>7 DEF RosterNext
  <1> QED  BY <1>1, <1>2, Typed, RosterStaysConsistent, PTL DEF RosterSafety

\* No member stays on the roster for a running instance after its leave,
\* whatever failed: a call is about to release it, or the release is owed,
\* unless a command given up was carried out late on that slot.
THEOREM NoGhosts == RosterSafety => []NoGhostOfTheLiving
  <1>1. IInv /\ GhostInv => NoGhostOfTheLiving
    <2> SUFFICES ASSUME IInv, GhostInv, NEW i \in up, NEW s \in Slot,
                        i \in holders[s], ~Desired(i, s)
                 PROVE  \/ WriteDue(i, s) \/ step[i][s] = "release"
                        \/ s \in owed[i] \cup astray[i]
      BY DEF NoGhostOfTheLiving
    <2>1. i \in Instance /\ Len(tail[i][s]) \in Nat
      BY DEF IInv, MembershipType, WritesType
    <2>2. CallDue(i, s) => WriteDue(i, s)
      <3>1. CallWaits(i, s) => WriteDue(i, s)  BY DEF CallWaits, WriteDue
      <3>2. CallQueued(i, s) => WriteDue(i, s)  BY <2>1 DEF CallQueued, Behind, WriteDue
      <3> QED  BY <3>1, <3>2 DEF CallDue
    <2> QED  BY <2>1, <2>2 DEF GhostInv, Accounted, Known
  <1> QED  BY <1>1, Typed, Accountable, PTL

-----------------------------------------------------------------------------
(* No lost member.  A write that was sent restores the slot only while it  *)
(* is held; a slot that nobody wants is held by nobody's late hold; an     *)
(* instance that has sent no hold has every write it owes before it; and   *)
(* what the drain writes stays owed until it has settled.                  *)

QueueDue(i, s) == Len(tail[i][s]) > (IF step[i][s] = "idle" THEN 0 ELSE 1)

\* What holds the slot again, short of the write in progress.
Restored(i, s) ==
    \/ WriteDue(i, s) \/ LapseDue(i)
    \/ lapse[i].state = "revoking" \/ lapse[i].trailing \/ lapse[i].failed
    \/ s \in lapse[i].left

\* Not held, and no late command has had a part in it since the last write.
Missing(i, s) == i \notin holders[s] /\ s \notin astray[i]

Regained(i, s) == i \in up /\ Desired(i, s) =>
    /\ Missing(i, s) =>
         \/ Restored(i, s) \/ step[i][s] \in {"boot", "hold"}
         \/ step[i][s] # "sent" /\ s \in owed[i]
    /\ step[i][s] = "release" => WriteDue(i, s)
    /\ i \notin holdIssued => WriteDue(i, s) \/ step[i][s] = "boot"

Drained == \A i \in Instance :
    /\ drain[i].left \subseteq owed[i] /\ drain[i].at \notin drain[i].left
    /\ drain[i].at # None => drain[i].at \in owed[i]
    /\ \A s \in Slot : \A k \in 1..Len(tail[i][s]) : tail[i][s][k].kind = "drain" =>
         /\ drain[i].at = s
         /\ \A m \in 1..Len(tail[i][s]) : tail[i][s][m].kind = "drain" => m = k

LossInv == Drained /\ \A i \in Instance, s \in Slot : Regained(i, s)

LEMMA DueIs == \A i, s : WriteDue(i, s) <=> CallWaits(i, s) \/ QueueDue(i, s)
  BY DEF WriteDue, CallWaits, QueueDue

\* A slot whose write goes no step further, and that loses no call, keeps what
\* restores it, if its instance loses nothing of that either.
LEMMA StaysRegained ==
    ASSUME NEW i \in Instance, NEW s \in Slot, Regained(i, s),
           i \in up' => i \in up,
           step'[i][s] = step[i][s],
           Desired(i, s)' => Desired(i, s) \/ WriteDue(i, s)',
           WriteDue(i, s) => WriteDue(i, s)',
           Missing(i, s)' => Missing(i, s) \/ LapseDue(i)',
           Desired(i, s) /\ Restored(i, s) =>
              Restored(i, s)' \/ i \notin holdIssued \/ ~Missing(i, s)',
           s \in owed[i] => s \in owed'[i],
           i \in holdIssued => i \in holdIssued'
    PROVE  Regained(i, s)'
  <1> SUFFICES ASSUME i \in up', Desired(i, s)', ~WriteDue(i, s)'
               PROVE  Regained(i, s)'
    BY DEF Regained, Restored
  <1>1. i \in up /\ Desired(i, s) /\ ~WriteDue(i, s)
    OBVIOUS
  <1>2. CASE Missing(i, s)' /\ ~Missing(i, s)
    BY <1>1, <1>2 DEF Regained, Restored
  <1>3. CASE Missing(i, s) \/ ~Missing(i, s)'
    BY <1>1, <1>3 DEF Regained
  <1> QED  BY <1>2, <1>3

\* What restores a slot while only a tail or the waiting calls change.
LEMMA StaysRestored ==
    ASSUME NEW i \in Instance, NEW s \in Slot, WriteDue(i, s) => WriteDue(i, s)',
           UNCHANGED <<alive, suspected>>, beat'[i] = beat[i], lapse'[i] = lapse[i],
           wire[i].op = "beat" => wire'[i] = wire[i]
    PROVE  Restored(i, s) => Restored(i, s)'
  BY DEF Restored, LapseDue

LEMMA DueStaysDue ==
    ASSUME NEW i \in Instance, NEW s \in Slot, waiting \subseteq waiting',
           tail'[i][s] = tail[i][s], step'[i][s] = step[i][s]
    PROVE  WriteDue(i, s) => WriteDue(i, s)'
  BY DEF WriteDue

\* A job more in a tail is a write due.
LEMMA AppendsDue ==
    ASSUME IInv, NEW i \in Instance, NEW s \in Slot, NEW job \in Job,
           tail' = [tail EXCEPT ![i][s] = Append(@, job)], UNCHANGED step
    PROVE  /\ QueueDue(i, s)'
           /\ \A j \in Instance, r \in Slot : QueueDue(j, r) => QueueDue(j, r)'
  <1>1. tail[i][s] \in Seq(Job)  BY DEF IInv, WritesType
  <1>2. Len(Append(tail[i][s], job)) = Len(tail[i][s]) + 1 /\ Len(tail[i][s]) \in Nat
    BY <1>1, AppendProperties
  <1>3. \A j \in Instance, r \in Slot :
           tail'[j][r] = IF j = i /\ r = s THEN Append(tail[i][s], job) ELSE tail[j][r]
    BY DEF IInv, WritesType
  <1>4. step[i][s] # "idle" => Len(tail[i][s]) >= 1
    <2>1. step[i][s] # "idle" => tail[i][s] # <<>>  BY DEF IInv, Wired
    <2>2. tail[i][s] # <<>> => Len(tail[i][s]) # 0  BY <1>1, EmptySeq
    <2>3. Len(tail[i][s]) \in Nat  BY <1>2
    <2>4. \A n \in Nat : n # 0 => n >= 1  OBVIOUS
    <2> QED  BY <2>1, <2>2, <2>3, <2>4
  <1>5. QueueDue(i, s)'
    <2>1. Len(tail'[i][s]) = Len(tail[i][s]) + 1  BY <1>2, <1>3
    <2>2. step'[i][s] = step[i][s]  OBVIOUS
    <2>3. \A n, m \in Nat : m = n + 1 => m > 0 /\ (n >= 1 => m > 1)  OBVIOUS
    <2>4. Len(tail'[i][s]) \in Nat  BY <2>1, <1>2
    <2> QED  BY <2>1, <2>2, <2>3, <2>4, <1>2, <1>4 DEF QueueDue
  <1>6. ASSUME NEW j \in Instance, NEW r \in Slot, QueueDue(j, r) PROVE QueueDue(j, r)'
    BY <1>3, <1>5, <1>6 DEF QueueDue
  <1> QED  BY <1>5, <1>6

\* A job that is not the drain's changes nothing for it; the drain appends its
\* own when it has none.
LEMMA AppendDrained ==
    ASSUME IInv, Drained, NEW i \in Instance, NEW s \in Slot, NEW job \in Job,
           tail' = [tail EXCEPT ![i][s] = Append(@, job)], UNCHANGED owed,
           \/ job.kind # "drain" /\ UNCHANGED drain
           \/ /\ drain[i].at = None /\ s \in drain[i].left
              /\ drain' = [drain EXCEPT ![i].at = s, ![i].left = @ \ {s}]
    PROVE  Drained'
  <1>1. tail[i][s] \in Seq(Job)  BY DEF IInv, WritesType
  <1> DEFINE n == Len(tail[i][s])
             new == Append(tail[i][s], job)
  <1>2. /\ Len(new) = n + 1 /\ n \in Nat
        /\ \A k \in 1..n : new[k] = tail[i][s][k]
        /\ new[n + 1] = job
    BY <1>1, AppendProperties
  <1>3. \A j \in Instance, r \in Slot :
           tail'[j][r] = IF j = i /\ r = s THEN new ELSE tail[j][r]
    BY DEF IInv, WritesType
  <1> HIDE DEF new
  <1>4. CASE job.kind # "drain" /\ UNCHANGED drain
    <2>1. ASSUME NEW j \in Instance, NEW r \in Slot, NEW k \in 1..Len(tail'[j][r]),
                 tail'[j][r][k].kind = "drain"
          PROVE  /\ k \in 1..Len(tail[j][r]) /\ tail[j][r][k].kind = "drain"
      <3>1. CASE ~(j = i /\ r = s)  BY <2>1, <3>1, <1>3
      <3>2. CASE j = i /\ r = s
        <4>1. k \in 1..(n + 1) /\ new[k].kind = "drain"  BY <2>1, <3>2, <1>2, <1>3
        <4>2. k # n + 1  BY <4>1, <1>2, <1>4
        <4>3. k \in 1..n  BY <4>1, <4>2, <1>2
        <4> QED  BY <3>2, <4>1, <4>3, <1>2
      <3> QED  BY <3>1, <3>2
    <2> QED  BY <2>1, <1>4 DEF Drained
  <1>5. CASE /\ drain[i].at = None /\ s \in drain[i].left
             /\ drain' = [drain EXCEPT ![i].at = s, ![i].left = @ \ {s}]
    <2>1. /\ drain'[i].at = s /\ drain'[i].left = drain[i].left \ {s}
          /\ \A j \in Instance : j # i => drain'[j] = drain[j]
      BY <1>5 DEF IInv, DrainType
    <2>2. \A r \in Slot : \A k \in 1..Len(tail[i][r]) : tail[i][r][k].kind # "drain"
      BY <1>5, RosterAssumption DEF Drained
    <2>3. ASSUME NEW r \in Slot, NEW k \in 1..Len(tail'[i][r]), tail'[i][r][k].kind = "drain"
          PROVE  r = s /\ k = n + 1
      <3>1. CASE r # s  BY <2>2, <2>3, <3>1, <1>3
      <3>2. CASE r = s
        <4>1. k \in 1..(n + 1) /\ new[k].kind = "drain"  BY <2>3, <3>2, <1>2, <1>3
        <4>2. k \notin 1..n  BY <4>1, <2>2, <1>2
        <4> QED  BY <3>2, <4>1, <4>2, <1>2
      <3> QED  BY <3>1, <3>2
    <2>4. \A j \in Instance : j # i => \A r \in Slot : tail'[j][r] = tail[j][r]
      BY <1>3
    <2>5. ASSUME NEW j \in Instance PROVE
            /\ drain'[j].left \subseteq owed'[j] /\ drain'[j].at \notin drain'[j].left
            /\ drain'[j].at # None => drain'[j].at \in owed'[j]
      <3>1. CASE j = i
        <4>1. drain[i].left \subseteq owed[i]  BY DEF Drained
        <4>2. drain'[i].left \subseteq owed'[i] /\ s \in owed'[i]  BY <4>1, <1>5, <2>1
        <4>3. s \notin drain'[i].left  BY <2>1
        <4> QED  BY <3>1, <4>2, <4>3, <2>1
      <3>2. CASE j # i  BY <2>1, <3>2 DEF Drained
      <3> QED  BY <3>1, <3>2
    <2>6. ASSUME NEW j \in Instance, NEW r \in Slot, NEW k \in 1..Len(tail'[j][r]),
                 tail'[j][r][k].kind = "drain"
          PROVE  /\ drain'[j].at = r
                 /\ \A m \in 1..Len(tail'[j][r]) : tail'[j][r][m].kind = "drain" => m = k
      <3>1. CASE j = i  BY <2>1, <2>3, <2>6, <3>1
      <3>2. CASE j # i  BY <2>1, <2>4, <2>6, <3>2 DEF Drained
      <3> QED  BY <3>1, <3>2
    <2> QED  BY <2>5, <2>6 DEF Drained
  <1> QED  BY <1>4, <1>5

\* Calls, the writes of the runs, and what leaves the tails alone.
LEMMA CallRegained == ASSUME IInv, LossInv, NEW c \in Conn, Join(c) \/ Leave(c)
                      PROVE  LossInv'
  <1>1. /\ UNCHANGED <<tail, step, wire, beat, alive, suspected, holdIssued, lapse, owed, drain, holders, astray, up>>
        /\ waiting \subseteq waiting'
    BY DEF Join, Leave, writes, runs, storeVars, beating, history
  <1>2. Drained'  BY <1>1 DEF LossInv, Drained
  <1>3. ASSUME NEW i \in Instance, NEW s \in Slot PROVE Regained(i, s)'
    <2>1. WriteDue(i, s) => WriteDue(i, s)'  BY <1>1, DueStaysDue
    <2>2. Desired(i, s)' => Desired(i, s) \/ WriteDue(i, s)'
      <3>1. CASE Leave(c)  BY <3>1 DEF Leave, Desired
      <3>2. CASE Join(c)
        <4>1. homeOf[c] = i /\ slotOf[c] = s => WriteDue(i, s)'
          BY <3>2 DEF Join, WriteDue
        <4> QED  BY <3>2, <4>1 DEF Join, Desired
      <3> QED  BY <3>1, <3>2
    <2>3. Restored(i, s) => Restored(i, s)'  BY <1>1, <2>1, StaysRestored
    <2> QED  BY <1>1, <2>1, <2>2, <2>3, StaysRegained DEF LossInv, Missing
  <1> QED  BY <1>2, <1>3 DEF LossInv

LEMMA EnqueueRegained == ASSUME IInv, LossInv, NEW job \in waiting, Enqueue(job)
                         PROVE  LossInv'
  <1> DEFINE i == homeOf[job.conn]
             s == slotOf[job.conn]
  <1>0. job \in Job /\ job.kind \in Calls /\ i \in Instance /\ s \in Slot
    BY CallKinds, RosterAssumption DEF IInv, MembershipType, CallJob
  <1>a. /\ tail' = [tail EXCEPT ![i][s] = Append(@, job)] /\ waiting' = waiting \ {job}
        /\ UNCHANGED <<step, wire, beat, alive, suspected, holdIssued, lapse, owed, drain, holders, astray, up, local>>
    BY DEF Enqueue, runs, storeVars, beating, history
  <1>b. homeOf[job.conn] = i /\ slotOf[job.conn] = s  OBVIOUS
  <1> HIDE DEF i, s
  <1>1. Drained'  BY <1>0, <1>a, AppendDrained DEF LossInv, Calls
  <1>2. QueueDue(i, s)' /\ \A j \in Instance, r \in Slot : QueueDue(j, r) => QueueDue(j, r)'
    BY <1>0, <1>a, AppendsDue
  <1>3. ASSUME NEW j \in Instance, NEW r \in Slot PROVE Regained(j, r)'
    <2>1. CallWaits(j, r) => CallWaits(j, r)' \/ (j = i /\ r = s)
      BY <1>a, <1>b DEF CallWaits
    <2>2. WriteDue(j, r) => WriteDue(j, r)'  BY <1>2, <2>1, DueIs DEF WriteDue, CallWaits, QueueDue
    <2>3. Desired(j, r)' => Desired(j, r)  BY <1>a DEF Desired
    <2>4. Restored(j, r) => Restored(j, r)'  BY <1>a, <2>2, StaysRestored
    <2> QED  BY <1>a, <2>2, <2>3, <2>4, StaysRegained DEF LossInv, Missing
  <1> QED  BY <1>1, <1>3 DEF LossInv

LEMMA RunRegained ==
    ASSUME IInv, LossInv, NEW i \in Instance, NEW s \in Slot,
           LapseWrites(i, s) \/ DrainWrites(i, s)
    PROVE  LossInv'
  <1>1. PICK k \in {"lapse", "drain"} :
          /\ tail' = [tail EXCEPT ![i][s] = Append(@, [kind |-> k, conn |-> None])]
          /\ \/ k # "drain" /\ UNCHANGED drain
             \/ /\ drain[i].at = None /\ s \in drain[i].left
                /\ drain' = [drain EXCEPT ![i].at = s, ![i].left = @ \ {s}]
    BY DEF LapseWrites, DrainWrites
  <1> DEFINE job == [kind |-> k, conn |-> None]
  <1>2. job \in Job /\ job.kind = k  BY DEF Job
  <1>a. tail' = [tail EXCEPT ![i][s] = Append(@, job)]  BY <1>1
  <1> HIDE DEF job
  <1>3. UNCHANGED <<up, local, waiting, step, holders, astray, owed, wire, beat, alive, suspected, holdIssued>>
    BY DEF LapseWrites, DrainWrites, membership, storeVars, beating, history
  <1>4. Drained'
    <2>1. UNCHANGED owed  BY <1>3
    <2>2. \/ job.kind # "drain" /\ UNCHANGED drain
          \/ /\ drain[i].at = None /\ s \in drain[i].left
             /\ drain' = [drain EXCEPT ![i].at = s, ![i].left = @ \ {s}]
      BY <1>1, <1>2
    <2>3. Drained /\ UNCHANGED step  BY <1>3 DEF LossInv
    <2> QED  BY <2>1, <2>2, <2>3, <1>2, <1>a, AppendDrained
  <1>5. QueueDue(i, s)' /\ \A j \in Instance, r \in Slot : QueueDue(j, r) => QueueDue(j, r)'
    BY <1>2, <1>3, <1>a, AppendsDue
  <1>6. ASSUME NEW j \in Instance, NEW r \in Slot
        PROVE  \/ lapse'[j] = lapse[j]
               \/ /\ j = i /\ lapse'[i].left = lapse[i].left \ {s}
                  /\ lapse'[i].state = lapse[i].state /\ lapse'[i].trailing = lapse[i].trailing
                  /\ lapse'[i].failed = lapse[i].failed
    BY DEF LapseWrites, DrainWrites, IInv, LapseType
  <1>7. ASSUME NEW j \in Instance, NEW r \in Slot PROVE Regained(j, r)'
    <2>1. WriteDue(j, r) => WriteDue(j, r)'  BY <1>3, <1>5, DueIs DEF WriteDue, CallWaits, QueueDue
    <2>2. j = i /\ r = s => WriteDue(j, r)'  BY <1>5 DEF WriteDue, QueueDue
    <2>3. Desired(j, r)' => Desired(j, r)  BY <1>3 DEF Desired
    <2>4. Restored(j, r) => Restored(j, r)'
      BY <1>3, <1>6, <2>1, <2>2 DEF Restored, LapseDue
    <2> QED  BY <1>3, <2>1, <2>3, <2>4, StaysRegained DEF LossInv, Missing
  <1> QED  BY <1>4, <1>7 DEF LossInv

\* An instance that has not started has no heartbeat under way.
Asleep == \A i \in Instance : started[i] = "no" => beat[i] = "idle"

LEMMA FirstBeat == RosterSafety => []Asleep
  <1>1. ASSUME IInv, Asleep, [RosterNext]_vars PROVE Asleep'
    <2>1. ASSUME UNCHANGED <<started, beat>> PROVE Asleep'  BY <1>1, <2>1 DEF Asleep
    <2>2. CASE UNCHANGED vars \/ \E c \in Conn : Join(c) \/ Leave(c)
      BY <2>1, <2>2 DEF vars, beating, Join, Leave
    <2>3. CASE \E job \in waiting : Enqueue(job)  BY <2>1, <2>3 DEF Enqueue, beating
    <2>4. ASSUME NEW i \in Instance, NEW s \in Slot, Write(i, s) PROVE Asleep'
      <3>1. CASE StartWrite(i, s)  BY <1>1, <3>1 DEF StartWrite, Asleep, IInv, BeatingType
      <3>2. CASE Booted(i, s) \/ SendWrite(i, s) \/ WriteReply(i, s) \/ WriteFails(i, s)
        BY <2>1, <3>2 DEF Booted, SendWrite, WriteReply, WriteFails, beating
      <3> QED  BY <2>4, <3>1, <3>2 DEF Write
    <2>5. ASSUME NEW i \in Instance, Beat(i) PROVE Asleep'
      <3>1. CASE BeatEnds(i)  BY <1>1, <3>1 DEF BeatEnds, Asleep, IInv, BeatingType
      <3>2. CASE SendBeat(i) \/ BeatReply(i) \/ BeatFails(i)
        <4>1. started[i] # "no"
          BY <1>1, <3>2 DEF SendBeat, BeatReply, BeatFails, BeatDue, Asleep
        <4>2. UNCHANGED started /\ \A j \in Instance : j # i => beat'[j] = beat[j]
          BY <1>1, <3>2 DEF SendBeat, BeatReply, BeatFails, IInv, BeatingType
        <4> QED  BY <1>1, <4>1, <4>2 DEF Asleep
      <3> QED  BY <2>5, <3>1, <3>2 DEF Beat
    <2>6. ASSUME NEW i \in Instance, Recover(i) \/ Sweep(i) \/ KeyLapses(i) PROVE Asleep'
      BY <2>1, <2>6 DEF Recover, LapseSnapshot, LapseWrites, DrainWrites, LapseEnds,
         DrainEnds, Sweep, SweepSelects, SweepReleases, SweepReply, SweepDeregisters,
         SweepFails, KeyLapses, others, beating
    <2>7. ASSUME NEW i \in Instance, Crash(i) PROVE Asleep'
      BY <1>1, <2>7 DEF Crash, Asleep, IInv, BeatingType
    <2>8. CASE \E command \in adrift : CarriedOutLate(command)
      BY <2>1, <2>8 DEF CarriedOutLate, others, beating
    <2> QED  BY <1>1, <2>2, <2>3, <2>4, <2>5, <2>6, <2>7, <2>8 DEF RosterNext
  <1>2. RosterInit => Asleep  BY DEF RosterInit, Asleep
  <1> QED  BY <1>1, <1>2, Typed, PTL DEF RosterSafety

\* Another slot than the one a write is about.
LEMMA OthersRegained ==
    ASSUME LossInv, NEW j \in Instance, NEW r \in Slot,
           UNCHANGED <<up, local, waiting>>, step'[j][r] = step[j][r],
           tail'[j][r] = tail[j][r], Missing(j, r)' => Missing(j, r),
           Restored(j, r) => Restored(j, r)', owed'[j] = owed[j],
           holdIssued \subseteq holdIssued'
    PROVE  Regained(j, r)'
  <1>1. WriteDue(j, r) => WriteDue(j, r)'  BY DueStaysDue
  <1>2. Desired(j, r)' => Desired(j, r)  BY DEF Desired
  <1> QED  BY <1>1, <1>2, StaysRegained DEF LossInv

LEMMA StartRegained == ASSUME IInv, Asleep, LossInv, NEW i \in Instance, NEW s \in Slot,
                              StartWrite(i, s)
                       PROVE  LossInv'
  <1>1. /\ UNCHANGED <<up, local, waiting, tail, holders, astray, wire, alive, suspected,
                       lapse, owed, drain>>
        /\ step[i][s] = "idle" /\ holdIssued \subseteq holdIssued'
    BY DEF StartWrite, membership, runs, storeVars, history
  <1>2. PICK x \in {"boot", "hold", "release"} :
          /\ step' = [step EXCEPT ![i][s] = x]
          /\ x = "release" => ~Desired(i, s)
          /\ x = "hold" => i \in holdIssued'
    BY DEF StartWrite
  <1>3. \A j \in Instance, r \in Slot :
          step'[j][r] = IF j = i /\ r = s THEN x ELSE step[j][r]
    BY <1>2 DEF IInv, WritesType
  <1>4. Drained'  BY <1>1 DEF LossInv, Drained
  <1>5. \A j \in Instance : LapseDue(j) => LapseDue(j)'
    <2>1. UNCHANGED beat \/ (started[i] = "no" /\ beat' = [beat EXCEPT ![i] = "set"])
      BY DEF StartWrite
    <2>2. \A j \in Instance : beat[j] \in {"lapsed", "failed"} => beat'[j] = beat[j]
      BY <2>1 DEF Asleep, IInv, BeatingType
    <2> QED  BY <1>1, <2>2 DEF LapseDue
  <1>6. ASSUME NEW j \in Instance, NEW r \in Slot, ~(j = i /\ r = s)
        PROVE  Regained(j, r)'
    <2>1. step'[j][r] = step[j][r]  BY <1>3, <1>6
    <2>2. WriteDue(j, r) => WriteDue(j, r)'  BY <1>1, <2>1, DueStaysDue
    <2>3. Restored(j, r) => Restored(j, r)'  BY <1>1, <1>5, <2>2 DEF Restored
    <2> QED  BY <1>1, <2>1, <2>3, OthersRegained DEF Missing
  <1>7. Regained(i, s)'
    <2>1. Desired(i, s)' = Desired(i, s)  BY <1>1 DEF Desired
    <2> QED  BY <2>1, <1>2, <1>3 DEF Regained
  <1> QED  BY <1>4, <1>6, <1>7 DEF LossInv

LEMMA BootedRegained == ASSUME IInv, LossInv, NEW i \in Instance, NEW s \in Slot,
                               Booted(i, s)
                        PROVE  LossInv'
  <1>1. /\ UNCHANGED <<up, local, waiting, tail, holders, astray, wire, alive, suspected, beat,
                       lapse, owed, drain>>
        /\ step' = [step EXCEPT ![i][s] = "hold"]
        /\ holdIssued \subseteq holdIssued' /\ i \in holdIssued'
    BY DEF Booted, membership, runs, storeVars, history
  <1>2. \A j \in Instance, r \in Slot :
          step'[j][r] = IF j = i /\ r = s THEN "hold" ELSE step[j][r]
    BY <1>1 DEF IInv, WritesType
  <1>3. Drained'  BY <1>1 DEF LossInv, Drained
  <1>4. ASSUME NEW j \in Instance, NEW r \in Slot, ~(j = i /\ r = s)
        PROVE  Regained(j, r)'
    <2>1. step'[j][r] = step[j][r]  BY <1>2, <1>4
    <2>2. WriteDue(j, r) => WriteDue(j, r)'  BY <1>1, <2>1, DueStaysDue
    <2>3. Restored(j, r) => Restored(j, r)'  BY <1>1, <2>2, StaysRestored
    <2> QED  BY <1>1, <2>1, <2>3, OthersRegained DEF Missing
  <1>5. Regained(i, s)'  BY <1>1, <1>2 DEF Regained
  <1> QED  BY <1>3, <1>4, <1>5 DEF LossInv

\* A hold that goes out holds; a release nobody wants any more has a write
\* behind it.
LEMMA SendRegained == ASSUME IInv, LossInv, NEW i \in Instance, NEW s \in Slot,
                             SendWrite(i, s)
                      PROVE  LossInv'
  <1>1. /\ UNCHANGED <<up, local, waiting, tail, beat, suspected, holdIssued, lapse,
                       owed, drain>>
        /\ step[i][s] \in {"hold", "release"} /\ step' = [step EXCEPT ![i][s] = "sent"]
        /\ step[i][s] = "hold" => HoldMember(i, s)
        /\ step[i][s] = "release" => ReleaseMember(i, s, FALSE)
        /\ wire[i].op = "none"
        /\ \A j \in Instance : j # i => wire'[j] = wire[j]
        /\ astray' = [astray EXCEPT ![i] = @ \ {s}]
    BY IdleWire DEF SendWrite, membership, runs, beating, Idle, IInv, WireType
  <1>2. \A j \in Instance, r \in Slot :
          step'[j][r] = IF j = i /\ r = s THEN "sent" ELSE step[j][r]
    BY <1>1 DEF IInv, WritesType
  <1>3. Drained'  BY <1>1 DEF LossInv, Drained
  <1>4. /\ UNCHANGED alive
        /\ \A j \in Instance, r \in Slot : ~(j = i /\ r = s) /\ j \in holders[r] =>
              j \in holders'[r]
        /\ step[i][s] = "hold" => i \in holders'[s]
    <2>1. CASE step[i][s] = "hold"
      BY <1>1, <2>1 DEF HoldMember, IInv, StoreType
    <2>2. CASE step[i][s] = "release"
      <3>1. holders' = [holders EXCEPT ![s] = @ \ {i}] /\ UNCHANGED alive
        BY <1>1, <2>2 DEF ReleaseMember, Refused
      <3> QED  BY <2>2, <3>1 DEF IInv, StoreType
    <2> QED  BY <1>1, <2>1, <2>2
  <1>5. ASSUME NEW j \in Instance, NEW r \in Slot
        PROVE  /\ WriteDue(j, r) => WriteDue(j, r)'
               /\ Restored(j, r) => Restored(j, r)'
    <2>1. WriteDue(j, r) => WriteDue(j, r)'  BY <1>1, <1>2 DEF WriteDue
    <2>2. wire[j].op = "beat" => wire'[j] = wire[j]  BY <1>1
    <2> QED  BY <2>1, <2>2, <1>1, <1>4, StaysRestored
  <1>m. /\ \A j \in Instance, r \in Slot :
              ~(j = i /\ r = s) /\ Missing(j, r)' => Missing(j, r)
        /\ step[i][s] = "hold" => ~Missing(i, s)'
    BY <1>1, <1>4 DEF Missing, IInv, HistoryType
  <1>6. ASSUME NEW j \in Instance, NEW r \in Slot, ~(j = i /\ r = s)
        PROVE  Regained(j, r)'
    <2>1. step'[j][r] = step[j][r]  BY <1>2, <1>6
    <2> QED  BY <1>1, <1>m, <1>5, <1>6, <2>1, OthersRegained
  <1>7. Regained(i, s)'
    <2>1. Desired(i, s)' = Desired(i, s)  BY <1>1 DEF Desired
    <2>2. Regained(i, s)  BY DEF LossInv
    <2>3. CASE step[i][s] = "hold"
      BY <2>1, <2>2, <2>3, <1>1, <1>2, <1>m, <1>5 DEF Regained
    <2>4. CASE step[i][s] = "release"
      <3>1. i \in up /\ Desired(i, s) => WriteDue(i, s)'
        BY <2>2, <2>4, <1>5 DEF Regained
      <3> QED  BY <2>1, <3>1, <1>1, <1>2 DEF Regained, Restored
    <2> QED  BY <1>1, <2>3, <2>4
  <1> QED  BY <1>3, <1>6, <1>7 DEF LossInv

\* The drain's own write is the only one it waits for.
LEMMA SettleDrained ==
    ASSUME IInv, Drained, NEW i \in Instance, NEW s \in Slot, NEW ok \in BOOLEAN,
           step[i][s] # "idle", Settle(i, s, ok)
    PROVE  Drained'
  <1> DEFINE job == Head(tail[i][s])
  <1>1. /\ tail' = [tail EXCEPT ![i][s] = Tail(@)]
        /\ step' = [step EXCEPT ![i][s] = "idle"]
        /\ job \in Job
    BY SettleIs
  <1>2. /\ \A j \in Instance, r \in Slot : ~(j = i /\ r = s) => tail'[j][r] = tail[j][r]
        /\ job = tail[i][s][1] /\ 1 \in 1..Len(tail[i][s])
        /\ \A k \in Nat : k \in 1..Len(tail'[i][s]) =>
              k + 1 \in 1..Len(tail[i][s]) /\ tail'[i][s][k] = tail[i][s][k + 1]
    <2> HIDE DEF job
    <2>1. tail' = [tail EXCEPT ![i][s] = Tail(@)] /\ step' = [step EXCEPT ![i][s] = "idle"]
      BY <1>1
    <2>2. Head(tail[i][s]) = tail[i][s][1] /\ 1 \in 1..Len(tail[i][s])
      BY <2>1, SettledTail
    <2>3. \A j \in Instance, r \in Slot : ~(j = i /\ r = s) => tail'[j][r] = tail[j][r]
      BY <2>1, SettledTail
    <2>4. \A k \in Nat : k \in 1..Len(tail'[i][s]) =>
             k + 1 \in 1..Len(tail[i][s]) /\ tail'[i][s][k] = tail[i][s][k + 1]
      BY <2>1, SettledTail, ZenonT(30)
    <2> QED  BY <2>2, <2>3, <2>4 DEF job
  <1>3. /\ job.kind = "lapse" => LapseSettles(i, s, ok)
        /\ job.kind = "drain" => DrainSettles(i, s, ok)
        /\ job.kind \in Calls => CallSettles(i, s, job, ok)
    BY DEF Settle, Calls
  <1> HIDE DEF job
  <1>4. ASSUME NEW j \in Instance, NEW r \in Slot, NEW k \in 1..Len(tail'[j][r]),
               tail'[j][r][k].kind = "drain"
        PROVE  /\ drain[j].at = r
               /\ \A m \in 1..Len(tail'[j][r]) : tail'[j][r][m].kind = "drain" => m = k
               /\ j = i /\ r = s => job.kind # "drain"
    <2>1. CASE ~(j = i /\ r = s)  BY <1>2, <1>4, <2>1 DEF Drained
    <2>2. CASE j = i /\ r = s
      <3>1. /\ k + 1 \in 1..Len(tail[i][s]) /\ tail[i][s][k + 1].kind = "drain"
            /\ k \in Nat
        BY <1>2, <1>4, <2>2
      <3>2. ASSUME NEW m \in 1..Len(tail'[i][s]), tail'[i][s][m].kind = "drain"
            PROVE  m = k
        <4>1. /\ m + 1 \in 1..Len(tail[i][s]) /\ tail[i][s][m + 1].kind = "drain"
              /\ m \in Nat
          BY <1>2, <3>2
        <4>2. m + 1 = k + 1  BY <3>1, <4>1 DEF Drained
        <4> QED  BY <3>1, <4>1, <4>2
      <3>3. job.kind # "drain"
        <4>1. SUFFICES ASSUME job.kind = "drain" PROVE FALSE  OBVIOUS
        <4>2. k + 1 = 1  BY <3>1, <4>1, <1>2 DEF Drained
        <4> QED  BY <3>1, <4>2
      <3> QED  BY <2>2, <3>1, <3>2, <3>3 DEF Drained
    <2> QED  BY <2>1, <2>2
  <1>5. CASE job.kind # "drain"
    <2>1. /\ \A j \in Instance : /\ drain'[j].left = drain[j].left
                                 /\ drain'[j].at = drain[j].at
                                 /\ owed[j] \subseteq owed'[j]
      <3>1. CASE UNCHANGED <<owed, drain>>  BY <3>1
      <3>2. CASE RecordOwed(i, s)  BY <3>2 DEF RecordOwed, IInv, DrainType
      <3> QED
        BY <3>1, <3>2, <1>1, <1>3, <1>5, JobsAre DEF LapseSettles, CallSettles, Calls
    <2>2. ASSUME NEW j \in Instance PROVE
            /\ drain'[j].left \subseteq owed'[j] /\ drain'[j].at \notin drain'[j].left
            /\ drain'[j].at # None => drain'[j].at \in owed'[j]
      BY <2>1 DEF Drained
    <2> QED  BY <1>4, <2>1, <2>2 DEF Drained
  <1>6. CASE job.kind = "drain"
    <2>1. /\ drain' = [drain EXCEPT ![i].at = None]
          /\ UNCHANGED owed \/ owed' = [owed EXCEPT ![i] = @ \ {s}]
      BY <1>3, <1>6 DEF DrainSettles
    <2>2. drain[i].at = s /\ s \notin drain[i].left
      BY <1>2, <1>6 DEF Drained
    <2>3. ASSUME NEW j \in Instance PROVE
            /\ drain'[j].left \subseteq owed'[j] /\ drain'[j].at \notin drain'[j].left
            /\ drain'[j].at # None => drain'[j].at \in owed'[j]
      <3>1. drain[j].left \subseteq owed[j] /\ drain[j].left \subseteq Slot
        BY DEF Drained, IInv, DrainType
      <3>2. CASE j = i
        <4>1. drain'[i].left = drain[i].left /\ drain'[i].at = None
          BY <2>1 DEF IInv, DrainType
        <4>2. drain[i].left \subseteq owed'[i]
          BY <2>1, <2>2, <3>1, <3>2 DEF IInv, DrainType
        <4> QED  BY <3>1, <3>2, <4>1, <4>2, RosterAssumption
      <3>3. CASE j # i
        <4>1. drain'[j] = drain[j] /\ owed'[j] = owed[j]
          BY <2>1, <3>3 DEF IInv, DrainType
        <4> QED  BY <4>1 DEF Drained
      <3> QED  BY <3>2, <3>3
    <2>4. ASSUME NEW j \in Instance, NEW r \in Slot, NEW k \in 1..Len(tail'[j][r]),
                 tail'[j][r][k].kind = "drain"
          PROVE  drain'[j].at = r
      <3>1. drain[j].at = r /\ (j = i => r # s)  BY <1>4, <1>6, <2>4
      <3>2. j # i  BY <3>1, <2>2
      <3> QED  BY <3>1, <3>2, <2>1 DEF IInv, DrainType
    <2> QED  BY <1>4, <2>3, <2>4 DEF Drained
  <1> QED  BY <1>5, <1>6

\* A write that went out has done its work or is made up for; one that failed
\* before asks for another, is owed, or fails its run.
LEMMA SettleRegained == ASSUME IInv, GhostInv, LossInv, NEW i \in Instance, NEW s \in Slot,
                               WriteReply(i, s) \/ WriteFails(i, s)
                        PROVE  LossInv'
  <1>1. PICK ok \in BOOLEAN :
          /\ Settle(i, s, ok)
          /\ step[i][s] = "sent" \/ (~ok /\ step[i][s] \in {"hold", "release"})
          /\ step[i][s] = "sent" \/ Idle(i)
          /\ UNCHANGED <<up, holders, astray, alive, suspected, beat, holdIssued>>
          /\ wire' = [wire EXCEPT ![i] = Quiet]
    <2>1. CASE WriteReply(i, s)  BY <2>1 DEF WriteReply, storeVars, beating, history
    <2>2. CASE WriteFails(i, s)  BY <2>2 DEF WriteFails, storeVars, beating, history
    <2> QED  BY <2>1, <2>2
  <1> DEFINE job == Head(tail[i][s])
  <1>2. /\ waiting \subseteq waiting'
        /\ \A j \in Instance, r \in Slot : ~(j = i /\ r = s) /\ r \in owed[j] =>
              r \in owed'[j]
        /\ ~ok => owed[i] \subseteq owed'[i]
        /\ ~ok /\ job.kind = "join" =>
              [kind |-> "reclaim", conn |-> job.conn] \in waiting'
        /\ ~ok /\ job.kind \in {"leave", "reclaim"} => s \in owed'[i]
    BY <1>1, SettledCalls
  <1>3. /\ tail' = [tail EXCEPT ![i][s] = Tail(@)]
        /\ step' = [step EXCEPT ![i][s] = "idle"]
        /\ job \in Job
    BY <1>1, SettleIs
  <1>4. /\ \A j \in Instance, r \in Slot :
              /\ step'[j][r] = IF j = i /\ r = s THEN "idle" ELSE step[j][r]
              /\ ~(j = i /\ r = s) => tail'[j][r] = tail[j][r]
        /\ Len(tail'[i][s]) = Len(tail[i][s]) - 1 /\ Len(tail[i][s]) \in Nat
        /\ job = tail[i][s][1] /\ 1 \in 1..Len(tail[i][s])
    <2> HIDE DEF job
    <2>1. step[i][s] # "idle"  BY <1>1
    <2>2. /\ tail' = [tail EXCEPT ![i][s] = Tail(@)]
          /\ step' = [step EXCEPT ![i][s] = "idle"]
      BY <1>3
    <2>3. Head(tail[i][s]) = tail[i][s][1] /\ 1 \in 1..Len(tail[i][s])
      BY <2>1, <2>2, SettledTail
    <2>4. Len(tail'[i][s]) = Len(tail[i][s]) - 1 /\ Len(tail[i][s]) \in Nat
      BY <2>1, <2>2, SettledTail
    <2>5. \A j \in Instance, r \in Slot :
             /\ step'[j][r] = IF j = i /\ r = s THEN "idle" ELSE step[j][r]
             /\ ~(j = i /\ r = s) => tail'[j][r] = tail[j][r]
      BY <2>1, <2>2, SettledTail
    <2> QED  BY <2>3, <2>4, <2>5 DEF job
  <1>5. /\ job.kind = "lapse" => LapseSettles(i, s, ok)
        /\ job.kind = "drain" => DrainSettles(i, s, ok)
        /\ job.kind \in Calls => CallSettles(i, s, job, ok)
    BY <1>1 DEF Settle, Calls
  <1> HIDE DEF job
  <1>6. local' \subseteq local
    <2>1. UNCHANGED local \/ local' = local \ {job.conn}
      BY <1>3, <1>5, JobsAre DEF LapseSettles, DrainSettles, CallSettles, membership, Calls
    <2> QED  BY <2>1
  <1>7. /\ \A j \in Instance : /\ lapse'[j].state = lapse[j].state
                               /\ lapse'[j].trailing = lapse[j].trailing
                               /\ lapse'[j].left = lapse[j].left
                               /\ lapse[j].failed => lapse'[j].failed
        /\ ~ok /\ job.kind = "lapse" => lapse'[i].failed
    <2>1. CASE job.kind = "lapse"
      BY <1>5, <2>1 DEF LapseSettles, IInv, LapseType
    <2>2. CASE job.kind # "lapse"
      <3>1. UNCHANGED lapse
        BY <1>3, <1>5, <2>2, JobsAre DEF DrainSettles, CallSettles, Calls
      <3> QED  BY <2>2, <3>1
    <2> QED  BY <2>1, <2>2
  <1>8. Drained'  BY <1>1, SettleDrained DEF LossInv
  <1>9. ASSUME NEW j \in Instance, NEW r \in Slot
        PROVE  /\ WriteDue(j, r) => WriteDue(j, r)'
               /\ Restored(j, r) => Restored(j, r)'
               /\ Desired(j, r)' => Desired(j, r)
    <2>1. WriteDue(j, r) => WriteDue(j, r)'
      <3>1. CASE ~(j = i /\ r = s)  BY <3>1, <1>2, <1>4, DueStaysDue
      <3>2. CASE j = i /\ r = s
        <4>1. QueueDue(i, s) => QueueDue(i, s)'
          <5>1. QueueDue(i, s) => Len(tail[i][s]) > 1  BY <1>1 DEF QueueDue
          <5>2. Len(tail[i][s]) > 1 => Len(tail'[i][s]) > 0  BY <1>4
          <5>3. step'[i][s] = "idle"  BY <1>4
          <5> QED  BY <5>1, <5>2, <5>3 DEF QueueDue
        <4>2. CallWaits(i, s) => CallWaits(i, s)'  BY <1>2 DEF CallWaits
        <4> QED  BY <3>2, <4>1, <4>2 DEF WriteDue, QueueDue, CallWaits
      <3> QED  BY <3>1, <3>2
    <2>2. wire[j].op = "beat" => wire'[j] = wire[j]
      BY <1>1, IdleWire DEF IInv, Wired, WireType, Idle
    <2>3. LapseDue(j) => LapseDue(j)'  BY <1>1, <2>2 DEF LapseDue
    <2> QED  BY <2>1, <2>3, <1>6, <1>7 DEF Restored, Desired
  <1>10. ASSUME NEW j \in Instance, NEW r \in Slot, ~(j = i /\ r = s)
         PROVE  Regained(j, r)'
    <2>1. step'[j][r] = step[j][r]  BY <1>4, <1>10
    <2>2. i \in up' => i \in up  BY <1>1
    <2>3. Missing(j, r)' => Missing(j, r)  BY <1>1 DEF Missing
    <2> QED  BY <1>1, <1>2, <1>9, <1>10, <2>1, <2>3, StaysRegained DEF LossInv
  <1>11. Regained(i, s)'
    <2> SUFFICES ASSUME i \in up, Desired(i, s), ~WriteDue(i, s), ~WriteDue(i, s)'
                 PROVE  /\ Missing(i, s) =>
                             Restored(i, s)' \/ s \in owed'[i]
                        /\ i \in holdIssued
      BY <1>1, <1>4, <1>9 DEF Regained, Restored, Missing
    <2>1. Regained(i, s)  BY DEF LossInv
    <2>2. step[i][s] \in {"sent", "hold"} /\ i \in holdIssued
      BY <1>1, <2>1 DEF Regained
    <2>3. CASE step[i][s] = "sent"
      <3>1. Missing(i, s) => Restored(i, s)  BY <2>1, <2>3 DEF Regained
      <3> QED  BY <2>2, <3>1, <1>9
    <2>4. CASE step[i][s] = "hold"
      <3>0. ~ok  BY <1>1, <2>4
      <3>1. CASE job.kind = "join"
        <4>1. homeOf[job.conn] = i /\ slotOf[job.conn] = s
          BY <3>1, <1>4 DEF GhostInv, Filed, Calls
        <4>2. WriteDue(i, s)'  BY <3>0, <3>1, <4>1, <1>2 DEF WriteDue
        <4> QED  BY <4>2
      <3>2. CASE job.kind \in {"leave", "reclaim"}  BY <2>2, <3>0, <3>2, <1>2
      <3>3. CASE job.kind = "lapse"  BY <2>2, <3>0, <3>3, <1>7 DEF Restored
      <3>4. CASE job.kind = "drain"
        <4>1. drain[i].at = s  BY <3>4, <1>4 DEF LossInv, Drained
        <4>2. s \in owed[i]  BY <4>1, RosterAssumption DEF LossInv, Drained
        <4> QED  BY <2>2, <3>0, <4>2, <1>2
      <3> QED  BY <1>3, <3>1, <3>2, <3>3, <3>4, JobsAre
    <2> QED  BY <2>2, <2>3, <2>4
  <1> QED  BY <1>8, <1>10, <1>11 DEF LossInv

\* Steps that touch no tail, no call and no connection: whoever is dropped is
\* due to be held again, and what was due to hold it again stays so.
LEMMA FarRegained ==
    ASSUME IInv, LossInv, UNCHANGED <<up, local, waiting, tail, step, owed, holdIssued>>,
           Drained',
           \A j \in Instance, r \in Slot :
              /\ Missing(j, r)' => Missing(j, r) \/ LapseDue(j)'
              /\ Desired(j, r) /\ Restored(j, r) =>
                    Restored(j, r)' \/ j \notin holdIssued \/ ~Missing(j, r)'
    PROVE  LossInv'
  <1>1. ASSUME NEW j \in Instance, NEW r \in Slot PROVE Regained(j, r)'
    <2>1. WriteDue(j, r) => WriteDue(j, r)'  BY DueStaysDue
    <2>2. Desired(j, r)' => Desired(j, r)  BY DEF Desired
    <2> QED  BY <2>1, <2>2, StaysRegained DEF LossInv
  <1> QED  BY <1>1 DEF LossInv

\* A lapse is found out by the beat's reply, or suspected from its failure.
LEMMA PulseRegained ==
    ASSUME IInv, LossInv, NEW i \in Instance, SendBeat(i) \/ BeatReply(i) \/ BeatFails(i)
    PROVE  LossInv'
  <1>1. /\ UNCHANGED <<up, local, waiting, tail, step, owed, holdIssued, drain, lapse,
                       suspected, holders, astray>>
        /\ \A j \in Instance : j # i => beat'[j] = beat[j] /\ wire'[j] = wire[j]
        /\ alive' \subseteq alive \cup {i}
    BY DEF SendBeat, BeatReply, BeatFails, membership, writes, runs, storeVars, history,
           Renew, IInv, BeatingType, WireType
  <1>2. Drained'  BY <1>1 DEF LossInv, Drained
  <1>3. LapseDue(i) => LapseDue(i)'
    <2>1. CASE SendBeat(i)
      <3>1. /\ wire[i].op = "none" /\ beat[i] \in {"idle", "set"} /\ alive' = alive \cup {i}
            /\ wire'[i] = [op |-> "beat", slot |-> None,
                           reply |-> IF i \in alive THEN "continuous" ELSE "lapsed"]
        BY <2>1, IdleWire DEF SendBeat, Idle, BeatDue, Renew, IInv, WireType
      <3> QED  BY <3>1, <1>1 DEF LapseDue
    <2>2. CASE BeatReply(i)
      <3>1. /\ beat[i] = "sent" /\ beat'[i] = wire[i].reply /\ UNCHANGED alive
        BY <2>2 DEF BeatReply, storeVars, IInv, BeatingType
      <3> QED  BY <3>1, <1>1 DEF LapseDue
    <2>3. CASE BeatFails(i)
      <3>1. beat'[i] = "failed"  BY <2>3 DEF BeatFails, IInv, BeatingType
      <3> QED  BY <3>1 DEF LapseDue
    <2> QED  BY <2>1, <2>2, <2>3
  <1>4. ASSUME NEW j \in Instance, NEW r \in Slot
        PROVE  Restored(j, r) => Restored(j, r)'
    <2>1. WriteDue(j, r) => WriteDue(j, r)'  BY <1>1, DueStaysDue
    <2>2. LapseDue(j) => LapseDue(j)'
      <3>1. CASE j = i  BY <3>1, <1>3
      <3>2. CASE j # i  BY <3>2, <1>1 DEF LapseDue
      <3> QED  BY <3>1, <3>2
    <2> QED  BY <1>1, <2>1, <2>2 DEF Restored
  <1> QED  BY <1>1, <1>2, <1>4, FarRegained DEF Missing

\* What a lapse run leaves to hold, or to do again.
Reruns(i, s) == \/ lapse[i].state = "revoking" \/ lapse[i].trailing \/ lapse[i].failed
                \/ s \in lapse[i].left

\* A good beat that finds a lapse starts the run that holds every slot again; a
\* failed one is suspected.
LEMMA BeatEndsRegained == ASSUME IInv, LossInv, NEW i \in Instance, BeatEnds(i)
                          PROVE  LossInv'
  <1> DEFINE overdue == i \in holdIssued /\ beat[i] # "failed"
                        /\ (beat[i] = "lapsed" \/ i \in suspected)
  <1>1. /\ UNCHANGED <<up, local, waiting, tail, step, owed, holdIssued, holders, astray, alive, wire>>
        /\ wire[i] = Quiet
        /\ drain' = drain \/ drain' = [drain EXCEPT ![i] = Triggered(@, DrainRun(i))]
        /\ overdue => lapse' = [lapse EXCEPT ![i] = Triggered(@, LapseRun)]
        /\ ~overdue => UNCHANGED lapse
        /\ ~overdue /\ i \in suspected => i \in suspected'
        /\ i \in holdIssued /\ beat[i] = "failed" => i \in suspected'
        /\ suspected \ {i} \subseteq suspected'
        /\ \A j \in Instance : j # i => beat'[j] = beat[j]
    BY DEF BeatEnds, Idle, membership, writes, storeVars, Register, IInv, BeatingType
  <1> HIDE DEF overdue
  <1>2. Drained'
    <2>1. CASE drain' = drain  BY <1>1, <2>1 DEF LossInv, Drained
    <2>2. CASE drain' = [drain EXCEPT ![i] = Triggered(@, DrainRun(i))]
      <3>1. /\ \A j \in Instance : j # i => drain'[j] = drain[j]
            /\ drain'[i] = Triggered(drain[i], DrainRun(i))
        BY <2>2 DEF IInv, DrainType
      <3>2. CASE drain[i] # NoDrain
        <4>1. drain'[i].left = drain[i].left /\ drain'[i].at = drain[i].at
          BY <3>1, <3>2 DEF Triggered, DrainRun, IInv, DrainType
        <4>2. \A j \in Instance : drain'[j].left = drain[j].left /\ drain'[j].at = drain[j].at
          BY <3>1, <4>1
        <4> QED  BY <1>1, <4>2 DEF LossInv, Drained
      <3>3. CASE drain[i] = NoDrain
        <4>1. drain[i].at = None  BY <3>3 DEF NoDrain
        <4>2. drain'[i].left = owed[i] /\ drain'[i].at = None
          BY <3>1, <3>3 DEF Triggered, DrainRun, NoDrain
        <4>3. None \notin owed[i]  BY RosterAssumption DEF IInv, DrainType
        <4>4. ASSUME NEW j \in Instance PROVE
                /\ drain'[j].left \subseteq owed[j] /\ drain'[j].at \notin drain'[j].left
                /\ drain'[j].at # None => drain'[j].at \in owed[j]
          BY <3>1, <4>2, <4>3 DEF LossInv, Drained
        <4>5. \A j \in Instance : drain'[j].at = drain[j].at  BY <3>1, <4>1, <4>2
        <4> QED  BY <1>1, <4>4, <4>5 DEF LossInv, Drained
      <3> QED  BY <3>2, <3>3
    <2> QED  BY <1>1, <2>1, <2>2
  <1>3. ASSUME NEW r \in Slot
        PROVE  /\ overdue => Reruns(i, r)'
               /\ Reruns(i, r) => Reruns(i, r)'
    <2>1. CASE ~overdue  BY <2>1, <1>1 DEF Reruns
    <2>2. CASE overdue
      <3>1. lapse'[i] = Triggered(lapse[i], LapseRun)  BY <1>1, <2>2 DEF IInv, LapseType
      <3>2. CASE lapse[i] = NoLapse
        BY <3>1, <3>2 DEF Triggered, LapseRun, NoLapse, Reruns
      <3>3. CASE lapse[i] # NoLapse
        <4>1. lapse'[i].trailing
          BY <3>1, <3>3 DEF Triggered, LapseRun, IInv, LapseType
        <4> QED  BY <4>1 DEF Reruns
      <3> QED  BY <3>2, <3>3
    <2> QED  BY <2>1, <2>2
  <1>4. ASSUME NEW j \in Instance, NEW r \in Slot, Restored(j, r), j \in holdIssued
        PROVE  Restored(j, r)'
    <2>1. WriteDue(j, r) => WriteDue(j, r)'  BY <1>1, DueStaysDue
    <2>2. CASE j # i
      <3>1. lapse'[j] = lapse[j]  BY <1>1, <2>2 DEF IInv, LapseType
      <3>2. LapseDue(j) => LapseDue(j)'  BY <1>1, <2>2 DEF LapseDue
      <3> QED  BY <1>4, <2>1, <3>1, <3>2 DEF Restored
    <2>3. CASE j = i
      <3>1. CASE Reruns(i, r) \/ overdue  BY <2>3, <3>1, <1>3 DEF Restored, Reruns
      <3>2. CASE ~Reruns(i, r) /\ ~overdue
        <4>1. WriteDue(i, r) \/ LapseDue(i)  BY <1>4, <2>3, <3>2 DEF Restored, Reruns
        <4>2. LapseDue(i) => LapseDue(i)'
          BY <1>1, <1>4, <2>3, <3>2 DEF LapseDue, Quiet, overdue
        <4> QED  BY <2>1, <2>3, <4>1, <4>2 DEF Restored
      <3> QED  BY <3>1, <3>2
    <2> QED  BY <2>2, <2>3
  <1>5. \A j \in Instance, r \in Slot : Missing(j, r)' => Missing(j, r)  BY <1>1 DEF Missing
  <1> QED  BY <1>1, <1>2, <1>4, <1>5, FarRegained

\* A run holds the slots that are wanted when it begins; when it ends, it is
\* suspected if it failed, and followed by the one asked for meanwhile.
LEMMA LapseRegained == ASSUME IInv, LossInv, NEW i \in Instance,
                              LapseSnapshot(i) \/ LapseEnds(i)
                       PROVE  LossInv'
  <1>1. /\ UNCHANGED <<up, local, waiting, tail, step, owed, holdIssued, drain, holders,
                       astray, alive, beat, wire>>
        /\ suspected \subseteq suspected'
    BY DEF LapseSnapshot, LapseEnds, membership, writes, storeVars, beating, history
  <1>2. Drained'  BY <1>1 DEF LossInv, Drained
  <1>3. \A j \in Instance : j # i => lapse'[j] = lapse[j]
    BY DEF LapseSnapshot, LapseEnds, IInv, LapseType
  <1>4. ASSUME NEW r \in Slot, Desired(i, r), Reruns(i, r)
        PROVE  Reruns(i, r)' \/ i \in suspected'
    <2>1. CASE LapseSnapshot(i)
      <3>1. lapse'[i].left = {s \in Slot : Desired(i, s)}
        BY <2>1 DEF LapseSnapshot, IInv, LapseType
      <3> QED  BY <1>4, <3>1 DEF Reruns
    <2>2. CASE LapseEnds(i)
      <3>1. lapse[i].trailing \/ lapse[i].failed  BY <1>4, <2>2 DEF LapseEnds, Reruns
      <3>2. CASE lapse[i].failed  BY <2>2, <3>2 DEF LapseEnds
      <3>3. CASE lapse[i].trailing
        <4>1. lapse'[i] = LapseRun.begun  BY <2>2, <3>3 DEF LapseEnds, IInv, LapseType
        <4> QED  BY <4>1 DEF LapseRun, NoLapse, Reruns
      <3> QED  BY <3>1, <3>2, <3>3
    <2> QED  BY <2>1, <2>2
  <1>5. ASSUME NEW j \in Instance, NEW r \in Slot, Desired(j, r), Restored(j, r)
        PROVE  Restored(j, r)'
    <2>1. WriteDue(j, r) => WriteDue(j, r)'  BY <1>1, DueStaysDue
    <2>2. LapseDue(j) => LapseDue(j)'  BY <1>1 DEF LapseDue
    <2>3. j \in suspected' => LapseDue(j)'  BY DEF LapseDue
    <2>4. Reruns(j, r) => Reruns(j, r)' \/ j \in suspected'
      <3>1. CASE j = i  BY <3>1, <1>4, <1>5
      <3>2. CASE j # i  BY <3>2, <1>3 DEF Reruns
      <3> QED  BY <3>1, <3>2
    <2> QED  BY <1>5, <2>1, <2>2, <2>3, <2>4 DEF Restored, Reruns
  <1> QED  BY <1>1, <1>2, <1>5, FarRegained DEF Missing

LEMMA DrainEndsRegained == ASSUME IInv, LossInv, NEW i \in Instance, DrainEnds(i)
                           PROVE  LossInv'
  <1>1. UNCHANGED <<up, local, waiting, tail, step, owed, holdIssued, lapse, holders,
                    astray, alive, beat, wire, suspected>>
    BY DEF DrainEnds, membership, writes, storeVars, beating, history
  <1>2. Drained'
    <2>1. /\ drain[i].at = None /\ drain'[i].at = None
          /\ drain'[i].left \subseteq owed[i]
          /\ \A j \in Instance : j # i => drain'[j] = drain[j]
      <3>1. CASE drain[i].trailing
        <4>1. drain'[i] = DrainRun(i).begun  BY <3>1 DEF DrainEnds, IInv, DrainType
        <4> QED  BY <4>1 DEF DrainRun, NoDrain, DrainEnds, IInv, DrainType
      <3>2. CASE ~drain[i].trailing
        <4>1. drain'[i] = NoDrain  BY <3>2 DEF DrainEnds, IInv, DrainType
        <4> QED  BY <4>1 DEF NoDrain, DrainEnds, IInv, DrainType
      <3> QED  BY <3>1, <3>2
    <2>2. None \notin drain'[i].left  BY <2>1, RosterAssumption DEF IInv, DrainType
    <2>3. ASSUME NEW j \in Instance PROVE
            /\ drain'[j].left \subseteq owed[j] /\ drain'[j].at \notin drain'[j].left
            /\ drain'[j].at # None => drain'[j].at \in owed[j]
      BY <2>1, <2>2 DEF LossInv, Drained
    <2>4. \A j \in Instance : drain'[j].at = drain[j].at  BY <2>1
    <2> QED  BY <1>1, <2>3, <2>4 DEF LossInv, Drained
  <1>3. ASSUME NEW j \in Instance, NEW r \in Slot PROVE Restored(j, r) => Restored(j, r)'
    <2>1. WriteDue(j, r) => WriteDue(j, r)'  BY <1>1, DueStaysDue
    <2> QED  BY <1>1, <2>1, StaysRestored
  <1> QED  BY <1>1, <1>2, <1>3, FarRegained DEF Missing

\* A sweep lets go of a hold only while the holder's key is gone, which the
\* holder's next good beat finds out.
LEMMA SweepRegained == ASSUME IInv, LossInv, NEW i \in Instance, Sweep(i) \/ KeyLapses(i)
                       PROVE  LossInv'
  <1>1. /\ UNCHANGED <<up, local, waiting, tail, step, owed, holdIssued, drain, lapse,
                       suspected, beat, astray>>
        /\ alive' \subseteq alive
    <2>1. UNCHANGED <<others, astray>> /\ alive' \subseteq alive
      BY DEF Sweep, KeyLapses, SweepSelects, SweepReleases, SweepReply, SweepDeregisters,
             SweepFails, ReleaseMember, Deregister, Lapse, storeVars, history
    <2> QED  BY <2>1 DEF others, membership, writes, runs, beating
  <1>2. Drained'  BY <1>1 DEF LossInv, Drained
  <1>3. \A j \in Instance : wire[j].op = "beat" => wire'[j] = wire[j]
    <2>1. UNCHANGED wire \/ wire[i].op # "beat"
      <3>1. Idle(i) => wire[i].op # "beat"  BY IdleWire DEF Idle
      <3>2. Sweep(i) => Idle(i) \/ wire[i].op = "sweep"
        BY DEF Sweep, SweepSelects, SweepReleases, SweepReply, SweepDeregisters, SweepFails
      <3>3. KeyLapses(i) => UNCHANGED wire  BY DEF KeyLapses
      <3> QED  BY <3>1, <3>2, <3>3
    <2>2. \A j \in Instance : j # i => wire'[j] = wire[j]
      BY DEF Sweep, KeyLapses, SweepSelects, SweepReleases, SweepReply, SweepDeregisters,
             SweepFails, IInv, WireType
    <2> QED  BY <2>1, <2>2
  <1>4. ASSUME NEW j \in Instance, NEW r \in Slot, j \in holders[r]
        PROVE  j \in holders'[r] \/ LapseDue(j)'
    <2>1. CASE UNCHANGED holders  BY <1>4, <2>1
    <2>2. ASSUME NEW s \in Slot, SweepReleases(i, s)
          PROVE  j \in holders'[r] \/ LapseDue(j)'
      <3> DEFINE dead == sweep[i].target
      <3>1. dead \in Instance /\ ReleaseMember(dead, s, TRUE)
        BY <2>2 DEF SweepReleases, IInv, Wired
      <3> HIDE DEF dead
      <3>2. CASE j \in holders[r] \ holders'[r]
        <4>1. dead = j /\ ~Refused(dead, TRUE)  BY <3>1, <3>2, ReleaseSpares DEF IInv
        <4> QED  BY <4>1, <1>1 DEF Refused, LapseDue
      <3> QED  BY <1>4, <3>2
    <2>3. CASE \/ \E dead \in Instance : SweepSelects(i, dead)
               \/ SweepReply(i) \/ SweepDeregisters(i) \/ SweepFails(i) \/ KeyLapses(i)
      BY <2>1, <2>3 DEF KeyLapses, SweepSelects, SweepReply, SweepDeregisters,
         SweepFails, Deregister, Lapse, storeVars
    <2> QED  BY <2>2, <2>3 DEF Sweep
  <1>5. ASSUME NEW j \in Instance, NEW r \in Slot PROVE Restored(j, r) => Restored(j, r)'
    <2>1. WriteDue(j, r) => WriteDue(j, r)'  BY <1>1, DueStaysDue
    <2>2. LapseDue(j) => LapseDue(j)'  BY <1>1, <1>3 DEF LapseDue
    <2> QED  BY <1>1, <2>1, <2>2 DEF Restored
  <1>6. \A j \in Instance, r \in Slot : Missing(j, r)' => Missing(j, r) \/ LapseDue(j)'
    BY <1>1, <1>4 DEF Missing
  <1> QED  BY <1>1, <1>2, <1>5, <1>6, FarRegained

\* What a late command lets go of counts as missing no more, unless its
\* holder's key is gone; and a renewal that hides a lapse leaves nothing
\* missing.
LEMMA LateRegained == ASSUME IInv, StoreConsistent, LossInv, NEW command \in adrift,
                             CarriedOutLate(command)
                      PROVE  LossInv'
  <1> DEFINE i == command.of
             s == command.slot
  <1>1. UNCHANGED <<up, local, waiting, tail, step, owed, holdIssued, drain, lapse,
                    suspected, beat, wire>>
    BY DEF CarriedOutLate, others, membership, writes, runs, beating
  <1>2. /\ i \in Instance
        /\ command.op \in {"hold", "release", "sweep"} => s \in Slot
    BY DEF IInv, HistoryType, Command
  <1>3. \/ HoldMember(i, s) /\ s \in Slot
        \/ /\ ReleaseMember(i, s, FALSE) /\ s \in Slot
           /\ astray' = [astray EXCEPT ![i] = @ \cup ({s} \cap owned[i])]
        \/ ReleaseMember(i, s, TRUE) /\ s \in Slot
        \/ /\ Renew(i)
           /\ i \notin alive => astray' = [astray EXCEPT ![i] = @ \cup (Slot \ owned[i])]
        \/ Register(i) \/ Deregister(i)
    BY <1>2 DEF CarriedOutLate
  <1>4. \A j \in Instance : astray[j] \subseteq astray'[j]
    BY <1>2 DEF CarriedOutLate, IInv, HistoryType
  <1> HIDE DEF i, s
  <1>5. \A j \in Instance, r \in Slot : j \in holders[r] <=> r \in owned[j]
    BY DEF StoreConsistent, HoldsAreSweepable
  <1>6. Drained'  BY <1>1 DEF LossInv, Drained
  <1>7. ASSUME NEW j \in Instance, NEW r \in Slot, Missing(j, r)', ~Missing(j, r)
        PROVE  LapseDue(j)'
    <2>1. j \in holders[r] /\ j \notin holders'[r] /\ r \notin astray'[j]
      BY <1>4, <1>7 DEF Missing
    <2>2. ~HoldMember(i, s) \/ s \notin Slot
      BY <2>1, <1>2 DEF HoldMember, IInv, StoreType
    <2>3. ~Renew(i) /\ ~Register(i) /\ ~Deregister(i)
      BY <2>1 DEF Renew, Register, Deregister
    <2>4. CASE ReleaseMember(i, s, FALSE) /\ s \in Slot
               /\ astray' = [astray EXCEPT ![i] = @ \cup ({s} \cap owned[i])]
      <3>1. i = j /\ s = r  BY <2>1, <2>4, <1>2, ReleaseSpares DEF IInv
      <3> QED  BY <2>1, <2>4, <3>1, <1>5 DEF IInv, HistoryType
    <2>5. CASE ReleaseMember(i, s, TRUE) /\ s \in Slot
      <3>1. i = j /\ ~Refused(i, TRUE)  BY <2>1, <2>5, <1>2, ReleaseSpares DEF IInv
      <3>2. UNCHANGED alive  BY <2>5 DEF ReleaseMember, storeVars
      <3> QED  BY <3>1, <3>2 DEF Refused, LapseDue
    <2> QED  BY <1>3, <2>2, <2>3, <2>4, <2>5
  <1>8. ASSUME NEW j \in Instance, NEW r \in Slot, Restored(j, r), Missing(j, r)'
        PROVE  Restored(j, r)'
    <2>1. WriteDue(j, r) => WriteDue(j, r)'  BY <1>1, DueStaysDue
    <2>2. CASE j \in alive' /\ j \notin alive
      <3>1. Renew(i) /\ j = i
        BY <2>2, <1>3 DEF HoldMember, ReleaseMember, Renew, Register, Deregister, storeVars
      <3>2. r \in astray'[j] \/ r \in owned[j]
        BY <2>2, <3>1, <1>3 DEF Renew, Register, Deregister, HoldMember, ReleaseMember,
                                 storeVars, IInv, HistoryType
      <3>3. UNCHANGED holders  BY <3>1 DEF Renew
      <3> QED  BY <1>8, <3>2, <3>3, <1>5 DEF Missing
    <2>3. CASE j \in alive' => j \in alive
      BY <1>1, <1>8, <2>1, <2>3 DEF Restored, LapseDue
    <2> QED  BY <2>2, <2>3
  <1> QED  BY <1>1, <1>6, <1>7, <1>8, FarRegained

LEMMA CrashRegained == ASSUME IInv, LossInv, NEW i \in Instance, Crash(i) PROVE LossInv'
  <1>1. /\ up' = up \ {i} /\ UNCHANGED <<holders, alive>>
        /\ \A j \in Instance : j # i => astray'[j] = astray[j]
        /\ local' = {c \in local : homeOf[c] # i}
        /\ waiting' = {job \in waiting : homeOf[job.conn] # i}
        /\ holdIssued' = holdIssued \ {i} /\ suspected' = suspected \ {i}
    BY DEF Crash, storeVars, IInv, HistoryType
  <1>2. /\ \A s \in Slot : tail'[i][s] = <<>>
        /\ owed'[i] = {} /\ drain'[i] = NoDrain
    BY DEF Crash, IInv, WritesType, DrainType
  <1>3. \A j \in Instance : j # i =>
           /\ tail'[j] = tail[j] /\ step'[j] = step[j] /\ owed'[j] = owed[j]
           /\ drain'[j] = drain[j] /\ lapse'[j] = lapse[j] /\ wire'[j] = wire[j]
           /\ beat'[j] = beat[j]
    BY DEF Crash, IInv, WritesType, DrainType, LapseType, WireType, BeatingType
  <1>4. Drained'
    <2>1. ASSUME NEW j \in Instance PROVE
            /\ drain'[j].left \subseteq owed'[j] /\ drain'[j].at \notin drain'[j].left
            /\ drain'[j].at # None => drain'[j].at \in owed'[j]
      <3>1. CASE j = i  BY <3>1, <1>2 DEF NoDrain
      <3>2. CASE j # i  BY <3>2, <1>3 DEF LossInv, Drained
      <3> QED  BY <3>1, <3>2
    <2>2. ASSUME NEW j \in Instance, NEW s \in Slot, NEW k \in 1..Len(tail'[j][s]),
                 tail'[j][s][k].kind = "drain"
          PROVE  /\ drain'[j].at = s
                 /\ \A m \in 1..Len(tail'[j][s]) : tail'[j][s][m].kind = "drain" => m = k
      <3>1. j # i  BY <2>2, <1>2
      <3> QED  BY <3>1, <2>2, <1>3 DEF LossInv, Drained
    <2> QED  BY <2>1, <2>2 DEF Drained
  <1>5. ASSUME NEW j \in Instance, NEW s \in Slot PROVE Regained(j, s)'
    <2>1. CASE j = i  BY <2>1, <1>1 DEF Regained
    <2>2. CASE j # i
      <3>1. Desired(j, s)' = Desired(j, s)  BY <2>2, <1>1 DEF Desired
      <3>2. WriteDue(j, s)' = WriteDue(j, s)  BY <2>2, <1>1, <1>3 DEF WriteDue
      <3>3. LapseDue(j)' = LapseDue(j)  BY <2>2, <1>1, <1>3 DEF LapseDue
      <3>4. Restored(j, s)' = Restored(j, s)  BY <2>2, <3>2, <3>3, <1>3 DEF Restored
      <3>5. Regained(j, s)  BY DEF LossInv
      <3> QED  BY <2>2, <3>1, <3>2, <3>4, <3>5, <1>1, <1>3 DEF Regained, Missing
    <2> QED  BY <2>1, <2>2
  <1> QED  BY <1>4, <1>5 DEF LossInv

\* A member who is here but not on the roster is about to be held: no lapse,
\* sweep, failure of a write or crash of another instance drops it for good,
\* unless a command given up was carried out late.
THEOREM NoMemberIsLost == RosterSafety => []NoLostMember
  <1>1. RosterInit => LossInv
    <2> SUFFICES ASSUME RosterInit PROVE LossInv  OBVIOUS
    <2>1. Drained
      <3>1. \A i \in Instance, s \in Slot : tail[i][s] = <<>>  BY DEF RosterInit
      <3>2. \A i \in Instance : drain[i].left = {} /\ drain[i].at = None
        BY DEF RosterInit, NoDrain
      <3>3. \A i \in Instance, s \in Slot : 1..Len(tail[i][s]) = {}
        BY <3>1, EmptySeq
      <3>4. \A i \in Instance : drain[i].left \subseteq owed[i] /\ drain[i].at \notin drain[i].left
        BY <3>2
      <3> QED  BY <3>2, <3>3, <3>4 DEF Drained
    <2>2. ASSUME NEW i \in Instance, NEW s \in Slot PROVE Regained(i, s)
      BY DEF RosterInit, Regained, Desired
    <2> QED  BY <2>1, <2>2 DEF LossInv
  <1>2. ASSUME IInv, StoreConsistent, Asleep, GhostInv, LossInv, [RosterNext]_vars
        PROVE  LossInv'
    <2>1. CASE UNCHANGED vars
      <3>1. UNCHANGED <<up, local, waiting, tail, step, owed, holders, holdIssued, drain,
                        lapse, suspected, beat, wire, alive, astray>>
        BY <2>1 DEF vars, storeVars, membership, writes, runs, beating, history
      <3>2. Drained'  BY <1>2, <3>1 DEF LossInv, Drained
      <3>3. \A i \in Instance, s \in Slot : Restored(i, s)' = Restored(i, s)
        BY <3>1 DEF Restored, WriteDue, LapseDue
      <3> QED  BY <1>2, <3>1, <3>2, <3>3, FarRegained DEF Missing
    <2>2. CASE \E c \in Conn : Join(c) \/ Leave(c)  BY <1>2, <2>2, CallRegained
    <2>3. CASE \E job \in waiting : Enqueue(job)  BY <1>2, <2>3, EnqueueRegained
    <2>4. CASE \E i \in Instance, s \in Slot : Write(i, s)
      BY <1>2, <2>4, StartRegained, BootedRegained, SendRegained, SettleRegained DEF Write
    <2>5. CASE \E i \in Instance : Beat(i) \/ Recover(i)
      BY <1>2, <2>5, PulseRegained, BeatEndsRegained, LapseRegained, DrainEndsRegained,
         RunRegained DEF Beat, Recover
    <2>6. CASE \E i \in Instance : Sweep(i) \/ KeyLapses(i) \/ Crash(i)
      BY <1>2, <2>6, SweepRegained, CrashRegained
    <2>7. CASE \E command \in adrift : CarriedOutLate(command)
      BY <1>2, <2>7, LateRegained
    <2> QED  BY <1>2, <2>1, <2>2, <2>3, <2>4, <2>5, <2>6, <2>7 DEF RosterNext
  <1>3. IInv /\ LossInv => NoLostMember
    <2> SUFFICES ASSUME IInv, LossInv, NEW i \in up, NEW s \in Slot,
                        Desired(i, s), i \notin holders[s]
                 PROVE  \/ Restored(i, s) \/ step[i][s] \in {"boot", "hold"}
                        \/ s \in owed[i] \cup astray[i]
      BY DEF NoLostMember, Restored
    <2>1. i \in Instance  BY DEF IInv, MembershipType
    <2> QED  BY <2>1 DEF LossInv, Regained, Missing
  <1> QED
    BY <1>1, <1>2, <1>3, Typed, RosterStaysConsistent, FirstBeat, Accountable, PTL
       DEF RosterSafety
-----------------------------------------------------------------------------
(* Announced once.  A transition is in one place only: on the wire of the  *)
(* instance whose script made it, announced from the reply, or lost.       *)

Coming(reply, s) == IF reply.slot = s THEN Change(reply.reply) ELSE 0

Up(s) == {i \in Instance : Coming(wire[i], s) = 1}
Down(s) == {i \in Instance : Coming(wire[i], s) = -1}
Net(s) == Cardinality(Up(s)) - Cardinality(Down(s))

Held(s) == IF holders[s] = {} THEN 0 ELSE 1

Balanced(s) == announced[s] + lost[s] + Net(s) = Held(s)

LEMMA ComingIs == \A reply, s : Coming(reply, s) \in {-1, 0, 1}
  BY DEF Coming, Change

LEMMA QuietComes == \A s : Coming(Quiet, s) = 0
  BY DEF Coming, Change, Quiet

\* Two sets that differ in one element at most.
LEMMA CountsDiffer ==
    ASSUME NEW A, NEW B, NEW x, IsFiniteSet(A), IsFiniteSet(B), A \ {x} = B \ {x}
    PROVE  /\ Cardinality(A) \in Nat /\ Cardinality(B) \in Nat
           /\ Cardinality(B) + (IF x \in A THEN 1 ELSE 0)
                = Cardinality(A) + (IF x \in B THEN 1 ELSE 0)
  <1> DEFINE C == A \ {x}
  <1>1. IsFiniteSet(C) /\ Cardinality(C) \in Nat
    BY FS_RemoveElement, FS_CardinalityType
  <1>2. ASSUME NEW D, IsFiniteSet(D), D \ {x} = C
        PROVE  Cardinality(D) = Cardinality(C) + (IF x \in D THEN 1 ELSE 0)
    <2>1. CASE x \in D
      <3>1. D = C \cup {x} /\ x \notin C  BY <1>2, <2>1
      <3> HIDE DEF C
      <3>2. Cardinality(C \cup {x}) = Cardinality(C) + 1  BY <1>1, <3>1, FS_AddElement
      <3> QED  BY <2>1, <3>1, <3>2
    <2>2. CASE x \notin D
      <3>1. D = C  BY <1>2, <2>2
      <3> QED  BY <1>1, <2>2, <3>1
    <2> QED  BY <2>1, <2>2
  <1>3. Cardinality(A) = Cardinality(C) + (IF x \in A THEN 1 ELSE 0)  BY <1>2
  <1>4. Cardinality(B) = Cardinality(C) + (IF x \in B THEN 1 ELSE 0)  BY <1>2
  <1>5. Cardinality(A) \in Nat /\ Cardinality(B) \in Nat  BY FS_CardinalityType
  <1> HIDE DEF C
  <1> QED  BY <1>1, <1>3, <1>4, <1>5

\* What one instance's wire adds to the count, and takes from it.
LEMMA NetMoves ==
    ASSUME NEW i \in Instance, NEW s \in Slot,
           \A j \in Instance : j # i => wire'[j] = wire[j]
    PROVE  /\ Net(s) \in Int /\ Net(s)' \in Int
           /\ Net(s)' = Net(s) + Coming(wire'[i], s) - Coming(wire[i], s)
  <1> DEFINE old == Coming(wire[i], s)
             new == Coming(wire'[i], s)
  <1>1. old \in {-1, 0, 1} /\ new \in {-1, 0, 1}  BY ComingIs
  <1>2. /\ IsFiniteSet(Up(s)) /\ IsFiniteSet(Down(s))
        /\ IsFiniteSet(Up(s)') /\ IsFiniteSet(Down(s)')
    BY RosterAssumption, FS_Subset DEF Up, Down
  <1>3. /\ Up(s) \ {i} = Up(s)' \ {i} /\ Down(s) \ {i} = Down(s)' \ {i}
        /\ i \in Up(s) <=> old = 1
        /\ i \in Up(s)' <=> new = 1
        /\ i \in Down(s) <=> old = -1
        /\ i \in Down(s)' <=> new = -1
    BY DEF Up, Down
  <1>4. /\ Cardinality(Up(s)) \in Nat /\ Cardinality(Up(s)') \in Nat
        /\ Cardinality(Up(s)') + (IF i \in Up(s) THEN 1 ELSE 0)
             = Cardinality(Up(s)) + (IF i \in Up(s)' THEN 1 ELSE 0)
    BY <1>2, <1>3, CountsDiffer
  <1>5. /\ Cardinality(Down(s)) \in Nat /\ Cardinality(Down(s)') \in Nat
        /\ Cardinality(Down(s)') + (IF i \in Down(s) THEN 1 ELSE 0)
             = Cardinality(Down(s)) + (IF i \in Down(s)' THEN 1 ELSE 0)
    BY <1>2, <1>3, CountsDiffer
  <1> HIDE DEF old, new
  <1>6. Net(s)' = Net(s) + new - old
    BY <1>1, <1>3, <1>4, <1>5 DEF Net
  <1>7. Net(s) \in Int /\ Net(s)' \in Int  BY <1>4, <1>5 DEF Net
  <1> QED  BY <1>6, <1>7 DEF old, new

\* What a script replies is what it did to the slot.
Told(reply, r, s) == IF s = r THEN Change(reply) ELSE 0

LEMMA HoldTells ==
    ASSUME StoreType, NEW d \in Instance, NEW r \in Slot, HoldMember(d, r), NEW s \in Slot
    PROVE  Held(s)' = Held(s) + Told(HoldReply(d, r), r, s)
  <1>1. holders' = [holders EXCEPT ![r] = @ \cup {d}]  BY DEF HoldMember
  <1>2. CASE s # r
    <2>1. holders'[s] = holders[s]  BY <1>1, <1>2 DEF StoreType
    <2> QED  BY <1>2, <2>1 DEF Held, Told
  <1>3. CASE s = r
    <2>1. holders'[s] # {}  BY <1>1, <1>3 DEF StoreType
    <2>2. Told(HoldReply(d, r), r, s) = IF holders[s] = {} THEN 1 ELSE 0
      BY <1>3 DEF Told, Change, HoldReply
    <2> QED  BY <2>1, <2>2 DEF Held
  <1> QED  BY <1>2, <1>3

LEMMA ReleaseTells ==
    ASSUME StoreType, NEW d \in Instance, NEW r \in Slot, NEW onBehalf \in BOOLEAN,
           ReleaseMember(d, r, onBehalf), NEW s \in Slot
    PROVE  Held(s)' = Held(s) + Told(ReleaseReply(d, r, onBehalf), r, s)
  <1> DEFINE told == Told(ReleaseReply(d, r, onBehalf), r, s)
  <1>1. CASE Refused(d, onBehalf)
    <2>1. UNCHANGED holders  BY <1>1 DEF ReleaseMember, storeVars
    <2>2. ReleaseReply(d, r, onBehalf) = "refused"  BY <1>1 DEF ReleaseReply
    <2>3. told = 0  BY <2>2 DEF Told, Change
    <2> QED  BY <2>1, <2>3 DEF Held
  <1>2. CASE ~Refused(d, onBehalf)
    <2>1. holders' = [holders EXCEPT ![r] = @ \ {d}]  BY <1>2 DEF ReleaseMember
    <2>2. CASE s # r
      <3>1. holders'[s] = holders[s]  BY <2>1, <2>2 DEF StoreType
      <3> QED  BY <2>2, <3>1 DEF Held, Told
    <2>3. CASE s = r
      <3>1. holders'[s] = holders[s] \ {d}  BY <2>1, <2>3 DEF StoreType
      <3>2. ReleaseReply(d, r, onBehalf) =
              IF d \notin holders[s] THEN "absent"
              ELSE IF holders[s] = {d} THEN "emptied" ELSE "kept"
        BY <1>2, <2>3 DEF ReleaseReply
      <3>3. told = IF holders[s] = {d} THEN -1 ELSE 0
        BY <2>3, <3>2 DEF Told, Change
      <3>4. /\ holders[s] = {d} => holders'[s] = {}
            /\ holders[s] # {d} => (holders'[s] = {} <=> holders[s] = {})
        BY <3>1
      <3>5. Held(s)' = Held(s) + (IF holders[s] = {d} THEN -1 ELSE 0)
        BY <3>4 DEF Held
      <3> QED  BY <3>3, <3>5
    <2> QED  BY <2>2, <2>3
  <1> QED  BY <1>1, <1>2

\* The reply goes on the wire of the instance that waits for it.
LEMMA ReplyTells ==
    ASSUME IInv, NEW d \in Instance, NEW r \in Slot, NEW i \in Instance,
           wire[i] = Quiet, NEW op,
           \/ /\ HoldMember(d, r)
              /\ wire' = [wire EXCEPT ![i] = [op |-> op, slot |-> r, reply |-> HoldReply(d, r)]]
           \/ \E onBehalf \in BOOLEAN :
                /\ ReleaseMember(d, r, onBehalf)
                /\ wire' = [wire EXCEPT ![i] = [op |-> op, slot |-> r,
                                                reply |-> ReleaseReply(d, r, onBehalf)]],
           UNCHANGED <<announced, lost>>,
           \A s \in Slot : Balanced(s)
    PROVE  \A s \in Slot : Balanced(s)'
  <1> SUFFICES ASSUME NEW s \in Slot PROVE Balanced(s)'  OBVIOUS
  <1>1. \A j \in Instance : j # i => wire'[j] = wire[j]  BY DEF IInv, WireType
  <1>2. Coming(wire[i], s) = 0  BY QuietComes
  <1>3. Held(s)' = Held(s) + Coming(wire'[i], s)
    <2>0. StoreType  BY DEF IInv
    <2>1. CASE HoldMember(d, r) /\ wire'[i] = [op |-> op, slot |-> r, reply |-> HoldReply(d, r)]
      <3>1. Coming(wire'[i], s) = Told(HoldReply(d, r), r, s)
        BY <2>1 DEF Coming, Told
      <3> QED  BY <2>0, <2>1, <3>1, HoldTells
    <2>2. ASSUME NEW onBehalf \in BOOLEAN, ReleaseMember(d, r, onBehalf),
                 wire'[i] = [op |-> op, slot |-> r, reply |-> ReleaseReply(d, r, onBehalf)]
          PROVE  Held(s)' = Held(s) + Coming(wire'[i], s)
      <3>1. Coming(wire'[i], s) = Told(ReleaseReply(d, r, onBehalf), r, s)
        BY <2>2 DEF Coming, Told
      <3> QED  BY <2>0, <2>2, <3>1, ReleaseTells
    <2> QED  BY <2>1, <2>2 DEF IInv, WireType
  <1>4. Net(s) \in Int /\ Net(s)' = Net(s) + Coming(wire'[i], s) - Coming(wire[i], s)
    BY <1>1, NetMoves
  <1>5. Coming(wire'[i], s) \in Int /\ announced[s] \in Int /\ lost[s] \in Int
    BY ComingIs DEF IInv, HistoryType
  <1>6. announced'[s] + lost'[s] + Net(s)' = Held(s)'
    BY <1>2, <1>3, <1>4, <1>5 DEF Balanced
  <1> QED  BY <1>6 DEF Balanced

\* The reply of a command carried out late has no reader.
LEMMA LateTells ==
    ASSUME IInv, NEW command \in adrift, CarriedOutLate(command),
           \A s \in Slot : Balanced(s)
    PROVE  \A s \in Slot : Balanced(s)'
  <1> SUFFICES ASSUME NEW s \in Slot PROVE Balanced(s)'  OBVIOUS
  <1> DEFINE d == command.of
             r == command.slot
  <1>1. UNCHANGED <<wire, announced>>  BY DEF CarriedOutLate
  <1>2. /\ d \in Instance
        /\ command.op \in {"hold", "release", "sweep"} => r \in Slot
    BY DEF IInv, HistoryType, Command
  <1>3. \/ /\ r \in Slot /\ HoldMember(d, r)
           /\ lost' = [lost EXCEPT ![r] = @ + Change(HoldReply(d, r))]
        \/ \E onBehalf \in BOOLEAN :
             /\ r \in Slot /\ ReleaseMember(d, r, onBehalf)
             /\ lost' = [lost EXCEPT ![r] = @ + Change(ReleaseReply(d, r, onBehalf))]
        \/ UNCHANGED <<holders, lost>>
    BY <1>2 DEF CarriedOutLate, Renew, Register, Deregister
  <1> HIDE DEF d, r
  <1>4. StoreType /\ lost \in [Slot -> Int] /\ announced[s] \in Int
    BY DEF IInv, HistoryType
  <1>5. PICK n \in Int : lost'[s] = lost[s] + n /\ Held(s)' = Held(s) + n
    <2>1. ASSUME NEW reply, r \in Slot, lost' = [lost EXCEPT ![r] = @ + Change(reply)],
                 Held(s)' = Held(s) + Told(reply, r, s)
          PROVE  \E n \in Int : lost'[s] = lost[s] + n /\ Held(s)' = Held(s) + n
      <3>1. Told(reply, r, s) \in Int  BY ChangeIsInt DEF Told
      <3>2. lost'[s] = lost[s] + Told(reply, r, s)  BY <1>4, <2>1 DEF Told
      <3> QED  BY <2>1, <3>1, <3>2
    <2>2. CASE r \in Slot /\ HoldMember(d, r)
               /\ lost' = [lost EXCEPT ![r] = @ + Change(HoldReply(d, r))]
      <3>1. Held(s)' = Held(s) + Told(HoldReply(d, r), r, s)  BY <1>2, <1>4, <2>2, HoldTells
      <3> QED  BY <2>1, <2>2, <3>1
    <2>3. ASSUME NEW onBehalf \in BOOLEAN, r \in Slot, ReleaseMember(d, r, onBehalf),
                 lost' = [lost EXCEPT ![r] = @ + Change(ReleaseReply(d, r, onBehalf))]
          PROVE  \E n \in Int : lost'[s] = lost[s] + n /\ Held(s)' = Held(s) + n
      <3>1. Held(s)' = Held(s) + Told(ReleaseReply(d, r, onBehalf), r, s)
        BY <1>2, <1>4, <2>3, ReleaseTells
      <3> QED  BY <2>1, <2>3, <3>1
    <2>4. CASE UNCHANGED <<holders, lost>>
      <3>1. lost'[s] = lost[s] + 0 /\ Held(s)' = Held(s) + 0
        BY <1>4, <2>4 DEF Held
      <3> QED  BY <3>1
    <2> QED  BY <1>3, <2>2, <2>3, <2>4
  <1>6. Net(s)' = Net(s) /\ Net(s) \in Int
    <2>1. Net(s) \in Int  BY <1>1, <1>2, NetMoves
    <2>2. Net(s)' = Net(s)  BY <1>1 DEF Net, Up, Down
    <2> QED  BY <2>1, <2>2
  <1>7. lost[s] \in Int /\ Held(s) \in Int  BY <1>4 DEF Held
  <1> QED  BY <1>1, <1>4, <1>5, <1>6, <1>7 DEF Balanced

\* A reply that is read is announced, one that is not is lost.
LEMMA ReplyEnds ==
    ASSUME IInv, NEW i \in Instance, wire' = [wire EXCEPT ![i] = Quiet],
           UNCHANGED holders,
           \/ Announce(i) /\ UNCHANGED lost
           \/ Lose(i) /\ UNCHANGED announced
           \/ UNCHANGED <<announced, lost>> /\ \A s \in Slot : Coming(wire[i], s) = 0,
           \A s \in Slot : Balanced(s)
    PROVE  \A s \in Slot : Balanced(s)'
  <1> SUFFICES ASSUME NEW s \in Slot PROVE Balanced(s)'  OBVIOUS
  <1>1. \A j \in Instance : j # i => wire'[j] = wire[j]  BY DEF IInv, WireType
  <1>2. Coming(wire'[i], s) = 0  BY QuietComes DEF IInv, WireType
  <1>3. Net(s) \in Int /\ Net(s)' = Net(s) + Coming(wire'[i], s) - Coming(wire[i], s)
    BY <1>1, NetMoves
  <1>4. Coming(wire[i], s) \in Int /\ announced[s] \in Int /\ lost[s] \in Int
    BY ComingIs DEF IInv, HistoryType
  <1>5. Held(s)' = Held(s)  BY DEF Held
  <1>6. announced'[s] + lost'[s] = announced[s] + lost[s] + Coming(wire[i], s)
    <2>1. CASE Announce(i) /\ UNCHANGED lost
      BY <1>4, <2>1 DEF Announce, Coming
    <2>2. CASE Lose(i) /\ UNCHANGED announced
      BY <1>4, <2>2 DEF Lose, Coming
    <2>3. CASE UNCHANGED <<announced, lost>> /\ \A r \in Slot : Coming(wire[i], r) = 0
      BY <1>4, <2>3
    <2> QED  BY <2>1, <2>2, <2>3
  <1>7. announced'[s] \in Int /\ lost'[s] \in Int
    <2>1. \A n \in Int : n + (IF s = wire[i].slot THEN Change(wire[i].reply) ELSE 0) \in Int
      BY ChangeIsInt
    <2> QED  BY <1>4, <2>1 DEF Announce, Lose
  <1>8. announced'[s] + lost'[s] + Net(s)' = Held(s)'
    BY <1>2, <1>3, <1>4, <1>5, <1>6, <1>7 DEF Balanced
  <1> QED  BY <1>8 DEF Balanced

\* Every transition of a slot is announced once, by the write that made it,
\* also when two instances sweep the same dead one, or lost with its reply.
THEOREM TransitionsAnnouncedOnce == RosterSafety => []AnnouncedOnce
  <1> DEFINE Inv == \A s \in Slot : Balanced(s)
  <1>1. RosterInit => Inv
    <2> SUFFICES ASSUME RosterInit, NEW s \in Slot PROVE Balanced(s)  OBVIOUS
    <2>1. \A i \in Instance : Coming(wire[i], s) = 0  BY QuietComes DEF RosterInit
    <2>2. Up(s) = {} /\ Down(s) = {}  BY <2>1 DEF Up, Down
    <2>3. Net(s) = 0  BY <2>2, FS_EmptySet DEF Net
    <2> QED  BY <2>3 DEF RosterInit, StoreInit, Balanced, Held
  <1>2. ASSUME IInv, Inv, [RosterNext]_vars PROVE Inv'
    <2>1. ASSUME UNCHANGED <<wire, holders, announced, lost>> PROVE Inv'
      BY <1>2, <2>1 DEF Balanced, Net, Up, Down, Held
    <2>2. CASE UNCHANGED vars \/ \E c \in Conn : Join(c) \/ Leave(c)
      BY <2>1, <2>2 DEF vars, Join, Leave, storeVars, history
    <2>3. CASE \E job \in waiting : Enqueue(job)
      BY <2>1, <2>3 DEF Enqueue, storeVars, history
    <2>4. ASSUME NEW i \in Instance, NEW s \in Slot, Write(i, s) PROVE Inv'
      <3>1. CASE StartWrite(i, s) \/ Booted(i, s)
        BY <2>1, <3>1 DEF StartWrite, Booted, storeVars, history
      <3>2. CASE SendWrite(i, s)
        <4>1. wire[i] = Quiet /\ UNCHANGED <<announced, lost>>
          BY <3>2 DEF SendWrite, Idle, history
        <4>2. \/ /\ HoldMember(i, s)
                 /\ wire' = [wire EXCEPT ![i] = [op |-> "write", slot |-> s,
                                                 reply |-> HoldReply(i, s)]]
              \/ \E onBehalf \in BOOLEAN :
                   /\ ReleaseMember(i, s, onBehalf)
                   /\ wire' = [wire EXCEPT ![i] = [op |-> "write", slot |-> s,
                                                   reply |-> ReleaseReply(i, s, onBehalf)]]
          BY <3>2 DEF SendWrite
        <4> QED  BY <1>2, <4>1, <4>2, ReplyTells
      <3>3. CASE WriteReply(i, s)
        BY <1>2, <3>3, ReplyEnds DEF WriteReply, storeVars
      <3>4. CASE WriteFails(i, s)
        BY <1>2, <3>4, ReplyEnds DEF WriteFails, storeVars
      <3> QED  BY <2>4, <3>1, <3>2, <3>3, <3>4 DEF Write
    <2>5. ASSUME NEW i \in Instance, Beat(i) PROVE Inv'
      <3>1. CASE SendBeat(i)
        <4>1. /\ \A j \in Instance : j # i => wire'[j] = wire[j]
              /\ wire[i] = Quiet /\ wire'[i].slot = None
              /\ UNCHANGED <<holders, announced, lost>>
          BY <1>2, <3>1 DEF SendBeat, Idle, Renew, history, IInv, WireType
        <4>2. ASSUME NEW s \in Slot PROVE Balanced(s)'
          <5>1. Coming(wire'[i], s) = 0 /\ Coming(wire[i], s) = 0
            BY <4>1, QuietComes, RosterAssumption DEF Coming
          <5>2. Net(s) \in Int /\ Net(s)' = Net(s) + Coming(wire'[i], s) - Coming(wire[i], s)
            BY <4>1, NetMoves
          <5>3. Net(s)' = Net(s)  BY <5>1, <5>2
          <5> QED  BY <1>2, <4>1, <5>3 DEF Balanced, Held
        <4> QED  BY <4>2
      <3>2. CASE BeatReply(i) \/ BeatFails(i)
        <4>1. /\ wire' = [wire EXCEPT ![i] = Quiet] /\ UNCHANGED <<holders, announced, lost>>
              /\ wire[i] = Quiet \/ wire[i].reply \in {"continuous", "lapsed"}
          BY <1>2, <3>2 DEF BeatReply, BeatFails, Idle, storeVars, history, IInv, Wired
        <4>2. \A s \in Slot : Coming(wire[i], s) = 0
          BY <4>1, QuietComes DEF Coming, Change
        <4> QED  BY <1>2, <4>1, <4>2, ReplyEnds
      <3>3. CASE BeatEnds(i)
        BY <2>1, <3>3 DEF BeatEnds, Register, storeVars, history
      <3> QED  BY <2>5, <3>1, <3>2, <3>3 DEF Beat
    <2>6. ASSUME NEW i \in Instance, Recover(i) \/ KeyLapses(i) PROVE Inv'
      BY <2>1, <2>6 DEF Recover, LapseSnapshot, LapseWrites, DrainWrites, LapseEnds,
         DrainEnds, KeyLapses, Lapse, storeVars, history
    <2>7. ASSUME NEW i \in Instance, Sweep(i) PROVE Inv'
      <3>1. ASSUME NEW s \in Slot, SweepReleases(i, s) PROVE Inv'
        <4> DEFINE dead == sweep[i].target
        <4>1. /\ dead \in Instance /\ wire[i] = Quiet /\ UNCHANGED <<announced, lost>>
              /\ ReleaseMember(dead, s, TRUE)
              /\ wire' = [wire EXCEPT ![i] = [op |-> "sweep", slot |-> s,
                                              reply |-> ReleaseReply(dead, s, TRUE)]]
          BY <1>2, <3>1 DEF SweepReleases, Idle, history, IInv, Wired
        <4> HIDE DEF dead
        <4>2. \E onBehalf \in BOOLEAN :
                /\ ReleaseMember(dead, s, onBehalf)
                /\ wire' = [wire EXCEPT ![i] = [op |-> "sweep", slot |-> s,
                                                reply |-> ReleaseReply(dead, s, onBehalf)]]
          BY <4>1
        <4> QED  BY <1>2, <4>1, <4>2, ReplyTells
      <3>2. CASE SweepReply(i)  BY <1>2, <3>2, ReplyEnds DEF SweepReply, storeVars
      <3>3. CASE SweepFails(i)  BY <1>2, <3>3, ReplyEnds DEF SweepFails, storeVars
      <3>4. CASE (\E dead \in Instance : SweepSelects(i, dead)) \/ SweepDeregisters(i)
        BY <2>1, <3>4 DEF SweepSelects, SweepDeregisters, Deregister, storeVars, history
      <3> QED  BY <2>7, <3>1, <3>2, <3>3, <3>4 DEF Sweep
    <2>8. ASSUME NEW i \in Instance, Crash(i) PROVE Inv'
      BY <1>2, <2>8, ReplyEnds DEF Crash, storeVars
    <2>9. ASSUME NEW command \in adrift, CarriedOutLate(command) PROVE Inv'
      BY <1>2, <2>9, LateTells
    <2> QED  BY <1>2, <2>2, <2>3, <2>4, <2>5, <2>6, <2>7, <2>8, <2>9 DEF RosterNext
  <1>3. Inv => AnnouncedOnce
    BY DEF AnnouncedOnce, Balanced, Net, Up, Down, Held, Coming
  <1> QED  BY <1>1, <1>2, <1>3, Typed, PTL DEF RosterSafety
-----------------------------------------------------------------------------
(* The shared reads of a roster, for any callers, ids and cap.             *)

\* What is fetched is what the batch held, and a rider's member is in its batch.
Riders == /\ \A n \in 1..Issued : fetched[n] = batches[n]
          /\ \A c \in Caller : ride[c] # 0 => Self(c) \subseteq batches[ride[c]]

\* The index names queued batches only, and the right ones.
Indexed == \A id \in Id : pending[id] # 0 =>
                /\ pending[id] \in Queued
                /\ id \in batches[pending[id]]

\* No batch passes the cap.
Sizes == \A n \in 1..Opened : /\ IsFiniteSet(batches[n])
                              /\ Cardinality(batches[n]) <= MaxSelfIds

\* Without a slot nothing is queued.
Retired == ~slot => Issued = Opened

ReadsInv == TypeOK /\ Riders /\ Indexed /\ Sizes /\ Retired /\ Fresh /\ NoReadTooMany

USE DEF Issued, Opened, Queued

\* A caller's own ids: none or one.
LEMMA SelfIds == ASSUME NEW c \in Caller
                 PROVE  /\ Self(c) \subseteq Id
                        /\ selfOf[c] = NoId => Self(c) = {}
                        /\ selfOf[c] # NoId => selfOf[c] \in Id /\ Self(c) = {selfOf[c]}
  BY BarrierAssumption DEF Self

\* Adding a caller's ids to a batch with room, or to a new one, keeps the cap.
LEMMA Grown == ASSUME NEW c \in Caller, NEW B, IsFiniteSet(B),
                      Cardinality(B) < MaxSelfIds \/ Self(c) \subseteq B,
                      Cardinality(B) <= MaxSelfIds
               PROVE  IsFiniteSet(B \cup Self(c)) /\ Cardinality(B \cup Self(c)) <= MaxSelfIds
  <1>1. CASE Self(c) \subseteq B
    <2>1. B \cup Self(c) = B  BY <1>1
    <2> QED  BY <2>1
  <1>2. CASE ~(Self(c) \subseteq B)
    <2>1. selfOf[c] # NoId /\ Self(c) = {selfOf[c]}  BY <1>2, SelfIds
    <2>2. Cardinality(B) < MaxSelfIds  BY <1>2
    <2>3. /\ IsFiniteSet(B \cup {selfOf[c]})
          /\ \/ Cardinality(B \cup {selfOf[c]}) = Cardinality(B)
             \/ Cardinality(B \cup {selfOf[c]}) = Cardinality(B) + 1
      BY FS_AddElement
    <2>4. Cardinality(B) \in Nat  BY FS_CardinalityType
    <2>5. Cardinality(B \cup {selfOf[c]}) <= MaxSelfIds
      BY <2>2, <2>3, <2>4, BarrierAssumption
    <2> QED  BY <2>1, <2>3, <2>5
  <1> QED  BY <1>1, <1>2

LEMMA SelfFits == ASSUME NEW c \in Caller
                  PROVE  IsFiniteSet(Self(c)) /\ Cardinality(Self(c)) <= MaxSelfIds
  <1>1. IsFiniteSet({}) /\ Cardinality({}) = 0  BY FS_EmptySet
  <1>2. 0 < MaxSelfIds  BY BarrierAssumption
  <1>3. {} \cup Self(c) = Self(c)  OBVIOUS
  <1> QED  BY <1>1, <1>2, <1>3, Grown, BarrierAssumption

-----------------------------------------------------------------------------
LEMMA InitReadsInv == ReadsInit => ReadsInv
  <1> SUFFICES ASSUME ReadsInit PROVE ReadsInv  OBVIOUS
  <1> USE DEF ReadsInit
  <1>0. batches \in Seq(SUBSET Id) /\ fetched \in Seq(SUBSET Id)
    BY EmptySeq
  <1>a. Len(batches) = 0 /\ Len(fetched) = 0  OBVIOUS
  <1>b. pending \in [Id -> 0..0] /\ ride \in [Caller -> 0..0]  OBVIOUS
  <1>c. askedAt \in [Caller -> Nat]  OBVIOUS
  <1>1. TypeOK
    <2>1. slot \in BOOLEAN  OBVIOUS
    <2>2. Issued <= Opened  BY <1>a
    <2>3. pending \in [Id -> 0..Opened] /\ ride \in [Caller -> 0..Opened]
      BY <1>a, <1>b
    <2> HIDE DEF ReadsInit, Issued, Opened
    <2> QED  BY <1>0, <1>c, <2>1, <2>2, <2>3 DEF TypeOK
  <1>2. Riders /\ Indexed /\ Sizes  BY DEF Riders, Indexed, Sizes
  <1>3. Retired /\ Fresh /\ NoReadTooMany  BY DEF Retired, Fresh, NoReadTooMany
  <1> QED  BY <1>1, <1>2, <1>3 DEF ReadsInv

LEMMA FirstKeeps == ASSUME ReadsInv, NEW c \in Caller, AskFirst(c) PROVE ReadsInv'
  <1> USE DEF AskFirst
  <1>0. TypeOK /\ Issued = Opened /\ Self(c) \subseteq Id
    BY SelfIds DEF ReadsInv, Retired
  <1>1. /\ batches' = Append(batches, Self(c)) /\ fetched' = Append(fetched, Self(c))
        /\ Len(batches') = Len(batches) + 1 /\ Len(fetched') = Len(fetched) + 1
        /\ \A n \in 1..Len(batches) : batches'[n] = batches[n] /\ fetched'[n] = fetched[n]
        /\ batches'[Len(batches) + 1] = Self(c) /\ fetched'[Len(batches) + 1] = Self(c)
    BY <1>0 DEF TypeOK
  <1>2. TypeOK'
    <2>1. batches' \in Seq(SUBSET Id) /\ fetched' \in Seq(SUBSET Id)
      BY <1>0, <1>1 DEF TypeOK
    <2> QED  BY <1>0, <1>1, <2>1 DEF TypeOK
  <1>3. Riders'
    BY <1>0, <1>1, SelfIds DEF ReadsInv, Riders, TypeOK, Self
  <1>4. Indexed'
    BY <1>0, <1>1 DEF ReadsInv, Indexed, TypeOK
  <1>5. Sizes'
    BY <1>0, <1>1, SelfFits DEF ReadsInv, Sizes, TypeOK
  <1>6. Retired' /\ Fresh' /\ NoReadTooMany'
    BY <1>0, <1>1 DEF ReadsInv, Retired, Fresh, NoReadTooMany, TypeOK
  <1> QED  BY <1>2, <1>3, <1>4, <1>5, <1>6 DEF ReadsInv

\* Which batch a caller gets: a queued one that holds its id or has room, or
\* the next one, when the newest queued one is full.
LEMMA BatchForIs ==
    ASSUME ReadsInv, NEW c \in Caller
    PROVE  LET n == BatchFor(c)
           IN /\ n \in Queued \cup {Opened + 1}
              /\ n \in Queued => \/ Self(c) \subseteq batches[n]
                                 \/ Cardinality(batches[n]) < MaxSelfIds
              /\ n = Opened + 1 /\ Queued # {} =>
                    Cardinality(batches[Opened]) >= MaxSelfIds
  <1>1. CASE selfOf[c] = NoId
    BY <1>1, SelfIds DEF BatchFor, ReadsInv, TypeOK
  <1>2. CASE selfOf[c] # NoId /\ pending[selfOf[c]] # 0
    BY <1>2, SelfIds DEF BatchFor, ReadsInv, TypeOK, Indexed
  <1>3. CASE selfOf[c] # NoId /\ pending[selfOf[c]] = 0
    <2>1. Queued # {} => Opened \in Queued /\ Cardinality(batches[Opened]) \in Nat
      BY FS_CardinalityType DEF ReadsInv, TypeOK, Sizes
    <2> QED  BY <1>3, <2>1, SelfIds, BarrierAssumption DEF BatchFor, ReadsInv, TypeOK
  <1> QED  BY <1>1, <1>2, <1>3

LEMMA QueuedKeeps == ASSUME ReadsInv, NEW c \in Caller, AskQueued(c) PROVE ReadsInv'
  <1> DEFINE n == BatchFor(c)
  <1>0. TypeOK /\ Self(c) \subseteq Id  BY SelfIds DEF ReadsInv
  <1>1. /\ n \in Queued \cup {Opened + 1}
        /\ n \in Queued => \/ Self(c) \subseteq batches[n]
                           \/ Cardinality(batches[n]) < MaxSelfIds
        /\ n = Opened + 1 /\ Queued # {} => Cardinality(batches[Opened]) >= MaxSelfIds
    BY BatchForIs
  <1>2. /\ ride[c] = 0 /\ slot
        /\ batches' = IF n > Opened THEN Append(batches, Self(c))
                      ELSE [batches EXCEPT ![n] = @ \cup Self(c)]
        /\ pending' = [id \in Id |-> IF id \in Self(c) THEN n ELSE pending[id]]
        /\ ride' = [ride EXCEPT ![c] = n]
        /\ askedAt' = [askedAt EXCEPT ![c] = Issued]
        /\ UNCHANGED <<slot, fetched>>
    BY DEF AskQueued
  <1> HIDE DEF n
  <1>a. Issued \in Nat /\ Opened \in Nat /\ Issued <= Opened /\ n \in Nat /\ n > Issued
    BY <1>0, <1>1 DEF TypeOK
  <1>3. \/ /\ n = Opened + 1 /\ Len(batches') = Len(batches) + 1
           /\ batches'[n] = Self(c)
        \/ /\ n \in Queued /\ Len(batches') = Len(batches)
           /\ batches'[n] = batches[n] \cup Self(c)
    BY <1>0, <1>1, <1>2, <1>a DEF TypeOK
  <1>4. \A k \in 1..Opened : k # n => batches'[k] = batches[k]
    BY <1>0, <1>1, <1>2, <1>a DEF TypeOK
  <1>5. TypeOK'
    <2>1. batches' \in Seq(SUBSET Id)
      <3>1. CASE n > Opened  BY <3>1, <1>0, <1>2 DEF TypeOK
      <3>2. CASE ~(n > Opened)
        <4>1. batches[n] \cup Self(c) \in SUBSET Id  BY <3>2, <1>0, <1>a DEF TypeOK
        <4> QED  BY <3>2, <4>1, <1>0, <1>2, <1>a DEF TypeOK
      <3> QED  BY <3>1, <3>2
    <2> QED  BY <2>1, <1>0, <1>2, <1>3, <1>a DEF TypeOK
  <1>6. Riders'
    <2>1. \A k \in 1..Issued : fetched'[k] = batches'[k]
      BY <1>2, <1>4, <1>a DEF ReadsInv, Riders
    <2>2. ASSUME NEW d \in Caller, ride'[d] # 0 PROVE Self(d) \subseteq batches'[ride'[d]]
      <3>1. CASE d = c  BY <3>1, <1>0, <1>2, <1>3 DEF TypeOK
      <3>2. CASE d # c
        <4>1. ride'[d] = ride[d] /\ ride[d] \in 1..Opened /\ Self(d) \subseteq batches[ride[d]]
          BY <3>2, <2>2, <1>0, <1>2 DEF TypeOK, ReadsInv, Riders
        <4> QED  BY <4>1, <1>3, <1>4
      <3> QED  BY <3>1, <3>2
    <2> QED  BY <2>1, <2>2, <1>2 DEF Riders, Self
  <1>7. Indexed'
    <2> SUFFICES ASSUME NEW id \in Id, pending'[id] # 0
                 PROVE  pending'[id] \in Queued' /\ id \in batches'[pending'[id]]
      BY DEF Indexed
    <2>1. CASE id \in Self(c)
      <3>1. pending'[id] = n  BY <2>1, <1>2
      <3> QED  BY <3>1, <2>1, <1>2, <1>3, <1>a
    <2>2. CASE id \notin Self(c)
      <3>1. pending'[id] = pending[id] /\ pending[id] \in Queued /\ id \in batches[pending[id]]
        BY <2>2, <1>2 DEF ReadsInv, Indexed
      <3> QED  BY <3>1, <1>2, <1>3, <1>4, <1>a
    <2> QED  BY <2>1, <2>2
  <1>8. Sizes'
    <2> SUFFICES ASSUME NEW k \in 1..Opened'
                 PROVE  IsFiniteSet(batches'[k]) /\ Cardinality(batches'[k]) <= MaxSelfIds
      BY DEF Sizes
    <2>1. CASE k # n
      <3>1. k \in 1..Opened  BY <2>1, <1>3, <1>a
      <3> QED  BY <3>1, <2>1, <1>4 DEF ReadsInv, Sizes
    <2>2. CASE k = n /\ n = Opened + 1
      <3>1. batches'[k] = Self(c)  BY <2>2, <1>3, <1>a
      <3> QED  BY <3>1, SelfFits
    <2>3. CASE k = n /\ n \in Queued
      <3>1. batches'[k] = batches[n] \cup Self(c)  BY <2>3, <1>3, <1>a
      <3>2. IsFiniteSet(batches[n]) /\ Cardinality(batches[n]) <= MaxSelfIds
        BY <2>3, <1>a DEF ReadsInv, Sizes
      <3> QED  BY <3>1, <3>2, <2>3, <1>1, Grown
    <2> QED  BY <2>1, <2>2, <2>3, <1>1
  <1>9. Retired' /\ Fresh'
    BY <1>0, <1>2, <1>a DEF ReadsInv, Retired, Fresh, TypeOK
  <1>10. NoReadTooMany'
    <2> SUFFICES ASSUME NEW k \in Queued', k < Opened'
                 PROVE  Cardinality(batches'[k]) >= MaxSelfIds
      BY DEF NoReadTooMany
    <2>1. k \in Queued /\ Issued' = Issued  BY <1>2, <1>3, <1>a
    <2>2. Cardinality(batches[k]) \in Nat
      BY <2>1, <1>a, FS_CardinalityType DEF ReadsInv, Sizes
    <2>3. CASE k # n
      <3>1. batches'[k] = batches[k]  BY <2>1, <2>3, <1>4, <1>a
      <3>2. CASE k < Opened
        BY <3>1, <3>2, <2>1 DEF ReadsInv, NoReadTooMany
      <3>3. CASE k = Opened
        <4>1. n = Opened + 1 /\ Queued # {}  BY <3>3, <2>1, <1>3, <1>a
        <4> QED  BY <4>1, <3>1, <3>3, <1>1
      <3> QED  BY <3>2, <3>3, <2>1, <1>a
    <2>4. CASE k = n
      <3>1. k < Opened /\ Cardinality(batches[k]) >= MaxSelfIds
        BY <2>4, <2>1, <1>3, <1>a DEF ReadsInv, NoReadTooMany
      <3>2. Self(c) \subseteq batches[n]
        BY <3>1, <2>1, <2>2, <2>4, <1>1, BarrierAssumption
      <3>3. batches'[k] = batches[k]
        <4>1. n # Opened + 1  BY <3>1, <2>4, <1>a
        <4>2. batches'[n] = batches[n] \cup Self(c)  BY <4>1, <1>3
        <4> QED  BY <3>2, <2>4, <4>2
      <3> QED  BY <3>1, <3>3
    <2> QED  BY <2>3, <2>4
  <1> QED  BY <1>5, <1>6, <1>7, <1>8, <1>9, <1>10 DEF ReadsInv

LEMMA SettleKeeps == ASSUME ReadsInv, ReadSettles PROVE ReadsInv'
  <1>0. TypeOK /\ UNCHANGED <<batches, askedAt>>
        /\ ride' = [d \in Caller |-> IF ride[d] = Issued THEN 0 ELSE ride[d]]
    BY DEF ReadsInv, ReadSettles
  <1>1. CASE Queued = {}
    <2>0. Issued \in Nat /\ Opened \in Nat /\ Issued <= Opened  BY <1>0 DEF TypeOK
    <2>1. slot' = FALSE /\ UNCHANGED <<fetched, pending>> /\ Issued = Opened
      <3>1. slot' = FALSE /\ UNCHANGED <<fetched, pending>>
        BY <1>1 DEF ReadSettles, Promote
      <3>2. Issued = Opened
        <4> SUFFICES ASSUME Issued < Opened PROVE FALSE  BY <2>0
        <4>1. Issued + 1 \in Queued  BY <2>0
        <4> QED  BY <4>1, <1>1
      <3> QED  BY <3>1, <3>2
    <2>2. TypeOK'
      <3>1. ride' \in [Caller -> 0..Opened]  BY <1>0 DEF TypeOK
      <3> QED  BY <2>1, <3>1, <1>0 DEF TypeOK
    <2>3. Riders' /\ Indexed' /\ Sizes'
      BY <2>1, <1>0 DEF ReadsInv, Riders, Indexed, Sizes, TypeOK, Self
    <2>4. Retired' /\ Fresh' /\ NoReadTooMany'
      BY <2>1, <1>0 DEF ReadsInv, Retired, Fresh, NoReadTooMany, TypeOK
    <2> QED  BY <2>2, <2>3, <2>4 DEF ReadsInv
  <1>2. CASE Queued # {}
    <2> DEFINE head == batches[Issued + 1]
    <2>1. /\ fetched' = Append(fetched, head)
          /\ pending' = [id \in Id |-> IF id \in head THEN 0 ELSE pending[id]]
          /\ UNCHANGED slot
      BY <1>2 DEF ReadSettles, Promote, Unindexed
    <2>2. Issued + 1 \in 1..Opened /\ head \subseteq Id  BY <1>2, <1>0 DEF TypeOK
    <2> HIDE DEF head
    <2>3. /\ Len(fetched') = Len(fetched) + 1
          /\ \A k \in 1..Len(fetched) : fetched'[k] = fetched[k]
          /\ fetched'[Len(fetched) + 1] = head
      BY <2>1, <2>2, <1>0 DEF TypeOK
    <2>4. TypeOK'
      <3>1. fetched' \in Seq(SUBSET Id)  BY <2>1, <2>2, <1>0 DEF TypeOK
      <3> QED  BY <3>1, <2>1, <2>2, <2>3, <1>0 DEF TypeOK
    <2>5. Riders'
      <3>1. \A k \in 1..Issued' : fetched'[k] = batches'[k]
        <4> SUFFICES ASSUME NEW k \in 1..Issued' PROVE fetched'[k] = batches'[k]
          OBVIOUS
        <4>1. CASE k \in 1..Issued
          BY <4>1, <2>3, <1>0 DEF ReadsInv, Riders
        <4>2. CASE k = Issued + 1
          BY <4>2, <2>3, <1>0 DEF head
        <4> QED  BY <4>1, <4>2, <2>3, <1>0 DEF TypeOK
      <3>2. \A c \in Caller : ride'[c] # 0 => ride'[c] = ride[c] /\ Self(c)' = Self(c)
        BY <1>0 DEF Self
      <3> QED  BY <3>1, <3>2, <1>0 DEF ReadsInv, Riders
    <2>6. Indexed'
      <3> SUFFICES ASSUME NEW id \in Id, pending'[id] # 0
                   PROVE  pending'[id] \in Queued' /\ id \in batches'[pending'[id]]
        BY DEF Indexed
      <3>1. id \notin head /\ pending'[id] = pending[id]  BY <2>1
      <3>2. pending[id] \in Queued /\ id \in batches[pending[id]]
        BY <3>1 DEF ReadsInv, Indexed
      <3>3. pending[id] # Issued + 1  BY <3>1, <3>2 DEF head
      <3> QED  BY <3>1, <3>2, <3>3, <2>3, <1>0 DEF TypeOK
    <2>7. Sizes' /\ Retired' /\ Fresh'
      BY <2>1, <2>2, <2>3, <1>0 DEF ReadsInv, Sizes, Retired, Fresh, TypeOK
    <2>8. NoReadTooMany'
      BY <2>3, <1>0 DEF ReadsInv, NoReadTooMany, TypeOK
    <2> QED  BY <2>4, <2>5, <2>6, <2>7, <2>8 DEF ReadsInv
  <1> QED  BY <1>1, <1>2

LEMMA ReadsStutterKeeps == ASSUME ReadsInv, UNCHANGED readVars PROVE ReadsInv'
  BY DEF ReadsInv, TypeOK, Riders, Indexed, Sizes, Retired, Fresh, NoReadTooMany, readVars, Self

LEMMA ReadsInvariance == ReadsSpec => []ReadsInv
  <1>1. ReadsInv /\ [ReadsNext]_readVars => ReadsInv'
    BY FirstKeeps, QueuedKeeps, SettleKeeps, ReadsStutterKeeps DEF ReadsNext
  <1> QED  BY <1>1, InitReadsInv, PTL DEF ReadsSpec

-----------------------------------------------------------------------------
\* Types: no batch holds an id that no caller has.
THEOREM ReadsTypeCorrect == ReadsSpec => []TypeOK
  <1>1. ReadsInv => TypeOK  BY DEF ReadsInv
  <1> QED  BY <1>1, ReadsInvariance, PTL

\* Sharing a read never costs freshness, for any callers, ids and cap.
THEOREM Freshness == ReadsSpec => []Fresh
  <1>1. ReadsInv => Fresh  BY DEF ReadsInv
  <1> QED  BY <1>1, ReadsInvariance, PTL

\* The read that answers a caller fetches its member and stays within the cap.
THEOREM SelfIsFetched == ReadsSpec => []FetchesSelf
  <1>1. ReadsInv => FetchesSelf
    <2> SUFFICES ASSUME ReadsInv PROVE FetchesSelf  OBVIOUS
    <2>1. Issued \in Nat /\ Opened \in Nat /\ Issued <= Opened  BY DEF ReadsInv, TypeOK
    <2>2. \A c \in Caller : ride[c] \in 1..Issued => Self(c) \subseteq fetched[ride[c]]
      BY <2>1 DEF ReadsInv, Riders
    <2>3. \A n \in 1..Issued : Cardinality(fetched[n]) <= MaxSelfIds
      BY <2>1 DEF ReadsInv, Riders, Sizes
    <2> QED  BY <2>2, <2>3 DEF FetchesSelf
  <1> QED  BY <1>1, ReadsInvariance, PTL

\* Of the reads queued, only the last has room.
THEOREM ReadsAreFull == ReadsSpec => []NoReadTooMany
  <1>1. ReadsInv => NoReadTooMany  BY DEF ReadsInv
  <1> QED  BY <1>1, ReadsInvariance, PTL
=============================================================================
