------------------------------ MODULE RosterStore ------------------------------
(***************************************************************************)
(* The presence roster as Redis keeps it: what the three Lua scripts of    *)
(* realtime/drivers/redis.ts do to it, each in one step, whoever sends     *)
(* them and in whatever order they arrive.  A slot is one member of one    *)
(* channel.  An entry is told by the instance that wrote it: its roster    *)
(* entry is {member, owner}.  Keys of the wrong type, which the scripts    *)
(* also heal, come from foreign writers and are left out.                  *)
(***************************************************************************)
CONSTANTS Instance, Slot,
          Nobody        \* no shown entry

ASSUME NobodyAssumption == Nobody \notin Instance

VARIABLES holders,      \* holders hash of a slot: the instances that hold it
          shown,        \* presence hash: whose entry the slot shows
          owned,        \* owned set of an instance: the slots it holds
          instances,    \* the set of registered instances
          alive         \* instances whose liveness key exists

storeVars == <<holders, shown, owned, instances, alive>>

StoreType == /\ holders \in [Slot -> SUBSET Instance]
             /\ shown \in [Slot -> Instance \cup {Nobody}]
             /\ owned \in [Instance -> SUBSET Slot]
             /\ instances \subseteq Instance
             /\ alive \subseteq Instance

StoreInit == /\ holders = [s \in Slot |-> {}]
             /\ shown = [s \in Slot |-> Nobody]
             /\ owned = [i \in Instance |-> {}]
             /\ instances = {}
             /\ alive = {}

-----------------------------------------------------------------------------
\* HOLD_MEMBER_SCRIPT: the reply "arrived" says that i filled the slot.
HoldReply(i, s) == IF holders[s] = {} THEN "arrived" ELSE "held"

HoldMember(i, s) == /\ holders' = [holders EXCEPT ![s] = @ \cup {i}]
                    /\ shown' = [shown EXCEPT ![s] = i]
                    /\ owned' = [owned EXCEPT ![i] = @ \cup {s}]
                    /\ instances' = instances \cup {i}
                    /\ UNCHANGED alive

\* The releaser's own entry as HGET answers it: nil when it holds nothing.
Mine(i, s) == IF i \in holders[s] THEN i ELSE Nobody

\* Bug: the script does not ask again whether the holder lives.
NeverRefused(i, onBehalf) == FALSE

\* A sweep's release is asked on the holder's behalf and refused while the
\* holder's liveness key exists; a leave is never refused.
Refused(i, onBehalf) == onBehalf /\ i \in alive

\* Bug: the last releaser is told that it emptied the slot, holder or not.
EmptiedByAnyone(i, s, onBehalf) ==
    IF Refused(i, onBehalf) THEN "refused"
    ELSE IF holders[s] \ {i} = {} THEN "emptied" ELSE "kept"

ReleaseReply(i, s, onBehalf) ==
    CASE Refused(i, onBehalf)   -> "refused"
      [] ~Refused(i, onBehalf) /\ i \notin holders[s] -> "absent"
      [] ~Refused(i, onBehalf) /\ holders[s] = {i}    -> "emptied"
      [] OTHER                  -> "kept"

\* Bug: the entry of a departed holder stays shown.
NotPromoted(i, s) == IF holders[s] \ {i} = {} THEN {Nobody} ELSE {shown[s]}

\* What the slot shows once i is gone: nothing, the entry it already showed,
\* or the entry of any holder left when the one shown was i's.
Promoted(i, s) == LET left == holders[s] \ {i}
                  IN IF left = {} THEN {Nobody}
                     ELSE IF shown[s] = Mine(i, s) THEN left
                     ELSE {shown[s]}

\* RELEASE_MEMBER_SCRIPT, for a leave and for a sweep alike.
ReleaseMember(i, s, onBehalf) ==
    IF Refused(i, onBehalf) THEN UNCHANGED storeVars
    ELSE /\ holders' = [holders EXCEPT ![s] = @ \ {i}]
         /\ owned' = [owned EXCEPT ![i] = @ \ {s}]
         /\ \E entry \in Promoted(i, s) : shown' = [shown EXCEPT ![s] = entry]
         /\ UNCHANGED <<instances, alive>>

\* DEREGISTER_INSTANCE_SCRIPT: a sweep's last write.
Deregister(i) == /\ instances' = IF i \in alive \/ owned[i] # {}
                                    THEN instances ELSE instances \ {i}
                 /\ UNCHANGED <<holders, shown, owned, alive>>

\* The two writes of a heartbeat, and the expiry of the key it renews.
Renew(i) == /\ alive' = alive \cup {i}
            /\ UNCHANGED <<holders, shown, owned, instances>>

Register(i) == /\ instances' = instances \cup {i}
               /\ UNCHANGED <<holders, shown, owned, alive>>

Lapse(i) == /\ i \in alive
            /\ alive' = alive \ {i}
            /\ UNCHANGED <<holders, shown, owned, instances>>

StoreNext == \E i \in Instance :
                \/ \E s \in Slot : \/ HoldMember(i, s)
                                   \/ ReleaseMember(i, s, TRUE)
                                   \/ ReleaseMember(i, s, FALSE)
                \/ Deregister(i)
                \/ Renew(i)
                \/ Register(i)
                \/ Lapse(i)

StoreSpec == StoreInit /\ [][StoreNext]_storeVars

-----------------------------------------------------------------------------
\* A slot is on the roster exactly while somebody holds it, and the entry it
\* shows is that of one of its holders: never of an instance that has left
\* (HOLD_MEMBER_SCRIPT, RELEASE_MEMBER_SCRIPT).
ShownIsHeld == \A s \in Slot : /\ shown[s] = Nobody <=> holders[s] = {}
                               /\ shown[s] # Nobody => shown[s] \in holders[s]

\* Whatever is held can be swept: a hold is in its instance's owned set, the
\* owned set holds nothing else, and an instance that owns anything is
\* registered, so a pass will find it once it is dead.
HoldsAreSweepable == \A i \in Instance :
                        /\ \A s \in Slot : i \in holders[s] <=> s \in owned[i]
                        /\ owned[i] # {} => i \in instances

StoreConsistent == ShownIsHeld /\ HoldsAreSweepable
=============================================================================
