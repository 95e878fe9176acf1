------------------------ MODULE RedisSubscriberProofs ------------------------
(***************************************************************************)
(* What the users of one subscribe-mode connection may rely on, for any    *)
(* names, any number of activations, calls and faults: types, what the     *)
(* record says of the wire, that no wanted name is forgotten, and that     *)
(* close() is the end.                                                     *)
(*                                                                         *)
(* Four parts are added to the properties.  Typed: the sets the variables  *)
(* live in.  Linked: generation, read loop and interval are those of the   *)
(* one live socket, and a socket without a generation is subscribed to     *)
(* nothing.  Engaged: a dial has somebody waiting for it, and an           *)
(* activation that has not looked at `closed` yet stands on the live       *)
(* socket.  Queued: a frame of an activation is the one it waits for.      *)
(***************************************************************************)
EXTENDS RedisSubscriber, SequenceTheorems, TLAPS

Generation == [sock : Nat, claimed : SUBSET Name, acked : SUBSET Name, chain : Seq(Frame)]
Peer == [subs : SUBSET Name, acks : Seq(Name), down : BOOLEAN]
Place == {"idle", "dialing", "resume", "writing", "told", "ending"}
Standing == [pc : Place, sock : Nat, todo : Seq(Name), landed : BOOLEAN, early : BOOLEAN]

Typed ==
    /\ recorded \in Seq(Name) /\ IsInjective(recorded)
    /\ closed \in BOOLEAN /\ held \in BOOLEAN /\ dialing \in BOOLEAN
    /\ retry \in BOOLEAN /\ intent \in BOOLEAN /\ missed \in BOOLEAN
    /\ dialled \in Nat /\ sock \in 0..dialled /\ loops \subseteq 1..dialled
    /\ gen \in Generation
    /\ peer \in Peer
    /\ act \in [Activation -> Standing]

Linked ==
    /\ gen.sock \in {None, sock}
    /\ gen.sock = None => gen = NoGeneration /\ peer.subs = {}
    /\ gen.claimed \cap gen.acked = {}
    /\ loopConn \in {None, sock} /\ (loopConn # None => loopConn \in loops)
    /\ pinging \subseteq {gen.sock} \ {None}

Engaged ==
    /\ dialing => sock = None /\ \E a \in Activation : act[a].pc = "dialing"
    /\ \A a \in Activation :
          /\ act[a].pc = "dialing" => dialing
          /\ act[a].pc \in {"resume", "writing", "told", "ending"} => act[a].sock \in 1..dialled
          /\ act[a].pc = "resume" /\ ~closed => act[a].sock = sock
          /\ act[a].pc \in {"writing", "told", "ending"} /\ act[a].sock = sock => gen.sock = sock

Waits(frames, i, c) == /\ act[frames[i].by].pc = "writing" /\ act[frames[i].by].sock = c
                       /\ \A j \in DOMAIN frames : frames[j].by = frames[i].by => j = i
Queues(frames, c) == \A i \in DOMAIN frames : frames[i].by # 0 => Waits(frames, i, c)
Queued == Queues(gen.chain, gen.sock)

Shut ==
    closed => /\ ~held /\ ~retry /\ pinging = {} /\ gen = NoGeneration /\ loopConn = None
              /\ sock # None => \E a \in Activation : act[a].pc = "resume" /\ act[a].sock = sock

IInv == /\ Typed /\ Linked /\ Engaged /\ Queued /\ Shut
        /\ WireMatchesRecord /\ NeverDeaf

-----------------------------------------------------------------------------
(* Sequences of names and of frames.                                       *)

LEMMA AppendOf ==
    ASSUME NEW S, NEW s \in Seq(S), NEW e \in S
    PROVE  /\ Append(s, e) \in Seq(S)
           /\ Len(s) \in Nat /\ DOMAIN s = 1..Len(s) /\ DOMAIN Append(s, e) = 1..(Len(s) + 1)
           /\ \A i \in 1..Len(s) : Append(s, e)[i] = s[i]
           /\ Append(s, e)[Len(s) + 1] = e
  BY AppendProperties, LenProperties

LEMMA TailOf ==
    ASSUME NEW S, NEW s \in Seq(S), s # <<>>
    PROVE  /\ Tail(s) \in Seq(S) /\ Head(s) \in S /\ Head(s) = s[1]
           /\ Len(s) \in Nat \ {0} /\ DOMAIN s = 1..Len(s) /\ DOMAIN Tail(s) = 1..(Len(s) - 1)
           /\ \A i \in 1..(Len(s) - 1) : Tail(s)[i] = s[i + 1]
  BY HeadTailProperties, LenProperties, EmptySeq

LEMMA SetOfAppend ==
    ASSUME NEW S, NEW s \in Seq(S), NEW e \in S
    PROVE  ToSet(Append(s, e)) = ToSet(s) \cup {e}
  BY AppendOf DEF ToSet

LEMMA InjectiveAppend ==
    ASSUME NEW S, NEW s \in Seq(S), NEW e \in S, e \notin ToSet(s), IsInjective(s)
    PROVE  IsInjective(Append(s, e))
  BY AppendOf DEF ToSet, IsInjective

\* The rest of a pass, after the name at i.
LEMMA RestOf ==
    ASSUME NEW S, NEW s \in Seq(S), NEW i \in DOMAIN s
    PROVE  /\ SubSeq(s, i + 1, Len(s)) \in Seq(S)
           /\ ToSet(SubSeq(s, i + 1, Len(s))) = {s[j] : j \in (i + 1)..Len(s)}
           /\ Len(s) \in Nat /\ DOMAIN s = 1..Len(s)
  <1> DEFINE rest == SubSeq(s, i + 1, Len(s))
  <1>1. Len(s) \in Nat /\ DOMAIN s = 1..Len(s) /\ i \in 1..Len(s)
    BY LenProperties
  <1>2. /\ rest \in Seq(S) /\ Len(rest) = Len(s) - i
        /\ \A k \in 1..(Len(s) - i) : rest[k] = s[i + k]
    BY <1>1, SubSeqProperties
  <1>3. DOMAIN rest = 1..(Len(s) - i)
    BY <1>2, LenProperties
  <1>4. ASSUME NEW j \in (i + 1)..Len(s) PROVE \E k \in 1..(Len(s) - i) : rest[k] = s[j]
    <2>1. j - i \in 1..(Len(s) - i) /\ i + (j - i) = j
      BY <1>1
    <2> QED BY <1>2, <2>1
  <1>5. ASSUME NEW k \in 1..(Len(s) - i) PROVE \E j \in (i + 1)..Len(s) : rest[k] = s[j]
    BY <1>1, <1>2, i + k \in (i + 1)..Len(s)
  <1> HIDE DEF rest
  <1>6. ToSet(rest) = {s[j] : j \in (i + 1)..Len(s)}
    <2>1. ToSet(rest) = {rest[k] : k \in 1..(Len(s) - i)}
      BY <1>3 DEF ToSet
    <2>2. ASSUME NEW x \in ToSet(rest) PROVE x \in {s[j] : j \in (i + 1)..Len(s)}
      BY <1>5, <2>1
    <2>3. ASSUME NEW j \in (i + 1)..Len(s) PROVE s[j] \in ToSet(rest)
      BY <1>4, <2>1
    <2> QED BY <2>2, <2>3, Zenon
  <1> QED BY <1>1, <1>2, <1>6 DEF rest

\* unsubscribeOne() takes exactly its name out of the record.
LEMMA RemoveOf ==
    ASSUME NEW S, NEW s \in Seq(S), NEW i \in DOMAIN s, IsInjective(s)
    PROVE  /\ RemoveAt(s, i) \in Seq(S) /\ IsInjective(RemoveAt(s, i))
           /\ ToSet(RemoveAt(s, i)) = ToSet(s) \ {s[i]}
  <1> DEFINE front == SubSeq(s, 1, i - 1)
             rest  == SubSeq(s, i + 1, Len(s))
             less  == RemoveAt(s, i)
  <1>1. Len(s) \in Nat /\ DOMAIN s = 1..Len(s) /\ i \in 1..Len(s)
    BY LenProperties
  <1>2. /\ rest \in Seq(S) /\ Len(rest) = Len(s) - i
        /\ \A k \in 1..(Len(s) - i) : rest[k] = s[i + k]
    BY <1>1, SubSeqProperties
  <1>3. /\ front \in Seq(S) /\ Len(front) = i - 1
        /\ \A k \in 1..(i - 1) : front[k] = s[k]
    BY <1>1, SubSeqProperties
  <1>a. less = front \o rest
    BY DEF RemoveAt
  <1> HIDE DEF front, rest
  <1>b. /\ less \in Seq(S) /\ Len(less) = Len(front) + Len(rest)
        /\ \A k \in 1..(Len(front) + Len(rest)) :
              less[k] = IF k <= Len(front) THEN front[k] ELSE rest[k - Len(front)]
    <2>1. front \in Seq(S) /\ rest \in Seq(S)
      BY <1>2, <1>3
    <2> HIDE DEF less
    <2> QED BY ONLY <1>a, <2>1, ConcatProperties, Zenon
  <1> HIDE DEF less
  <1>4. /\ less \in Seq(S) /\ Len(less) = Len(s) - 1
        /\ \A k \in 1..(Len(s) - 1) : less[k] = IF k <= i - 1 THEN front[k] ELSE rest[k - (i - 1)]
    BY <1>1, <1>2, <1>3, <1>b
  <1>5. DOMAIN less = 1..(Len(s) - 1)
    BY <1>4, LenProperties
  <1>6. ASSUME NEW k \in 1..(Len(s) - 1)
        PROVE  less[k] = IF k < i THEN s[k] ELSE s[k + 1]
    <2>1. CASE k < i
      BY <1>1, <1>3, <1>4, <2>1
    <2>2. CASE ~(k < i)
      <3>1. k - (i - 1) \in 1..(Len(s) - i) /\ i + (k - (i - 1)) = k + 1 /\ ~(k <= i - 1)
        BY <1>1, <2>2
      <3> QED BY <1>2, <1>4, <2>2, <3>1
    <2> QED BY <2>1, <2>2
  <1>7. IsInjective(less)
    <2> SUFFICES ASSUME NEW k \in 1..(Len(s) - 1), NEW l \in 1..(Len(s) - 1), less[k] = less[l]
                 PROVE  k = l
      BY <1>5 DEF IsInjective
    <2> DEFINE at(m) == IF m < i THEN m ELSE m + 1
    <2>1. at(k) \in 1..Len(s) /\ at(l) \in 1..Len(s) /\ less[k] = s[at(k)] /\ less[l] = s[at(l)]
      BY <1>1, <1>6
    <2>2. at(k) = at(l)
      BY <1>1, <2>1 DEF IsInjective
    <2> QED BY <1>1, <2>2
  <1>8. ASSUME NEW j \in 1..Len(s), j # i PROVE \E k \in 1..(Len(s) - 1) : less[k] = s[j]
    <2>1. CASE j < i
      BY <1>1, <1>6, <2>1, j \in 1..(Len(s) - 1)
    <2>2. CASE j > i
      <3>1. j - 1 \in 1..(Len(s) - 1) /\ ~(j - 1 < i) /\ j - 1 + 1 = j
        BY <1>1, <2>2
      <3> QED BY <1>6, <3>1
    <2> QED BY <1>1, <1>8, <2>1, <2>2
  <1>9. \A k \in 1..(Len(s) - 1) : \E j \in 1..Len(s) : j # i /\ less[k] = s[j]
    BY <1>1, <1>6
  <1>10. ToSet(less) = ToSet(s) \ {s[i]}
    <2>1. /\ ToSet(less) = {less[k] : k \in 1..(Len(s) - 1)}
          /\ ToSet(s) = {s[j] : j \in 1..Len(s)}
      BY <1>1, <1>5 DEF ToSet
    <2>2. \A j \in 1..Len(s) : s[j] = s[i] <=> j = i
      BY <1>1 DEF IsInjective
    <2>3. ASSUME NEW x \in ToSet(less) PROVE x \in ToSet(s) \ {s[i]}
      BY <1>1, <1>9, <2>1, <2>2, SMTT(30)
    <2>4. ASSUME NEW x \in ToSet(s) \ {s[i]} PROVE x \in ToSet(less)
      BY <1>1, <1>8, <2>1
    <2> QED BY <2>3, <2>4
  <1> QED BY <1>4, <1>7, <1>10 DEF less

\* The priority partition issues the names it was given.
LEMMA OrderedOf ==
    ASSUME NEW S, NEW s \in Seq(S), NEW names \in Ordered(s)
    PROVE  names \in Seq(S) /\ ToSet(names) = ToSet(s)
  <1>1. PICK p \in Bijection(DOMAIN s, DOMAIN s) : names = [k \in DOMAIN s |-> s[p[k]]]
    BY DEF Ordered
  <1>2. /\ p \in [DOMAIN s -> DOMAIN s]
        /\ \A i \in DOMAIN s : \E k \in DOMAIN s : p[k] = i
    BY DEF Bijection, Injection, Surjection
  <1>3. /\ Len(s) \in Nat /\ DOMAIN s = 1..Len(s) /\ \A k \in DOMAIN s : s[k] \in S
    BY LenProperties, ElementOfSeq
  <1>4. names \in [1..Len(s) -> S]
    BY <1>1, <1>2, <1>3
  <1>5. names \in Seq(S)
    BY <1>3, <1>4, SeqDef
  <1> QED BY <1>1, <1>2, <1>5 DEF ToSet

-----------------------------------------------------------------------------
(* What the frames queued for a name come to.                              *)

LEMMA NoFrames == \A subs, n : WillHold(subs, <<>>, n) <=> n \in subs
  BY DEF WillHold

\* The frame queued last for a name decides.
LEMMA FrameQueued ==
    ASSUME NEW subs, NEW chain \in Seq(Frame), NEW f \in Frame, NEW n
    PROVE  WillHold(subs, Append(chain, f), n)
             <=> IF f.name = n THEN f.by # 0 ELSE WillHold(subs, chain, n)
  <1> DEFINE more == Append(chain, f)
  <1>1. /\ Len(chain) \in Nat /\ DOMAIN chain = 1..Len(chain)
        /\ DOMAIN more = 1..(Len(chain) + 1)
        /\ \A i \in 1..Len(chain) : more[i] = chain[i]
        /\ more[Len(chain) + 1] = f
    BY AppendOf
  <1> HIDE DEF more
  <1>2. CASE f.name = n
    BY <1>1, <1>2 DEF WillHold, more
  <1>3. CASE f.name # n
    <2>1. {i \in DOMAIN more : more[i].name = n} = {i \in DOMAIN chain : chain[i].name = n}
      BY <1>1, <1>3
    <2> QED BY <1>1, <1>3, <2>1 DEF WillHold, more
  <1> QED BY <1>2, <1>3

\* Writing a frame moves its effect to Redis and changes nothing else.
LEMMA FrameWritten ==
    ASSUME NEW subs, NEW chain \in Seq(Frame), chain # <<>>, NEW n, NEW then,
           then = IF Head(chain).by = 0 THEN subs \ {Head(chain).name}
                                        ELSE subs \cup {Head(chain).name}
    PROVE  WillHold(then, Tail(chain), n) <=> WillHold(subs, chain, n)
  <1> DEFINE rest == Tail(chain)
             Of   == {i \in DOMAIN chain : chain[i].name = n}
             Then == {i \in DOMAIN rest : rest[i].name = n}
  <1>1. /\ Len(chain) \in Nat \ {0} /\ Head(chain) = chain[1]
        /\ DOMAIN chain = 1..Len(chain) /\ DOMAIN rest = 1..(Len(chain) - 1)
        /\ \A i \in 1..(Len(chain) - 1) : rest[i] = chain[i + 1]
    BY TailOf
  <1> HIDE DEF rest
  <1>2. /\ \A i \in Then : i + 1 \in Of /\ rest[i] = chain[i + 1] /\ i \in Nat \ {0}
        /\ \A i \in Of : i # 1 => i - 1 \in Then /\ rest[i - 1] = chain[i] /\ i \in Nat
    <2>1. ASSUME NEW i \in Of, i # 1 PROVE i - 1 \in 1..(Len(chain) - 1) /\ i - 1 + 1 = i
      BY <1>1, <2>1
    <2> QED BY <1>1, <2>1
  <1>3. 1 \in Of <=> Head(chain).name = n
    BY <1>1
  <1>4. Then = {} <=> Of \subseteq {1}
    BY <1>1, <1>2
  <1>5. WillHold(subs, chain, n)
          <=> \/ Of = {} /\ n \in subs
              \/ \E i \in Of : chain[i].by # 0 /\ \A j \in Of : j <= i
    BY DEF WillHold
  <1>6. WillHold(then, Tail(chain), n)
          <=> \/ Then = {} /\ n \in then
              \/ \E i \in Then : rest[i].by # 0 /\ \A j \in Then : j <= i
    BY DEF WillHold, rest
  <1> HIDE DEF Of, Then
  <1>7. CASE Then = {}
    BY <1>1, <1>3, <1>4, <1>5, <1>6, <1>7
  <1>8. CASE Then # {}
    <2>1. ASSUME NEW i \in Then, rest[i].by # 0, \A j \in Then : j <= i
          PROVE  \E k \in Of : chain[k].by # 0 /\ \A j \in Of : j <= k
      <3>1. ASSUME NEW j \in Of PROVE j <= i + 1
        BY <1>2, <2>1
      <3> QED BY <1>2, <2>1, <3>1
    <2>2. ASSUME NEW k \in Of, chain[k].by # 0, \A j \in Of : j <= k
          PROVE  \E i \in Then : rest[i].by # 0 /\ \A j \in Then : j <= i
      <3>1. k # 1
        BY <1>2, <1>8, <2>2
      <3>2. ASSUME NEW j \in Then PROVE j <= k - 1
        BY <1>2, <2>2
      <3> QED BY <1>2, <2>2, <3>1, <3>2
    <2>3. Of # {}
      BY <1>2, <1>8
    <2> QED BY <1>5, <1>6, <1>8, <2>1, <2>2, <2>3
  <1> QED BY <1>7, <1>8

-----------------------------------------------------------------------------
(* What the shared parts of the actions keep.                              *)

\* The record of g says what Redis will hold once g.chain is written.
Wired(g, subs) == \A n \in Name : /\ WillHold(subs, g.chain, n) <=> Has(g, n)
                                  /\ Has(g, n) => n \in Recorded

LEMMA Constants == /\ Activation \subseteq Nat \ {0}
                   /\ \A n \in Name, a \in Activation \cup {0} : [name |-> n, by |-> a] \in Frame
                   /\ NoGeneration \in Generation /\ SilentPeer \in Peer /\ NotRunning \in Standing
  <1>1. <<>> \in Seq(Frame) /\ <<>> \in Seq(Name)
    BY EmptySeq
  <1> QED BY <1>1, SubscriberAssumption
          DEF Frame, NoGeneration, SilentPeer, NotRunning, Generation, Peer, Standing, Place, None

\* An activation that moves on, on the live socket and its generation.
LEMMA MovesOn ==
    ASSUME IInv, NEW a \in Activation, act[a].pc # "dialing",
           NEW you \in Standing, act' = [act EXCEPT ![a] = you],
           you.pc \in {"idle", "writing", "told", "ending"},
           you.pc # "idle" => you.sock = sock /\ sock # None /\ gen'.sock = sock,
           gen'.sock \in {gen.sock, sock},
           UNCHANGED <<dialing, closed, sock, dialled>>
    PROVE  /\ act' \in [Activation -> Standing] /\ act'[a] = you
           /\ \A b \in Activation \ {a} : act'[b] = act[b]
           /\ Engaged'
  <1>1. /\ act' \in [Activation -> Standing] /\ act'[a] = you
        /\ \A b \in Activation \ {a} : act'[b] = act[b]
    BY DEF IInv, Typed
  <1>2. dialing' => sock' = None /\ \E b \in Activation : act'[b].pc = "dialing"
    BY <1>1 DEF IInv, Engaged
  <1>3. ASSUME NEW b \in Activation
        PROVE  /\ act'[b].pc = "dialing" => dialing'
               /\ act'[b].pc \in {"resume", "writing", "told", "ending"} => act'[b].sock \in 1..dialled'
               /\ act'[b].pc = "resume" /\ ~closed' => act'[b].sock = sock'
               /\ act'[b].pc \in {"writing", "told", "ending"} /\ act'[b].sock = sock'
                     => gen'.sock = sock'
    <2>1. CASE b = a
      BY <1>1, <2>1 DEF IInv, Typed, None
    <2>2. CASE b # a
      BY <1>1, <2>2 DEF IInv, Engaged
    <2> QED BY <2>1, <2>2
  <1> QED BY <1>1, <1>2, <1>3 DEF Engaged

LEMMA WriterOf ==
    ASSUME NEW frames \in Seq(Frame), NEW i \in DOMAIN frames
    PROVE  frames[i].name \in Name /\ frames[i].by \in Activation \cup {0}
  <1>1. frames[i] \in Frame
    BY LenProperties, ElementOfSeq
  <1> QED BY <1>1 DEF Frame

\* The queue of the live generation, when a has nothing in it.
LEMMA QueueKept ==
    ASSUME NEW a \in Activation, NEW frames \in Seq(Frame), NEW c, Queues(frames, c),
           \A i \in DOMAIN frames : frames[i].by # a,
           \A b \in Activation \ {a} : act'[b] = act[b],
           gen'.chain = frames, gen'.sock = c
    PROVE  Queued'
  <1>1. \A i \in DOMAIN frames : frames[i].by \in Activation \cup {0}
    BY WriterOf
  <1> QED BY <1>1 DEF Queued, Queues, Waits

LEMMA QueueGrows ==
    ASSUME NEW a \in Activation, NEW n \in Name, NEW frames \in Seq(Frame), NEW c, Queues(frames, c),
           \A i \in DOMAIN frames : frames[i].by # a,
           \A b \in Activation \ {a} : act'[b] = act[b],
           act'[a].pc = "writing", act'[a].sock = c,
           gen'.chain = Append(frames, [name |-> n, by |-> a]), gen'.sock = c
    PROVE  Queued'
  <1> DEFINE f    == [name |-> n, by |-> a]
             more == Append(frames, f)
  <1>1. f \in Frame /\ f.by = a
    BY Constants
  <1>2. /\ Len(frames) \in Nat /\ DOMAIN frames = 1..Len(frames)
        /\ DOMAIN more = 1..(Len(frames) + 1)
        /\ \A i \in 1..Len(frames) : more[i] = frames[i]
        /\ more[Len(frames) + 1] = f
    BY <1>1, AppendOf
  <1>3. \A i \in DOMAIN frames : frames[i].by \in Activation \cup {0}
    BY WriterOf
  <1> HIDE DEF f, more
  <1>4. ASSUME NEW i \in DOMAIN more, more[i].by # 0
        PROVE  /\ act'[more[i].by].pc = "writing" /\ act'[more[i].by].sock = c
               /\ \A j \in DOMAIN more : more[j].by = more[i].by => j = i
    <2>1. CASE i = Len(frames) + 1
      BY <1>1, <1>2, <2>1
    <2>2. CASE i \in DOMAIN frames
      BY <1>1, <1>2, <1>3, <1>4, <2>2 DEF Queues, Waits
    <2> QED BY <1>2, <2>1, <2>2
  <1> QED BY <1>4 DEF Queued, Queues, Waits, more, f

\* A pass of a on the live socket: g is what its generation has become, me
\* where a stands.
Live(a, g, me) ==
    /\ ~closed /\ sock # None /\ act[a].sock = sock /\ me.sock = sock /\ g.sock = sock
    /\ act[a].pc \in {"resume", "writing", "told"}
    /\ g \in Generation /\ me \in Standing
    /\ g.claimed \cap g.acked = {}
    /\ \A n \in Name : Has(gen, n) => Has(g, n)
    /\ ToSet(me.todo) = ToSet(act[a].todo)
    /\ Queues(g.chain, sock) /\ \A i \in DOMAIN g.chain : g.chain[i].by # a
    /\ ~peer'.down => Wired(g, peer'.subs)
    /\ UNCHANGED <<recorded, closed, dialing, retry, dialled>>
    /\ held' \in BOOLEAN /\ peer' \in Peer /\ peer'.down = peer.down

LEMMA RecordedNames == IInv => Recorded \subseteq Name
  BY LenProperties, ElementOfSeq DEF IInv, Typed, Recorded, ToSet

LEMMA IssueKeeps ==
    ASSUME IInv, NEW a \in Activation, NEW g, NEW me, Live(a, g, me),
           NEW i \in DOMAIN me.todo, Due(me.todo[i], g),
           \A j \in 1..i - 1 : ~Due(me.todo[j], g),
           Issue(a, g, me.todo[i], [me EXCEPT !.todo = SubSeq(@, i + 1, Len(@))])
    PROVE  IInv'
  <1> DEFINE n    == me.todo[i]
             rest == SubSeq(me.todo, i + 1, Len(me.todo))
             you  == [me EXCEPT !.todo = rest, !.pc = "writing"]
             f    == [name |-> n, by |-> a]
  <1>1. /\ me.todo \in Seq(Name) /\ n \in Recorded /\ n \in Name /\ ~Has(g, n)
    BY RecordedNames DEF Live, Standing, Due
  <1>2. /\ rest \in Seq(Name)
        /\ ToSet(rest) = {me.todo[j] : j \in (i + 1)..Len(me.todo)}
        /\ Len(me.todo) \in Nat /\ DOMAIN me.todo = 1..Len(me.todo)
    BY <1>1, RestOf
  <1> HIDE DEF rest
  <1>3. /\ you \in Standing /\ you.pc = "writing" /\ you.sock = sock /\ you.todo = rest
        /\ act' = [act EXCEPT ![a] = you]
    BY <1>2 DEF Live, Standing, Place, Issue, rest
  <1>4. f \in Frame /\ f.name = n /\ f.by = a /\ a # 0
    BY <1>1, Constants
  <1>5. /\ gen'.sock = sock /\ gen'.claimed = g.claimed \cup {n} /\ gen'.acked = g.acked
        /\ gen'.chain = Append(g.chain, f) /\ gen' \in Generation
    <2>1. g.chain \in Seq(Frame) /\ Append(g.chain, f) \in Seq(Frame)
      BY <1>4, AppendOf DEF Live, Generation
    <2> QED BY <1>1, <2>1 DEF Live, Generation, Issue
  <1> HIDE DEF n, you, f
  <1>6. /\ UNCHANGED <<sock, loopConn, loops, intent, missed>> /\ sock # None
        /\ UNCHANGED <<recorded, closed, dialing, retry, dialled>>
        /\ ~closed /\ act[a].pc # "dialing"
    BY DEF Live, Issue
  <1>7. /\ act' \in [Activation -> Standing] /\ act'[a] = you
        /\ \A b \in Activation \ {a} : act'[b] = act[b]
        /\ Engaged'
    BY <1>3, <1>5, <1>6, MovesOn
  <1>8. Typed'
    BY <1>5, <1>6, <1>7 DEF Live, IInv, Typed
  <1>9. Linked'
    BY <1>1, <1>5, <1>6 DEF Live, IInv, Typed, Linked, Issue, Intervals, Has, None
  <1>10. Queued'
    BY <1>1, <1>3, <1>5, <1>7, QueueGrows DEF Live, Generation, f
  <1>11. Shut'
    BY <1>6 DEF Shut
  <1>12. WireMatchesRecord'
    <2> SUFFICES ASSUME ~peer'.down, NEW m \in Name
                 PROVE  /\ WillHold(peer'.subs, gen'.chain, m) <=> Has(gen', m)
                        /\ Has(gen', m) => m \in Recorded
      BY <1>6 DEF WireMatchesRecord, Recorded, WillHold, Has
    <2>1. /\ WillHold(peer'.subs, g.chain, m) <=> Has(g, m)
          /\ Has(g, m) => m \in Recorded
      BY DEF Live, Wired
    <2>2. WillHold(peer'.subs, gen'.chain, m)
            <=> IF n = m THEN a # 0 ELSE WillHold(peer'.subs, g.chain, m)
      BY <1>4, <1>5, FrameQueued DEF Live, Generation
    <2>3. Has(gen', m) <=> m = n \/ Has(g, m)
      BY <1>5 DEF Has
    <2> QED BY <1>1, <1>4, <2>1, <2>2, <2>3
  <1>13. NeverDeaf'
    <2>1. CASE retry
      BY <1>6, <2>1 DEF NeverDeaf
    <2>2. CASE ~retry
      <3>1. Working(a)' /\ a \in Activation
        BY <1>3, <1>6, <1>7 DEF Working
      <3>2. ASSUME NEW m \in Recorded
            PROVE  \/ Has(gen', m)
                   \/ \E b \in Activation : Working(b)' /\ m \in ToSet(act'[b].todo)
        <4>1. \/ Has(gen, m)
              \/ \E b \in Activation : Working(b) /\ m \in ToSet(act[b].todo)
          BY <1>6, <2>2 DEF IInv, NeverDeaf
        <4>2. CASE Has(g, m)
          BY <1>5, <4>2 DEF Has
        <4>3. CASE m \in ToSet(act[a].todo) /\ ~Has(g, m)
          <5>1. PICK j \in DOMAIN me.todo : m = me.todo[j]
            BY <4>3 DEF Live, ToSet
          <5>2. j \notin 1..(i - 1)
            BY <4>3, <5>1 DEF Due
          <5>3. CASE j = i
            BY <1>5, <5>1, <5>3 DEF Has, n
          <5>4. CASE j # i
            <6>1. j \in (i + 1)..Len(me.todo)
              BY <1>2, <5>2, <5>4
            <6>2. act'[a].todo = rest
              BY <1>3, <1>7
            <6>3. m \in ToSet(act'[a].todo)
              BY <1>2, <5>1, <6>1, <6>2
            <6> QED BY <3>1, <6>3
          <5> QED BY <5>3, <5>4
        <4>4. ASSUME NEW b \in Activation, b # a, Working(b), m \in ToSet(act[b].todo)
              PROVE  Working(b)' /\ m \in ToSet(act'[b].todo)
          BY <1>6, <1>7, <4>4 DEF Working
        <4>5. m \in Name
          BY RecordedNames
        <4> QED BY <4>1, <4>2, <4>3, <4>4, <4>5 DEF Live
      <3>3. (\A m \in Recorded : \/ Has(gen, m)
                                 \/ \E b \in Activation : Working(b) /\ m \in ToSet(act[b].todo))'
        BY <1>6, <3>2 DEF Recorded, Has, Working
      <3> QED BY <3>1, <3>3 DEF NeverDeaf
    <2> QED BY <2>1, <2>2
  <1> QED BY <1>8, <1>9, <1>7, <1>10, <1>11, <1>12, <1>13 DEF IInv

LEMMA FinishKeeps ==
    ASSUME IInv, NEW a \in Activation, NEW g, NEW me, Live(a, g, me),
           \A n \in ToSet(me.todo) : ~Due(n, g), Finish(a, g, me)
    PROVE  IInv'
  <1> DEFINE you == IF intent THEN [me EXCEPT !.pc = "ending"] ELSE NotRunning
  <1>1. /\ gen' = g /\ UNCHANGED sock
        /\ loops' = IF loopConn = sock THEN loops ELSE loops \cup {sock}
        /\ loopConn' = sock
        /\ pinging' = Intervals(sock) \cup {sock}
        /\ intent' = FALSE
        /\ missed' = (missed /\ ~intent)
        /\ act' = [act EXCEPT ![a] = you]
    BY DEF Live, Finish, Ends
  <1>2. /\ UNCHANGED <<recorded, closed, dialing, retry, dialled>> /\ sock # None
        /\ ~closed /\ act[a].pc # "dialing" /\ g.sock = sock /\ g \in Generation
    BY DEF Live
  <1>3. /\ you \in Standing /\ you.pc \in {"idle", "ending"}
        /\ you.pc # "idle" => you.sock = sock
    BY Constants DEF Live, Standing, Place, NotRunning
  <1> HIDE DEF you
  <1>4. /\ act' \in [Activation -> Standing] /\ act'[a] = you
        /\ \A b \in Activation \ {a} : act'[b] = act[b]
        /\ Engaged'
    BY <1>1, <1>2, <1>3, MovesOn
  <1>5. sock \in loops' /\ loops' \subseteq 1..dialled
    BY <1>1, <1>2 DEF IInv, Typed, Linked, None
  <1>6. Typed'
    BY <1>1, <1>2, <1>4, <1>5 DEF Live, IInv, Typed
  <1>7. Linked'
    BY <1>1, <1>2, <1>5 DEF Live, IInv, Linked, Intervals, None
  <1>8. Queued'
    BY <1>1, <1>2, <1>4, QueueKept DEF Live, Generation
  <1>9. Shut'
    BY <1>2 DEF Shut
  <1>10. WireMatchesRecord'
    BY <1>1, <1>2 DEF Live, Wired, WireMatchesRecord, Recorded, WillHold, Has
  <1>11. NeverDeaf'
    <2>1. CASE retry
      BY <1>2, <2>1 DEF NeverDeaf
    <2>2. CASE ~retry
      <3>1. ASSUME NEW m \in Recorded
            PROVE  \/ Has(gen', m)
                   \/ \E b \in Activation : Working(b)' /\ m \in ToSet(act'[b].todo)
        <4>1. \/ Has(gen, m)
              \/ \E b \in Activation : Working(b) /\ m \in ToSet(act[b].todo)
          BY <1>2, <2>2 DEF IInv, NeverDeaf
        <4>2. CASE Has(gen, m)
          BY <1>1, <4>2, RecordedNames DEF Live
        <4>3. CASE m \in ToSet(act[a].todo)
          BY <1>1, <4>3 DEF Live, Due
        <4>4. ASSUME NEW b \in Activation, b # a, Working(b), m \in ToSet(act[b].todo)
              PROVE  Working(b)' /\ m \in ToSet(act'[b].todo)
          BY <1>1, <1>2, <1>4, <4>4 DEF Working
        <4> QED BY <4>1, <4>2, <4>3, <4>4
      <3>2. (\A m \in Recorded : \/ Has(gen, m)
                                 \/ \E b \in Activation : Working(b) /\ m \in ToSet(act[b].todo))'
        BY <1>2, <3>1 DEF Recorded, Has, Working
      <3> QED BY <1>1, <1>5, <3>2 DEF NeverDeaf
    <2> QED BY <2>1, <2>2
  <1> QED BY <1>4, <1>6, <1>7, <1>8, <1>9, <1>10, <1>11 DEF IInv

LEMMA TellKeeps ==
    ASSUME IInv, NEW a \in Activation, NEW g, NEW me, Live(a, g, me), Tell(a, g, me)
    PROVE  IInv'
  <1> DEFINE you == [me EXCEPT !.pc = "told", !.early = TRUE]
  <1>1. /\ gen' = g /\ intent' = FALSE /\ missed' = FALSE
        /\ UNCHANGED <<sock, pinging, loopConn, loops>>
        /\ act' = [act EXCEPT ![a] = you]
    BY DEF Tell
  <1>2. /\ UNCHANGED <<recorded, closed, dialing, retry, dialled>> /\ sock # None
        /\ ~closed /\ act[a].pc # "dialing" /\ g.sock = sock /\ g \in Generation
    BY DEF Live
  <1>3. /\ you \in Standing /\ you.pc = "told" /\ you.sock = sock /\ you.todo = me.todo
    BY DEF Live, Standing, Place
  <1> HIDE DEF you
  <1>4. /\ act' \in [Activation -> Standing] /\ act'[a] = you
        /\ \A b \in Activation \ {a} : act'[b] = act[b]
        /\ Engaged'
    BY <1>1, <1>2, <1>3, MovesOn
  <1>5. Typed'
    BY <1>1, <1>2, <1>4 DEF Live, IInv, Typed
  <1>6. Linked'
    BY <1>1, <1>2 DEF Live, IInv, Linked, None
  <1>7. Queued'
    BY <1>1, <1>2, <1>4, QueueKept DEF Live, Generation
  <1>8. Shut'
    BY <1>2 DEF Shut
  <1>9. WireMatchesRecord'
    BY <1>1, <1>2 DEF Live, Wired, WireMatchesRecord, Recorded, WillHold, Has
  <1>10. NeverDeaf'
    <2>1. CASE retry
      BY <1>2, <2>1 DEF NeverDeaf
    <2>2. CASE ~retry
      <3>1. Working(a)'
        BY <1>1, <1>2, <1>3, <1>4 DEF Working
      <3>2. ASSUME NEW m \in Recorded
            PROVE  \/ Has(gen', m)
                   \/ \E b \in Activation : Working(b)' /\ m \in ToSet(act'[b].todo)
        <4>1. \/ Has(gen, m)
              \/ \E b \in Activation : Working(b) /\ m \in ToSet(act[b].todo)
          BY <1>2, <2>2 DEF IInv, NeverDeaf
        <4>2. CASE Has(gen, m)
          BY <1>1, <4>2, RecordedNames DEF Live
        <4>3. CASE m \in ToSet(act[a].todo)
          BY <1>3, <1>4, <3>1, <4>3 DEF Live
        <4>4. ASSUME NEW b \in Activation, b # a, Working(b), m \in ToSet(act[b].todo)
              PROVE  Working(b)' /\ m \in ToSet(act'[b].todo)
          BY <1>1, <1>2, <1>4, <4>4 DEF Working
        <4> QED BY <4>1, <4>2, <4>3, <4>4
      <3>3. (\A m \in Recorded : \/ Has(gen, m)
                                 \/ \E b \in Activation : Working(b) /\ m \in ToSet(act[b].todo))'
        BY <1>2, <3>2 DEF Recorded, Has, Working
      <3> QED BY <3>1, <3>3 DEF NeverDeaf
    <2> QED BY <2>1, <2>2
  <1> QED BY <1>4, <1>5, <1>6, <1>7, <1>8, <1>9, <1>10 DEF IInv

LEMMA ProceedKeeps ==
    ASSUME IInv, NEW a \in Activation, NEW g, NEW me, Live(a, g, me), Proceed(a, g, me)
    PROVE  IInv'
  BY IssueKeeps, FinishKeeps DEF Proceed

\* The socket is given up, and with it all that belongs to it.
Dropped == /\ sock' = None /\ gen' = NoGeneration /\ peer' = SilentPeer
           /\ loopConn' = None /\ pinging' = {}
Undisturbed == UNCHANGED <<sock, gen, peer, loopConn, pinging>>

LEMMA Discarded ==
    ASSUME IInv, NEW c, c # None, Discard(c)
    PROVE  /\ c = sock => Dropped
           /\ c # sock => Undisturbed
           /\ missed' \in BOOLEAN
  BY DEF IInv, Typed, Linked, Discard, Dropped, Undisturbed, None

\* Whoever gives a socket up leaves a retry behind.
LEMMA FallsBack ==
    ASSUME IInv, Settled, ~closed, retry', intent' \in BOOLEAN, missed' \in BOOLEAN, retry' \in BOOLEAN,
           UNCHANGED <<recorded, closed, held, dialing, dialled>>,
           loops' \subseteq loops, loopConn' # None => loopConn' \in loops',
           Dropped \/ Undisturbed,
           \/ UNCHANGED act
           \/ \E a \in Activation : /\ act' = [act EXCEPT ![a] = NotRunning]
                                    /\ act[a].pc # "dialing"
                                    /\ Dropped \/ \A i \in DOMAIN gen.chain : gen.chain[i].by # a
    PROVE  IInv'
  <1>1. /\ act' \in [Activation -> Standing]
        /\ \A a \in Activation : \/ act'[a] = act[a]
                                 \/ /\ act'[a] = NotRunning /\ act[a].pc # "dialing"
                                    /\ Dropped \/ \A i \in DOMAIN gen.chain : gen.chain[i].by # a
    BY Constants DEF IInv, Typed
  <1>2. /\ NoGeneration.sock = None /\ NoGeneration.claimed = {} /\ NoGeneration.acked = {}
        /\ NoGeneration.chain = <<>> /\ SilentPeer.subs = {} /\ NotRunning.pc = "idle"
    BY DEF NoGeneration, SilentPeer, NotRunning
  <1>3. Typed'
    BY <1>1, Constants DEF IInv, Typed, Dropped, Undisturbed, None
  <1>4. Linked'
    BY <1>2 DEF IInv, Linked, Dropped, Undisturbed, None
  <1>5. Engaged'
    <2>1. dialing => sock' = None /\ \E b \in Activation : act'[b].pc = "dialing"
      BY <1>1 DEF IInv, Engaged, Dropped, Undisturbed
    <2>2. ASSUME NEW b \in Activation
          PROVE  /\ act'[b].pc = "dialing" => dialing'
                 /\ act'[b].pc \in {"resume", "writing", "told", "ending"} => act'[b].sock \in 1..dialled'
                 /\ act'[b].pc = "resume" /\ ~closed' => act'[b].sock = sock'
                 /\ act'[b].pc \in {"writing", "told", "ending"} /\ act'[b].sock = sock'
                       => gen'.sock = sock'
      <3>1. CASE act'[b] = NotRunning
        BY <1>2, <3>1
      <3>2. CASE act'[b] = act[b]
        BY <3>2 DEF IInv, Typed, Engaged, Settled, Dropped, Undisturbed, None
      <3> QED BY <1>1, <3>1, <3>2
    <2> QED BY <2>1, <2>2 DEF Engaged
  <1>6. Queued'
    <2>1. CASE Dropped
      BY <1>2, <2>1 DEF Dropped, Queued, Queues
    <2>2. CASE ~Dropped
      <3>1. \A i \in DOMAIN gen.chain : gen.chain[i].by \in Activation \cup {0}
        BY WriterOf DEF IInv, Typed, Generation
      <3>2. \A a \in Activation : \/ act'[a] = act[a]
                                  \/ \A i \in DOMAIN gen.chain : gen.chain[i].by # a
        BY <1>1, <2>2
      <3> QED BY <2>2, <3>1, <3>2 DEF IInv, Queued, Queues, Waits, Undisturbed
    <2> QED BY <2>1, <2>2
  <1>7. Shut'
    BY DEF Shut
  <1>8. WireMatchesRecord'
    <2>1. CASE Dropped
      BY <1>2, <2>1 DEF Dropped, WireMatchesRecord
    <2>2. CASE Undisturbed
      BY <2>2 DEF Undisturbed, IInv, WireMatchesRecord, Recorded, WillHold, Has
    <2> QED BY <2>1, <2>2
  <1>9. NeverDeaf'
    BY DEF NeverDeaf
  <1> QED BY <1>3, <1>4, <1>5, <1>6, <1>7, <1>8, <1>9 DEF IInv

\* The end of an activation of a closed connection.
LEMMA EndsClosed ==
    ASSUME IInv, closed, NEW a \in Activation, Ends(a), act[a].pc # "dialing",
           \/ Dropped
           \/ Undisturbed /\ (act[a].pc = "resume" => act[a].sock # sock),
           missed' \in BOOLEAN,
           UNCHANGED <<recorded, closed, held, dialing, loops, retry, intent, dialled>>
    PROVE  IInv'
  <1>1. /\ act' \in [Activation -> Standing] /\ act'[a] = NotRunning /\ NotRunning.pc = "idle"
        /\ \A b \in Activation \ {a} : act'[b] = act[b]
    BY Constants DEF IInv, Typed, Ends, NotRunning
  <1>2. /\ NoGeneration.sock = None /\ NoGeneration.claimed = {} /\ NoGeneration.acked = {}
        /\ NoGeneration.chain = <<>> /\ SilentPeer.subs = {}
    BY DEF NoGeneration, SilentPeer
  <1>3. gen = NoGeneration /\ gen' = NoGeneration /\ pinging' = {} /\ loopConn' = None
    BY DEF IInv, Shut, Dropped, Undisturbed
  <1>4. Typed'
    BY <1>1, Constants DEF IInv, Typed, Dropped, Undisturbed, None
  <1>5. Linked'
    BY <1>2, <1>3 DEF IInv, Linked, Dropped, Undisturbed, None
  <1>6. Engaged'
    <2>1. dialing => sock' = None /\ \E b \in Activation : act'[b].pc = "dialing"
      BY <1>1 DEF IInv, Engaged, Dropped, Undisturbed
    <2>2. ASSUME NEW b \in Activation
          PROVE  /\ act'[b].pc = "dialing" => dialing'
                 /\ act'[b].pc \in {"resume", "writing", "told", "ending"} => act'[b].sock \in 1..dialled'
                 /\ act'[b].pc \in {"writing", "told", "ending"} /\ act'[b].sock = sock'
                       => gen'.sock = sock'
      <3>1. CASE b = a
        BY <1>1, <3>1
      <3>2. CASE b # a
        BY <1>1, <3>2 DEF IInv, Typed, Engaged, Dropped, Undisturbed, None
      <3> QED BY <3>1, <3>2
    <2> QED BY <2>1, <2>2 DEF Engaged
  <1>7. Queued'
    BY <1>2, <1>3 DEF Queued, Queues
  <1>8. Shut'
    BY <1>1, <1>3 DEF IInv, Shut, Dropped, Undisturbed
  <1>9. WireMatchesRecord' /\ NeverDeaf'
    BY <1>2, <1>3 DEF WireMatchesRecord, NeverDeaf
  <1> QED BY <1>4, <1>5, <1>6, <1>7, <1>8, <1>9 DEF IInv

\* An activation stops that the live socket does not depend on.
LEMMA StopsKeeps ==
    ASSUME IInv, NEW a \in Activation, Ends(a), act[a].pc \in {"told", "ending"},
           act[a].pc = "ending" \/ act[a].sock # sock,
           \A i \in DOMAIN gen.chain : gen.chain[i].by # a,
           UNCHANGED <<recorded, closed, held, dialing, loops, retry, intent, dialled,
                       sock, gen, loopConn, pinging, peer, missed>>
    PROVE  IInv'
  <1>1. /\ act' \in [Activation -> Standing] /\ act'[a] = NotRunning /\ NotRunning.pc = "idle"
        /\ \A b \in Activation \ {a} : act'[b] = act[b]
    BY Constants DEF IInv, Typed, Ends, NotRunning
  <1>2. Typed' /\ Linked'
    BY <1>1 DEF IInv, Typed, Linked
  <1>3. Engaged'
    BY <1>1 DEF IInv, Engaged
  <1>4. Queued'
    <2>1. \A i \in DOMAIN gen.chain : gen.chain[i].by \in Activation \cup {0}
      BY WriterOf DEF IInv, Typed, Generation
    <2> QED BY <1>1, <2>1 DEF IInv, Queued, Queues, Waits
  <1>5. Shut'
    BY <1>1 DEF IInv, Shut
  <1>6. WireMatchesRecord'
    BY DEF IInv, WireMatchesRecord, Recorded, WillHold, Has
  <1>7. NeverDeaf'
    <2>1. \A b \in Activation : Working(b) => Working(b)' /\ act'[b].todo = act[b].todo
      BY <1>1 DEF Working
    <2>2. /\ \A n : Has(gen, n)' <=> Has(gen, n)
          /\ Recorded' = Recorded
      BY DEF Has, Recorded
    <2> QED BY <2>1, <2>2 DEF IInv, NeverDeaf
  <1> QED BY <1>2, <1>3, <1>4, <1>5, <1>6, <1>7 DEF IInv

\* The catch of #activate().
LEMMA FailsKeeps ==
    ASSUME IInv, Settled, NEW a \in Activation, act[a].pc \in {"writing", "told"}, Fails(a),
           UNCHANGED <<recorded, closed, held, dialing, loops, dialled>>
    PROVE  IInv'
  <1>1. act[a].sock \in 1..dialled /\ act[a].sock # None
    BY DEF IInv, Engaged, None
  <1>2. CASE closed
    BY <1>2, EndsClosed DEF Fails, link, Undisturbed, IInv, Typed
  <1>3. CASE ~closed
    <2>1. /\ Ends(a) /\ Discard(act[a].sock)
          /\ ScheduleRetry(loopConn = act[a].sock \/ act[a].early)
      BY <1>3 DEF Fails
    <2>2. /\ act[a].sock = sock => Dropped
          /\ act[a].sock # sock => Undisturbed
          /\ missed' \in BOOLEAN
      BY <1>1, <2>1, Discarded
    <2>3. act[a].early \in BOOLEAN
      BY DEF IInv, Typed, Standing
    <2>4. retry' /\ retry' \in BOOLEAN /\ intent' \in BOOLEAN
      BY <1>3, <2>1, <2>3 DEF ScheduleRetry, IInv, Typed
    <2>5. act[a].sock # sock => \A i \in DOMAIN gen.chain : gen.chain[i].by # a
      BY <1>1, Constants DEF IInv, Linked, Queued, Queues, Waits
    <2>6. loopConn' # None => loopConn' \in loops'
      BY <2>2 DEF IInv, Linked, Dropped, Undisturbed
    <2> QED BY <1>3, <2>1, <2>2, <2>4, <2>5, <2>6, FallsBack DEF Ends
  <1> QED BY <1>2, <1>3

\* A new activation, on the live socket or waiting for one; without a retry
\* it covers what the record has gained, and otherwise all of it.
LEMMA ActivateKeeps ==
    ASSUME IInv, ~closed, NEW names \in Seq(Name), Activate(names),
           recorded' \in Seq(Name), IsInjective(recorded'), Recorded \subseteq ToSet(recorded'),
           \/ ToSet(recorded') \subseteq ToSet(names)
           \/ /\ retry' = retry
              /\ ToSet(recorded') \subseteq Recorded \cup ToSet(names),
           retry' \in BOOLEAN,
           UNCHANGED <<closed, held, loops, intent, link, dialled>>
    PROVE  IInv'
  <1> DEFINE you == [NotRunning EXCEPT !.pc = IF sock = None THEN "dialing" ELSE "resume",
                                       !.sock = sock, !.todo = names]
  <1>1. PICK a \in Activation : /\ act[a].pc = "idle"
                                /\ act' = [act EXCEPT ![a] = you]
                                /\ dialing' = (dialing \/ sock = None)
    BY DEF Activate, Idle
  <1>2. /\ you \in Standing /\ you.sock = sock /\ you.todo = names
        /\ you.pc = IF sock = None THEN "dialing" ELSE "resume"
    <2>1. sock \in Nat
      BY DEF IInv, Typed
    <2> QED BY <2>1 DEF Standing, Place, NotRunning
  <1> HIDE DEF you
  <1>3. /\ act' \in [Activation -> Standing] /\ act'[a] = you
        /\ \A b \in Activation \ {a} : act'[b] = act[b]
    BY <1>1, <1>2 DEF IInv, Typed
  <1>4. UNCHANGED <<sock, gen, loopConn, pinging, peer, missed, loops, closed, held, intent, dialled>>
    BY DEF link
  <1>5. Typed'
    BY <1>1, <1>3, <1>4 DEF IInv, Typed
  <1>6. Linked'
    BY <1>4 DEF IInv, Linked
  <1>7. Engaged'
    <2>1. dialing' => sock' = None /\ \E b \in Activation : act'[b].pc = "dialing"
      BY <1>1, <1>2, <1>3, <1>4 DEF IInv, Engaged
    <2>2. ASSUME NEW b \in Activation
          PROVE  /\ act'[b].pc = "dialing" => dialing'
                 /\ act'[b].pc \in {"resume", "writing", "told", "ending"} => act'[b].sock \in 1..dialled'
                 /\ act'[b].pc = "resume" /\ ~closed' => act'[b].sock = sock'
                 /\ act'[b].pc \in {"writing", "told", "ending"} /\ act'[b].sock = sock'
                       => gen'.sock = sock'
      <3>1. CASE b = a
        <4>1. CASE sock = None
          BY <1>1, <1>2, <1>3, <3>1, <4>1
        <4>2. CASE sock # None
          <5>1. sock \in 1..dialled
            BY <4>2 DEF IInv, Typed, None
          <5> QED BY <1>2, <1>3, <1>4, <3>1, <4>2, <5>1
        <4> QED BY <4>1, <4>2
      <3>2. CASE b # a
        BY <1>1, <1>3, <1>4, <3>2 DEF IInv, Engaged
      <3> QED BY <3>1, <3>2
    <2> QED BY <2>1, <2>2 DEF Engaged
  <1>8. Queued'
    <2>1. \A i \in DOMAIN gen.chain : gen.chain[i].by \in Activation \cup {0}
      BY WriterOf DEF IInv, Typed, Generation
    <2>2. \A i \in DOMAIN gen.chain : gen.chain[i].by # a
      BY <1>1, Constants DEF IInv, Queued, Queues, Waits
    <2> QED BY <1>3, <1>4, <2>1, <2>2 DEF IInv, Queued, Queues, Waits
  <1>9. Shut'
    BY <1>4 DEF Shut
  <1>10. WireMatchesRecord'
    BY <1>4 DEF IInv, WireMatchesRecord, Recorded, WillHold, Has
  <1>11. NeverDeaf'
    <2>1. Working(a)' /\ act'[a].todo = names
      BY <1>2, <1>3, <1>4 DEF Working
    <2>2. ASSUME ~retry' PROVE \A n \in ToSet(recorded') :
             \/ Has(gen', n)
             \/ \E b \in Activation : Working(b)' /\ n \in ToSet(act'[b].todo)
      <3>1. SUFFICES ASSUME NEW n \in Recorded, ~retry
                     PROVE  \/ Has(gen, n)
                            \/ \E b \in Activation : Working(b)' /\ n \in ToSet(act'[b].todo)
        BY <1>1, <1>4, <2>1, <2>2
      <3>2. \/ Has(gen, n)
            \/ \E b \in Activation : Working(b) /\ n \in ToSet(act[b].todo)
        BY <3>1 DEF IInv, NeverDeaf
      <3>3. ASSUME NEW b \in Activation, Working(b), n \in ToSet(act[b].todo)
            PROVE  Working(b)' /\ n \in ToSet(act'[b].todo)
        <4>1. b # a
          BY <1>1, <3>3 DEF Working
        <4> QED BY <1>3, <1>4, <3>3, <4>1 DEF Working
      <3> QED BY <3>2, <3>3
    <2>3. ~retry' => (\A n \in Recorded :
             \/ Has(gen, n)
             \/ \E b \in Activation : Working(b) /\ n \in ToSet(act[b].todo))'
      BY <2>2 DEF Recorded, Has, Working
    <2> QED BY <1>1, <2>1, <2>3 DEF NeverDeaf
  <1> QED BY <1>5, <1>6, <1>7, <1>8, <1>9, <1>10, <1>11 DEF IInv

-----------------------------------------------------------------------------
(* The actions.                                                            *)

LEMMA SingleOf == ASSUME NEW S, NEW e \in S PROVE <<e>> \in Seq(S) /\ ToSet(<<e>>) = {e}
  <1>1. <<e>> \in Seq(S) /\ {<<e>>[i] : i \in DOMAIN <<e>>} = {e}
    OBVIOUS
  <1> QED BY <1>1 DEF ToSet

\* What a call records.
LEMMA Records ==
    ASSUME IInv, NEW n \in Name, recorded' = IF n \in Recorded THEN recorded ELSE Append(recorded, n)
    PROVE  /\ recorded' \in Seq(Name) /\ IsInjective(recorded')
           /\ ToSet(recorded') = Recorded \cup {n}
  <1>1. CASE n \in Recorded
    BY <1>1 DEF IInv, Typed, Recorded
  <1>2. CASE n \notin Recorded
    BY <1>2, AppendOf, SetOfAppend, InjectiveAppend DEF IInv, Typed, Recorded
  <1> QED BY <1>1, <1>2

LEMMA PsubscribeKeeps == ASSUME IInv, NEW n \in Name, Psubscribe(n) PROVE IInv'
  <1>1. /\ recorded' \in Seq(Name) /\ IsInjective(recorded')
        /\ ToSet(recorded') = Recorded \cup {n}
    BY Records DEF Psubscribe
  <1>2. ~closed /\ retry' = retry /\ retry' \in BOOLEAN
    BY DEF Psubscribe, MayCall, IInv, Typed
  <1> QED BY <1>1, <1>2, ActivateKeeps DEF Psubscribe

LEMMA SubscribeOneKeeps == ASSUME IInv, NEW n \in Name, SubscribeOne(n) PROVE IInv'
  <1>1. /\ recorded' \in Seq(Name) /\ IsInjective(recorded')
        /\ ToSet(recorded') = Recorded \cup {n}
    BY Records DEF SubscribeOne
  <1>2. ~closed /\ retry' = retry /\ retry' \in BOOLEAN
    BY DEF SubscribeOne, MayCall, IInv, Typed
  <1>3. <<n>> \in Seq(Name) /\ ToSet(<<n>>) = {n}
    BY SingleOf
  <1> HIDE DEF ToSet
  <1> QED BY <1>1, <1>2, <1>3, ActivateKeeps DEF SubscribeOne

LEMMA RetryFiresKeeps == ASSUME IInv, RetryFires PROVE IInv'
  <1>1. ~closed
    BY DEF IInv, Shut, RetryFires
  <1>2. /\ recorded' = recorded /\ recorded \in Seq(Name) /\ IsInjective(recorded)
        /\ ToSet(recorded) = Recorded
    BY DEF IInv, Typed, RetryFires, Recorded
  <1> QED BY <1>1, <1>2, ActivateKeeps DEF RetryFires

\* A socket comes into being for whoever waits for it.
LEMMA DialSucceedsKeeps == ASSUME IInv, DialSucceeds PROVE IInv'
  <1>1. /\ dialing /\ Settled /\ sock = None /\ sock' = dialled + 1 /\ dialled' = dialled + 1
        /\ dialing' = FALSE /\ dialled \in Nat
        /\ UNCHANGED <<recorded, closed, held, gen, loopConn, loops, pinging, retry, intent,
                       peer, missed>>
    BY DEF IInv, Typed, Engaged, DialSucceeds
  <1>2. /\ act' \in [Activation -> Standing]
        /\ \A a \in Activation :
              IF act[a].pc = "dialing"
                THEN act'[a].pc = "resume" /\ act'[a].sock = sock' /\ act'[a].todo = act[a].todo
                ELSE act'[a] = act[a]
    <2> DEFINE Up(a) == [act[a] EXCEPT !.pc = "resume", !.sock = sock']
    <2>1. sock' \in Nat /\ sock' = dialled'
      BY <1>1
    <2>2. act' = [a \in Activation |-> IF act[a].pc = "dialing" THEN Up(a) ELSE act[a]]
      BY <2>1, Zenon DEF DialSucceeds
    <2>3. \A a \in Activation : /\ Up(a).pc = "resume" /\ Up(a).sock = sock'
                               /\ Up(a).todo = act[a].todo /\ Up(a) \in Standing
      BY <2>1 DEF IInv, Typed, Standing, Place
    <2>4. \A a \in Activation : act[a] \in Standing
      BY DEF IInv, Typed
    <2> HIDE DEF Up
    <2> QED BY <2>2, <2>3, <2>4
  <1>3. PICK b \in Activation : act[b].pc = "dialing"
    BY <1>1 DEF IInv, Engaged
  <1>4. gen = NoGeneration /\ gen.sock = None /\ gen.chain = <<>> /\ loopConn = None
    BY <1>1 DEF IInv, Linked, NoGeneration
  <1>5. Typed'
    <2>1. sock' \in 0..dialled' /\ loops' \subseteq 1..dialled' /\ dialled' \in Nat
      BY <1>1 DEF IInv, Typed
    <2> QED BY <1>1, <1>2, <2>1 DEF IInv, Typed
  <1>6. Linked'
    BY <1>1, <1>4 DEF IInv, Linked
  <1>7. Engaged'
    BY <1>1, <1>2 DEF IInv, Typed, Engaged, Settled, None
  <1>8. Queued'
    BY <1>1, <1>4 DEF Queued, Queues
  <1>9. Shut'
    BY <1>1, <1>2, <1>3 DEF IInv, Shut
  <1>10. WireMatchesRecord'
    BY <1>1, <1>4 DEF WireMatchesRecord
  <1>11. NeverDeaf'
    <2>1. \A a \in Activation : Working(a) => Working(a)' /\ act'[a].todo = act[a].todo
      BY <1>1, <1>2 DEF Working, Settled, IInv, Engaged, None
    <2>2. Working(b)'
      BY <1>2, <1>3 DEF Working
    <2>3. \A n \in Recorded : ~closed /\ ~retry =>
             \/ Has(gen', n)
             \/ \E a \in Activation : Working(a)' /\ n \in ToSet(act'[a].todo)
      BY <1>1, <2>1 DEF IInv, NeverDeaf
    <2>4. ~closed /\ ~retry => (\A n \in Recorded :
             \/ Has(gen, n)
             \/ \E a \in Activation : Working(a) /\ n \in ToSet(act[a].todo))'
      BY <1>1, <2>3 DEF Recorded, Has, Working
    <2> QED BY <1>1, <2>2, <2>4 DEF NeverDeaf
  <1> QED BY <1>5, <1>6, <1>7, <1>8, <1>9, <1>10, <1>11 DEF IInv

LEMMA DialFailsKeeps == ASSUME IInv, DialFails PROVE IInv'
  <1>1. /\ dialing /\ Settled /\ sock = None /\ dialing' = FALSE
        /\ retry' = (retry \/ ~closed) /\ intent' = intent
        /\ UNCHANGED <<recorded, closed, held, loops, sock, gen, loopConn, pinging, peer, missed, dialled>>
    BY DEF IInv, Typed, Engaged, DialFails, ScheduleRetry, link
  <1>2. /\ act' \in [Activation -> Standing]
        /\ \A a \in Activation : act'[a] = IF act[a].pc = "dialing" THEN NotRunning ELSE act[a]
    BY Constants DEF IInv, Typed, DialFails
  <1>3. NotRunning.pc = "idle"
    BY DEF NotRunning
  <1>4. gen = NoGeneration /\ gen.chain = <<>> /\ gen.sock = None
    BY <1>1 DEF IInv, Linked, NoGeneration
  <1>5. Typed'
    BY <1>1, <1>2 DEF IInv, Typed
  <1>6. Linked'
    BY <1>1 DEF IInv, Linked
  <1>7. Engaged'
    BY <1>1, <1>2, <1>3 DEF IInv, Engaged
  <1>8. Queued'
    BY <1>1, <1>4 DEF Queued, Queues
  <1>9. Shut'
    BY <1>1 DEF IInv, Shut, None
  <1>10. WireMatchesRecord' /\ NeverDeaf'
    BY <1>1, <1>4 DEF WireMatchesRecord, NeverDeaf
  <1> QED BY <1>5, <1>6, <1>7, <1>8, <1>9, <1>10 DEF IInv

\* The name leaves the record in the turn in which its frame is queued.
LEMMA UnsubscribeOneKeeps == ASSUME IInv, NEW n \in Name, UnsubscribeOne(n) PROVE IInv'
  <1> DEFINE f == [name |-> n, by |-> 0]
  <1>1. /\ recorded' \in Seq(Name) /\ IsInjective(recorded')
        /\ ToSet(recorded') = Recorded \ {n}
    <2>1. CASE n \in Recorded
      <3>1. PICK i \in DOMAIN recorded : recorded[i] = n /\ recorded' = RemoveAt(recorded, i)
        BY <2>1 DEF UnsubscribeOne
      <3> QED BY <3>1, RemoveOf DEF IInv, Typed, Recorded
    <2>2. CASE n \notin Recorded
      BY <2>2 DEF UnsubscribeOne, IInv, Typed, Recorded
    <2> QED BY <2>1, <2>2
  <1>2. /\ UNCHANGED <<closed, held, dialing, loops, retry, intent, act, sock, loopConn,
                       pinging, peer, missed, dialled>>
        /\ ~closed
    BY DEF UnsubscribeOne, MayCall
  <1>3. f \in Frame /\ f.name = n /\ f.by = 0
    BY Constants
  <1>4. /\ gen' \in Generation /\ gen'.sock = gen.sock
        /\ gen'.claimed = gen.claimed \ {n} /\ gen'.acked = gen.acked \ {n}
        /\ IF gen.sock = None THEN gen' = gen ELSE gen'.chain = Append(gen.chain, f)
    <2>1. gen.chain \in Seq(Frame) /\ Append(gen.chain, f) \in Seq(Frame)
      BY <1>3, AppendOf DEF IInv, Typed, Generation
    <2>2. CASE gen.sock = None
      BY <2>2 DEF UnsubscribeOne, IInv, Typed, Linked, NoGeneration
    <2>3. CASE gen.sock # None
      <3>1. gen' = [Retire(gen, n) EXCEPT !.chain = Append(@, f)]
        BY <2>3 DEF UnsubscribeOne
      <3> QED BY <2>1, <2>3, <3>1 DEF Retire, IInv, Typed, Generation
    <2> QED BY <2>2, <2>3
  <1> HIDE DEF f
  <1>5. Typed'
    BY <1>1, <1>2, <1>4 DEF IInv, Typed
  <1>6. Linked'
    BY <1>2, <1>4 DEF IInv, Linked
  <1>7. Engaged'
    BY <1>2, <1>4 DEF IInv, Engaged
  <1>8. Queued'
    <2>1. CASE gen.sock = None
      BY <1>2, <1>4, <2>1 DEF IInv, Queued, Queues, Waits
    <2>2. CASE gen.sock # None
      <3>1. /\ Len(gen.chain) \in Nat /\ DOMAIN gen.chain = 1..Len(gen.chain)
            /\ DOMAIN gen'.chain = 1..(Len(gen.chain) + 1)
            /\ \A i \in 1..Len(gen.chain) : gen'.chain[i] = gen.chain[i]
            /\ gen'.chain[Len(gen.chain) + 1] = f
        BY <1>3, <1>4, <2>2, AppendOf DEF IInv, Typed, Generation
      <3>2. ASSUME NEW i \in DOMAIN gen'.chain, gen'.chain[i].by # 0
            PROVE  /\ act[gen'.chain[i].by].pc = "writing"
                   /\ act[gen'.chain[i].by].sock = gen.sock
                   /\ \A j \in DOMAIN gen'.chain : gen'.chain[j].by = gen'.chain[i].by => j = i
        <4>1. i \in DOMAIN gen.chain /\ gen'.chain[i] = gen.chain[i]
          BY <1>3, <3>1, <3>2
        <4>2. Waits(gen.chain, i, gen.sock)
          BY <3>2, <4>1 DEF IInv, Queued, Queues
        <4>3. ASSUME NEW j \in DOMAIN gen'.chain, gen'.chain[j].by = gen'.chain[i].by
              PROVE  j = i
          <5>1. j \in DOMAIN gen.chain /\ gen'.chain[j] = gen.chain[j]
            BY <1>3, <3>1, <3>2, <4>3
          <5> QED BY <4>1, <4>2, <4>3, <5>1 DEF Waits
        <4> QED BY <4>1, <4>2, <4>3 DEF Waits
      <3> QED BY <1>2, <1>4, <3>2 DEF Queued, Queues, Waits
    <2> QED BY <2>1, <2>2
  <1>9. Shut'
    BY <1>2 DEF Shut
  <1>10. WireMatchesRecord'
    <2> SUFFICES ASSUME gen.sock # None, ~peer.down, NEW m \in Name
                 PROVE  /\ WillHold(peer.subs, gen'.chain, m) <=> Has(gen', m)
                        /\ Has(gen', m) => m \in ToSet(recorded')
      BY <1>2, <1>4 DEF WireMatchesRecord, Recorded, WillHold, Has
    <2>1. /\ WillHold(peer.subs, gen.chain, m) <=> Has(gen, m)
          /\ Has(gen, m) => m \in Recorded
      BY DEF IInv, WireMatchesRecord
    <2>2. WillHold(peer.subs, gen'.chain, m) <=> n # m /\ WillHold(peer.subs, gen.chain, m)
      <3>1. gen'.chain = Append(gen.chain, f) /\ gen.chain \in Seq(Frame)
        BY <1>4 DEF IInv, Typed, Generation
      <3>2. WillHold(peer.subs, Append(gen.chain, f), m)
              <=> IF f.name = m THEN f.by # 0 ELSE WillHold(peer.subs, gen.chain, m)
        BY <1>3, <3>1, FrameQueued
      <3> QED BY <1>3, <3>1, <3>2
    <2>3. Has(gen', m) <=> m # n /\ Has(gen, m)
      BY <1>4 DEF Has
    <2> QED BY <1>1, <2>1, <2>2, <2>3
  <1>11. NeverDeaf'
    <2>1. \A m \in Name \ {n} : Has(gen, m) => Has(gen', m)
      BY <1>4 DEF Has
    <2>2. ToSet(recorded') \subseteq Name \ {n}
      BY <1>1, RecordedNames
    <2>3. \A a \in Activation : Working(a)' <=> Working(a)
      BY <1>2 DEF Working
    <2>4. ~retry => (\A m \in Recorded :
             \/ Has(gen, m)
             \/ \E a \in Activation : Working(a) /\ m \in ToSet(act[a].todo))'
      BY <1>1, <1>2, <2>1, <2>2, <2>3 DEF IInv, NeverDeaf, Recorded, Has
    <2> QED BY <1>2, <2>3, <2>4 DEF IInv, NeverDeaf
  <1> QED BY <1>5, <1>6, <1>7, <1>8, <1>9, <1>10, <1>11 DEF IInv

LEMMA CloseKeeps == ASSUME IInv, Close PROVE IInv'
  <1>1. /\ closed' = TRUE /\ retry' = FALSE /\ held' = FALSE /\ sock' = None
        /\ gen' = NoGeneration /\ peer' = SilentPeer
        /\ pinging' = pinging \ {gen.sock, sock} /\ loopConn' = None
        /\ UNCHANGED <<recorded, dialing, loops, intent, act, missed, dialled>>
    BY DEF Close
  <1>2. /\ NoGeneration.sock = None /\ NoGeneration.claimed = {} /\ NoGeneration.acked = {}
        /\ NoGeneration.chain = <<>> /\ SilentPeer.subs = {}
    BY DEF NoGeneration, SilentPeer
  <1>3. pinging' = {}
    BY <1>1 DEF IInv, Linked
  <1>4. Typed'
    <2>1. gen' \in Generation /\ peer' \in Peer
      BY <1>1, Constants
    <2>2. dialled' \in Nat /\ sock' \in 0..dialled'
      BY <1>1 DEF IInv, Typed, None
    <2>3. closed' \in BOOLEAN /\ retry' \in BOOLEAN /\ held' \in BOOLEAN
      BY <1>1
    <2> QED BY <1>1, <2>1, <2>2, <2>3 DEF IInv, Typed
  <1>5. Linked'
    BY <1>1, <1>2, <1>3 DEF Linked
  <1>6. Engaged'
    BY <1>1 DEF IInv, Typed, Engaged, None
  <1>7. Queued'
    BY <1>1, <1>2 DEF Queued, Queues
  <1>8. Shut'
    BY <1>1, <1>3 DEF Shut
  <1>9. WireMatchesRecord' /\ NeverDeaf'
    BY <1>1, <1>2 DEF WireMatchesRecord, NeverDeaf
  <1> QED BY <1>4, <1>5, <1>6, <1>7, <1>8, <1>9 DEF IInv

LEMMA ResumeKeeps == ASSUME IInv, NEW a \in Activation, Resume(a) PROVE IInv'
  <1>1. /\ act[a].pc = "resume" /\ act[a].sock \in 1..dialled /\ act[a].sock # None
        /\ UNCHANGED <<recorded, closed, dialing, retry, dialled>>
    BY DEF Resume, IInv, Engaged, None
  <1>2. CASE closed
    <2>1. /\ Discard(act[a].sock) /\ Ends(a) /\ UNCHANGED <<held, loops, intent>>
      BY <1>2 DEF Resume
    <2>2. /\ act[a].sock = sock => Dropped
          /\ act[a].sock # sock => Undisturbed
          /\ missed' \in BOOLEAN
      BY <1>1, <2>1, Discarded
    <2> QED BY <1>1, <1>2, <2>1, <2>2, EndsClosed
  <1>3. CASE ~closed
    <2> DEFINE g == IF gen.sock = sock THEN gen ELSE Fresh(sock)
    <2>1. act[a].sock = sock /\ sock # None
      BY <1>1, <1>3 DEF IInv, Engaged
    <2>2. PICK names \in Ordered(act[a].todo) :
             /\ held' = TRUE /\ peer' = peer
             /\ Proceed(a, g, [act[a] EXCEPT !.todo = names])
      BY <1>3, <2>1 DEF Resume, Opens
    <2> DEFINE me == [act[a] EXCEPT !.todo = names]
    <2>3. act[a] \in Standing /\ act[a].todo \in Seq(Name)
      BY DEF IInv, Typed, Standing
    <2>4. names \in Seq(Name) /\ ToSet(names) = ToSet(act[a].todo)
      BY <2>3, OrderedOf
    <2>5. me \in Standing /\ me.sock = sock /\ me.todo = names
      BY <2>1, <2>3, <2>4 DEF Standing
    <2>6. CASE gen.sock = sock
      <3>1. g = gen
        BY <2>6
      <3>2. \A i \in DOMAIN gen.chain : gen.chain[i].by # a
        BY <1>1, Constants DEF IInv, Queued, Queues, Waits
      <3>3. ~peer'.down => Wired(gen, peer'.subs)
        BY <2>1, <2>2, <2>6 DEF IInv, WireMatchesRecord, Wired
      <3>4. peer \in Peer /\ gen \in Generation /\ gen.claimed \cap gen.acked = {}
            /\ Queues(gen.chain, sock)
        BY <2>6 DEF IInv, Typed, Linked, Queued
      <3> HIDE DEF me, g
      <3>5. Live(a, gen, me)
        BY <1>1, <1>3, <2>1, <2>2, <2>4, <2>5, <2>6, <3>2, <3>3, <3>4 DEF Live
      <3> QED BY <2>2, <3>1, <3>5, ProceedKeeps DEF me
    <2>7. CASE gen.sock # sock
      <3>1. gen.sock = None /\ gen = NoGeneration /\ peer.subs = {}
        BY <2>7 DEF IInv, Linked
      <3>2. /\ g = Fresh(sock) /\ g \in Generation /\ g.sock = sock /\ g.chain = <<>>
            /\ g.claimed = {} /\ g.acked = {}
        <4>1. sock \in Nat
          BY DEF IInv, Typed
        <4> QED BY <2>7, <4>1, Constants DEF Fresh, Generation, NoGeneration
      <3> HIDE DEF me, g
      <3>3. \A n \in Name : ~Has(gen, n) /\ ~Has(g, n)
        BY <3>1, <3>2 DEF Has, NoGeneration
      <3>4. Wired(g, peer'.subs)
        BY <2>2, <3>1, <3>2, <3>3, NoFrames DEF Wired
      <3>5. Live(a, g, me)
        BY <1>1, <1>3, <2>1, <2>2, <2>4, <2>5, <3>2, <3>3, <3>4 DEF Live, Queues, IInv, Typed
      <3> QED BY <2>2, <3>5, ProceedKeeps DEF me, g
    <2> QED BY <2>6, <2>7
  <1> QED BY <1>2, <1>3

\* The head of the queue is written.
LEMMA WriteLandsKeeps == ASSUME IInv, WriteLands PROVE IInv'
  <1> DEFINE f == Head(gen.chain)
             g == [gen EXCEPT !.chain = Tail(@)]
  <1>1. /\ gen.chain # <<>> /\ Settled /\ peer' = Received(f)
        /\ UNCHANGED <<recorded, closed, held, dialing, retry, dialled>>
    BY DEF WriteLands
  <1>2. /\ gen \in Generation /\ gen.chain \in Seq(Frame) /\ peer \in Peer
    BY DEF IInv, Typed, Generation
  <1>3. /\ Tail(gen.chain) \in Seq(Frame) /\ f \in Frame /\ f = gen.chain[1]
        /\ Len(gen.chain) \in Nat \ {0} /\ DOMAIN gen.chain = 1..Len(gen.chain)
        /\ DOMAIN Tail(gen.chain) = 1..(Len(gen.chain) - 1)
        /\ \A i \in 1..(Len(gen.chain) - 1) : Tail(gen.chain)[i] = gen.chain[i + 1]
    BY <1>1, <1>2, TailOf
  <1>4. /\ g \in Generation /\ g.sock = gen.sock /\ g.chain = Tail(gen.chain)
        /\ g.claimed = gen.claimed /\ g.acked = gen.acked
    BY <1>2, <1>3 DEF Generation
  <1>5. /\ gen.sock = sock /\ sock # None /\ ~closed
    BY <1>1 DEF IInv, Linked, Shut, NoGeneration
  <1>6. \A n \in Name : Has(g, n) <=> Has(gen, n)
    BY <1>4 DEF Has
  <1> HIDE DEF f, g
  <1>7. /\ peer' \in Peer /\ peer'.down = peer.down
        /\ ~peer.down => peer'.subs = IF f.by = 0 THEN peer.subs \ {f.name}
                                                  ELSE peer.subs \cup {f.name}
    <2>1. f.name \in Name /\ peer.acks \in Seq(Name)
      BY <1>2, <1>3 DEF Frame, Peer
    <2>2. Append(peer.acks, f.name) \in Seq(Name)
      BY <2>1, AppendOf
    <2> QED BY <1>1, <1>2, <2>1, <2>2 DEF Received, Peer
  <1>8. ~peer'.down => Wired(g, peer'.subs)
    <2> SUFFICES ASSUME ~peer'.down, NEW n \in Name
                 PROVE  /\ WillHold(peer'.subs, g.chain, n) <=> Has(g, n)
                        /\ Has(g, n) => n \in Recorded
      BY DEF Wired
    <2>1. /\ WillHold(peer.subs, gen.chain, n) <=> Has(gen, n)
          /\ Has(gen, n) => n \in Recorded
      BY <1>5, <1>7 DEF IInv, WireMatchesRecord
    <2>2. WillHold(peer'.subs, g.chain, n) <=> WillHold(peer.subs, gen.chain, n)
      BY <1>1, <1>2, <1>4, <1>7, FrameWritten DEF f
    <2> QED BY <1>6, <2>1, <2>2
  <1>9. /\ Queues(g.chain, sock)
        /\ f.by # 0 => \A i \in DOMAIN g.chain : g.chain[i].by # f.by
    <2>1. \A i \in DOMAIN g.chain : /\ i + 1 \in DOMAIN gen.chain /\ g.chain[i] = gen.chain[i + 1]
                                    /\ i \in Nat \ {0}
      BY <1>3, <1>4
    <2>2. ASSUME NEW i \in DOMAIN g.chain, g.chain[i].by # 0
          PROVE  /\ act[g.chain[i].by].pc = "writing" /\ act[g.chain[i].by].sock = sock
                 /\ g.chain[i].by # f.by
                 /\ \A j \in DOMAIN g.chain : g.chain[j].by = g.chain[i].by => j = i
      <3>1. Waits(gen.chain, i + 1, sock)
        BY <1>5, <2>1, <2>2 DEF IInv, Queued, Queues
      <3>2. 1 \in DOMAIN gen.chain
        BY <1>3
      <3>3. ASSUME NEW j \in DOMAIN g.chain, g.chain[j].by = g.chain[i].by PROVE j = i
        <4>1. j + 1 = i + 1
          BY <2>1, <3>1, <3>3 DEF Waits
        <4> QED BY <2>1, <4>1
      <3>4. g.chain[i].by # f.by
        <4>1. SUFFICES ASSUME gen.chain[1].by = gen.chain[i + 1].by PROVE FALSE
          BY <1>3, <2>1
        <4>2. 1 = i + 1
          BY <3>1, <3>2, <4>1 DEF Waits
        <4> QED BY <2>1, <4>2
      <3> QED BY <2>1, <3>1, <3>3, <3>4 DEF Waits
    <2> QED BY <2>2 DEF Queues, Waits
  <1>10. CASE f.by = 0
    <2>1. /\ gen' = g
          /\ UNCHANGED <<act, intent, missed, sock, pinging, loopConn, loops>>
      BY <1>10 DEF WriteLands, f, g
    <2>2. Typed'
      BY <1>1, <1>4, <1>7, <2>1 DEF IInv, Typed
    <2>3. Linked'
      BY <1>4, <1>5, <2>1 DEF IInv, Linked
    <2>4. Engaged'
      BY <1>1, <1>4, <2>1 DEF IInv, Engaged
    <2>5. Queued'
      BY <1>4, <1>5, <1>9, <2>1 DEF Queued, Queues, Waits
    <2>6. Shut'
      BY <1>1, <1>5 DEF Shut
    <2>7. WireMatchesRecord'
      BY <1>1, <1>8, <2>1 DEF Wired, WireMatchesRecord, Recorded, WillHold, Has
    <2>8. NeverDeaf'
      <3>1. \A a \in Activation : Working(a)' <=> Working(a)
        BY <2>1 DEF Working
      <3>2. \A n : Has(gen, n)' <=> Has(gen, n)
        BY <1>4, <2>1 DEF Has
      <3>3. Recorded' = Recorded /\ ToSet(recorded') = ToSet(recorded)
        BY <1>1 DEF Recorded
      <3> QED BY <1>1, <2>1, <3>1, <3>2, <3>3 DEF IInv, NeverDeaf
    <2> QED BY <2>2, <2>3, <2>4, <2>5, <2>6, <2>7, <2>8 DEF IInv
  <1>11. CASE f.by # 0
    <2> DEFINE a  == f.by
               me == [act[a] EXCEPT !.landed = TRUE]
    <2>1. a \in Activation /\ act[a].pc = "writing" /\ act[a].sock = sock
      <3>1. a \in Activation
        BY <1>3, <1>11 DEF Frame
      <3>2. 1 \in DOMAIN gen.chain
        BY <1>3
      <3> QED BY <1>3, <1>5, <1>11, <3>1, <3>2 DEF IInv, Queued, Queues, Waits
    <2>2. me \in Standing /\ me.sock = sock /\ me.todo = act[a].todo
      BY <2>1 DEF IInv, Typed, Standing
    <2>3. Tell(a, g, me) \/ Proceed(a, g, me)
      BY <1>11 DEF WriteLands, f, g
    <2>4. gen.claimed \cap gen.acked = {} /\ held \in BOOLEAN
      BY DEF IInv, Typed, Linked
    <2> HIDE DEF a, me
    <2>5. Live(a, g, me)
      BY <1>1, <1>4, <1>5, <1>6, <1>7, <1>8, <1>9, <1>11, <2>1, <2>2, <2>4 DEF Live, a
    <2> QED BY <2>1, <2>3, <2>5, TellKeeps, ProceedKeeps
  <1> QED BY <1>10, <1>11

LEMMA WriteFailsKeeps == ASSUME IInv, WriteFails PROVE IInv'
  <1> DEFINE f == Head(gen.chain)
  <1>1. /\ gen.chain # <<>> /\ Settled
        /\ UNCHANGED <<recorded, closed, held, dialing, loops, dialled>>
    BY DEF WriteFails
  <1>2. f \in Frame /\ f = gen.chain[1] /\ 1 \in DOMAIN gen.chain
    BY <1>1, TailOf DEF IInv, Typed, Generation
  <1>3. gen.sock = sock /\ sock # None /\ ~closed
    BY <1>1 DEF IInv, Linked, Shut, NoGeneration
  <1> HIDE DEF f
  <1>4. CASE f.by # 0
    <2>1. f.by \in Activation /\ act[f.by].pc = "writing"
      BY <1>2, <1>4 DEF Frame, IInv, Queued, Queues, Waits
    <2>2. Fails(f.by)
      BY <1>4 DEF WriteFails, f
    <2> QED BY <1>1, <2>1, <2>2, FailsKeeps
  <1>5. CASE f.by = 0
    <2>1. Discard(gen.sock) /\ ScheduleRetry(loopConn = gen.sock) /\ UNCHANGED act
      BY <1>5 DEF WriteFails, f
    <2>2. Dropped /\ missed' \in BOOLEAN
      BY <1>3, <2>1, Discarded
    <2>3. retry' /\ retry' \in BOOLEAN /\ intent' \in BOOLEAN
      BY <1>3, <2>1 DEF ScheduleRetry, IInv, Typed
    <2> QED BY <1>1, <1>3, <2>1, <2>2, <2>3, FallsBack DEF Dropped
  <1> QED BY <1>4, <1>5

LEMMA WriteAbandonedKeeps == ASSUME IInv, NEW a \in Activation, WriteAbandoned(a) PROVE IInv'
  BY FailsKeeps DEF WriteAbandoned

LEMMA HandlerReturnsKeeps == ASSUME IInv, NEW a \in Activation, HandlerReturns(a) PROVE IInv'
  <1>1. Settled /\ UNCHANGED <<recorded, closed, held, dialing, dialled>>
    BY DEF HandlerReturns
  <1>2. CASE act[a].pc = "told"
    <2>1. act[a].sock \in 1..dialled /\ act[a].sock # None
      BY <1>2 DEF IInv, Engaged, None
    <2>2. CASE act[a].sock = gen.sock
      <3>1. Proceed(a, gen, act[a]) /\ UNCHANGED <<peer, retry>>
        BY <1>2, <2>2 DEF HandlerReturns
      <3>2. gen.sock = sock /\ sock # None /\ ~closed
        BY <2>1, <2>2 DEF IInv, Linked, Shut, NoGeneration
      <3>3. /\ act[a] \in Standing /\ gen \in Generation /\ peer \in Peer /\ held \in BOOLEAN
            /\ gen.claimed \cap gen.acked = {} /\ Queues(gen.chain, sock)
        BY <3>2 DEF IInv, Typed, Linked, Queued
      <3>4. \A i \in DOMAIN gen.chain : gen.chain[i].by # a
        BY <1>2, Constants DEF IInv, Queued, Queues, Waits
      <3>5. ~peer'.down => Wired(gen, peer'.subs)
        BY <3>1, <3>2 DEF IInv, WireMatchesRecord, Wired
      <3>6. Live(a, gen, act[a])
        BY <1>1, <1>2, <2>2, <3>1, <3>2, <3>3, <3>4, <3>5 DEF Live
      <3> QED BY <3>1, <3>6, ProceedKeeps
    <2>3. CASE act[a].sock # gen.sock
      <3>1. act[a].sock # sock
        BY <1>2, <2>3 DEF IInv, Engaged
      <3>2. CASE Fails(a) /\ UNCHANGED loops
        BY <1>1, <1>2, <3>2, FailsKeeps
      <3>3. CASE Finish(a, Fresh(act[a].sock), act[a]) /\ UNCHANGED <<peer, retry>>
        <4>1. Fresh(act[a].sock).sock = act[a].sock
          BY DEF Fresh, NoGeneration
        <4>2. /\ Ends(a)
              /\ UNCHANGED <<gen, pinging, sock, loopConn, loops, intent, missed, peer, retry>>
          BY <3>1, <3>3, <4>1 DEF Finish
        <4>3. \A i \in DOMAIN gen.chain : gen.chain[i].by # a
          BY <1>2, Constants DEF IInv, Queued, Queues, Waits
        <4> QED BY <1>1, <1>2, <3>1, <4>2, <4>3, StopsKeeps
      <3> QED BY <1>2, <2>3, <3>2, <3>3 DEF HandlerReturns
    <2> QED BY <2>2, <2>3
  <1>3. CASE act[a].pc = "ending"
    <2>1. Ends(a) /\ UNCHANGED <<link, loops, retry, intent>>
      BY <1>3 DEF HandlerReturns
    <2>2. \A i \in DOMAIN gen.chain : gen.chain[i].by # a
      BY <1>3, Constants DEF IInv, Queued, Queues, Waits
    <2> QED BY <1>1, <1>3, <2>1, <2>2, StopsKeeps DEF link
  <1> QED BY <1>2, <1>3 DEF HandlerReturns

LEMMA KeepaliveStallsKeeps == ASSUME IInv, NEW c, KeepaliveStalls(c) PROVE IInv'
  <1>1. /\ c = gen.sock /\ c # None /\ ~closed /\ Settled
        /\ Discard(c) /\ ScheduleRetry(TRUE)
        /\ UNCHANGED <<recorded, closed, held, dialing, loops, act, dialled>>
    BY DEF KeepaliveStalls, IInv, Linked
  <1>2. Dropped /\ missed' \in BOOLEAN
    BY <1>1, Discarded DEF IInv, Linked
  <1>3. retry' /\ retry' \in BOOLEAN /\ intent' \in BOOLEAN
    BY <1>1 DEF ScheduleRetry, IInv, Typed
  <1> QED BY <1>1, <1>2, <1>3, FallsBack DEF Dropped

\* A read loop that returns is not the live one, or its socket goes with it.
LEMMA LoopEnds ==
    ASSUME IInv, NEW c \in loops, loops' = loops \ {c}, c # sock \/ closed,
           UNCHANGED <<recorded, closed, held, dialing, link, retry, intent, act, dialled>>
    PROVE  IInv'
  <1>1. UNCHANGED <<sock, gen, loopConn, pinging, peer, missed>>
    BY DEF link
  <1>2. Typed'
    BY <1>1 DEF IInv, Typed
  <1>3. loopConn # c
    BY DEF IInv, Typed, Linked, Shut, None
  <1>4. Linked'
    BY <1>1, <1>3 DEF IInv, Linked
  <1>5. Engaged' /\ Queued' /\ Shut'
    BY <1>1 DEF IInv, Engaged, Queued, Queues, Waits, Shut
  <1>6. WireMatchesRecord'
    BY <1>1 DEF IInv, WireMatchesRecord, Recorded, WillHold, Has
  <1>7. NeverDeaf'
    <2>1. /\ \A a \in Activation : Working(a)' <=> Working(a)
          /\ \A n : Has(gen, n)' <=> Has(gen, n)
          /\ Recorded' = Recorded /\ act' = act
      BY <1>1 DEF Working, Has, Recorded
    <2> QED BY <1>1, <1>3, <2>1 DEF IInv, NeverDeaf
  <1> QED BY <1>2, <1>4, <1>5, <1>6, <1>7 DEF IInv

LEMMA LoopFaultsKeeps == ASSUME IInv, NEW c, LoopFaults(c) PROVE IInv'
  <1>1. /\ c \in loops /\ c # None /\ Settled /\ loops' = loops \ {c}
        /\ UNCHANGED <<recorded, closed, held, dialing, act, dialled>>
    BY DEF LoopFaults, IInv, Typed, None
  <1>2. CASE closed
    BY <1>1, <1>2, LoopEnds DEF LoopFaults
  <1>3. CASE ~closed
    <2>1. Discard(c) /\ ScheduleRetry(TRUE)
      BY <1>3 DEF LoopFaults
    <2>2. /\ c = sock => Dropped
          /\ c # sock => Undisturbed
          /\ missed' \in BOOLEAN
      BY <1>1, <2>1, Discarded
    <2>3. retry' /\ retry' \in BOOLEAN /\ intent' \in BOOLEAN
      BY <1>3, <2>1 DEF ScheduleRetry, IInv, Typed
    <2>4. loopConn' # None => loopConn' \in loops'
      BY <1>1, <2>2 DEF IInv, Linked, Dropped, Undisturbed
    <2> QED BY <1>1, <1>3, <2>2, <2>3, <2>4, FallsBack
  <1> QED BY <1>2, <1>3

LEMMA LoopStopsKeeps == ASSUME IInv, NEW c, LoopStops(c) PROVE IInv'
  BY LoopEnds DEF LoopStops

LEMMA PeerGoneKeeps == ASSUME IInv, PeerGone PROVE IInv'
  <1>1. /\ peer' = [peer EXCEPT !.down = TRUE]
        /\ UNCHANGED <<recorded, closed, held, dialing, sock, gen, loopConn, loops, pinging, retry,
                       intent, act, missed, dialled>>
    BY DEF PeerGone
  <1>2. peer' \in Peer /\ peer'.subs = peer.subs /\ peer'.down
    BY <1>1 DEF IInv, Typed, Peer
  <1>3. Typed'
    BY <1>1, <1>2 DEF IInv, Typed
  <1>4. Linked'
    BY <1>1, <1>2 DEF IInv, Linked
  <1>5. Engaged' /\ Queued' /\ Shut'
    BY <1>1 DEF IInv, Engaged, Queued, Queues, Waits, Shut
  <1>6. WireMatchesRecord'
    BY <1>2 DEF WireMatchesRecord
  <1>7. NeverDeaf'
    BY <1>1 DEF IInv, NeverDeaf, Recorded, Has, Working
  <1> QED BY <1>3, <1>4, <1>5, <1>6, <1>7 DEF IInv

\* An acknowledgement confirms a claim; of a retired name it says nothing.
LEMMA ReadAckKeeps == ASSUME IInv, ReadAck PROVE IInv'
  <1> DEFINE m == Head(peer.acks)
  <1>1. /\ peer.acks # <<>> /\ gen' = Confirm(gen, m)
        /\ peer' = [peer EXCEPT !.acks = Tail(@)]
        /\ UNCHANGED <<recorded, closed, held, dialing, sock, loopConn, loops, pinging, retry, intent,
                       act, missed, dialled>>
    BY DEF ReadAck
  <1>2. m \in Name /\ Tail(peer.acks) \in Seq(Name)
    BY <1>1, TailOf DEF IInv, Typed, Peer
  <1>3. peer' \in Peer /\ peer'.subs = peer.subs /\ peer'.down = peer.down
    BY <1>1, <1>2 DEF IInv, Typed, Peer
  <1> HIDE DEF m
  <1>4. /\ gen' \in Generation /\ gen'.sock = gen.sock /\ gen'.chain = gen.chain
        /\ gen'.claimed \cap gen'.acked = {}
        /\ \A n : Has(gen', n) <=> Has(gen, n)
        /\ gen = NoGeneration => gen' = gen
    <2>1. CASE m \in gen.claimed
      <3>1. gen' = [gen EXCEPT !.claimed = @ \ {m}, !.acked = @ \cup {m}]
        BY <1>1, <2>1 DEF Confirm
      <3>2. /\ gen' \in Generation /\ gen'.sock = gen.sock /\ gen'.chain = gen.chain
            /\ gen'.claimed = gen.claimed \ {m} /\ gen'.acked = gen.acked \cup {m}
        BY <1>2, <3>1 DEF IInv, Typed, Generation
      <3> QED BY <2>1, <3>2 DEF IInv, Linked, Has, NoGeneration
    <2>2. CASE m \notin gen.claimed
      BY <1>1, <2>2 DEF IInv, Typed, Linked, Confirm
    <2> QED BY <2>1, <2>2
  <1>5. Typed'
    BY <1>1, <1>3, <1>4 DEF IInv, Typed
  <1>6. Linked'
    BY <1>1, <1>3, <1>4 DEF IInv, Linked
  <1>7. Engaged' /\ Queued' /\ Shut'
    BY <1>1, <1>4 DEF IInv, Engaged, Queued, Queues, Waits, Shut
  <1>8. WireMatchesRecord'
    BY <1>1, <1>3, <1>4 DEF IInv, WireMatchesRecord, Recorded, WillHold, Has
  <1>9. NeverDeaf'
    <2>1. /\ \A a \in Activation : Working(a)' <=> Working(a)
          /\ \A n : Has(gen, n)' <=> Has(gen, n)
          /\ Recorded' = Recorded /\ act' = act
      BY <1>1, <1>4 DEF Working, Has, Recorded
    <2> QED BY <1>1, <2>1 DEF IInv, NeverDeaf
  <1> QED BY <1>5, <1>6, <1>7, <1>8, <1>9 DEF IInv

LEMMA StutterKeeps == ASSUME IInv, UNCHANGED vars PROVE IInv'
  <1>1. UNCHANGED <<recorded, closed, held, dialing, loops, retry, intent, act, dialled,
                    sock, gen, loopConn, pinging, peer, missed>>
    BY DEF vars, link
  <1>2. Typed' /\ Linked'
    BY <1>1 DEF IInv, Typed, Linked
  <1>3. Engaged' /\ Queued' /\ Shut'
    BY <1>1 DEF IInv, Engaged, Queued, Queues, Waits, Shut
  <1>4. WireMatchesRecord'
    BY <1>1 DEF IInv, WireMatchesRecord, Recorded, WillHold, Has
  <1>5. NeverDeaf'
    BY <1>1 DEF IInv, NeverDeaf, Recorded, Has, Working
  <1> QED BY <1>2, <1>3, <1>4, <1>5 DEF IInv

-----------------------------------------------------------------------------
LEMMA InitHolds == Init => IInv
  <1> SUFFICES ASSUME Init PROVE IInv
    OBVIOUS
  <1>1. /\ NoGeneration.sock = None /\ NoGeneration.claimed = {} /\ NoGeneration.acked = {}
        /\ NoGeneration.chain = <<>> /\ SilentPeer.subs = {} /\ NotRunning.pc = "idle"
    BY DEF NoGeneration, SilentPeer, NotRunning
  <1>2. recorded \in Seq(Name) /\ IsInjective(recorded) /\ Recorded = {}
    BY EmptySeq DEF Init, IsInjective, Recorded, ToSet
  <1>3. Typed
    <2>1. sock \in 0..dialled /\ dialled \in Nat /\ loops \subseteq 1..dialled
      BY DEF Init, None
    <2>2. gen \in Generation /\ peer \in Peer /\ act \in [Activation -> Standing]
      BY Constants DEF Init
    <2>3. /\ closed \in BOOLEAN /\ held \in BOOLEAN /\ dialing \in BOOLEAN
          /\ retry \in BOOLEAN /\ intent \in BOOLEAN /\ missed \in BOOLEAN
      BY DEF Init
    <2> QED BY <1>2, <2>1, <2>2, <2>3 DEF Typed
  <1>4. Linked /\ Queued /\ Shut /\ WireMatchesRecord
    BY <1>1 DEF Init, Linked, Queued, Queues, Shut, WireMatchesRecord, None
  <1>5. Engaged
    BY <1>1 DEF Init, Engaged
  <1>6. NeverDeaf
    BY <1>2 DEF Init, NeverDeaf
  <1> QED BY <1>3, <1>4, <1>5, <1>6 DEF IInv

LEMMA NextKeeps == ASSUME IInv, [Next]_vars PROVE IInv'
  BY PsubscribeKeeps, SubscribeOneKeeps, UnsubscribeOneKeeps, CloseKeeps, DialSucceedsKeeps,
     DialFailsKeeps, WriteLandsKeeps, WriteFailsKeeps, RetryFiresKeeps, PeerGoneKeeps, ReadAckKeeps,
     ResumeKeeps, WriteAbandonedKeeps, HandlerReturnsKeeps, KeepaliveStallsKeeps, LoopFaultsKeeps,
     LoopStopsKeeps, StutterKeeps DEF Next

LEMMA Inductive == Safety => []IInv
  BY InitHolds, NextKeeps, PTL DEF Safety

\* The types of the connection's state; an acknowledged name is no longer
\* claimed, and an interval is that of the live generation.
THEOREM TypeCorrect == Safety => []SubscriberType
  <1>1. IInv => SubscriberType
    BY DEF IInv, Typed, Linked, Engaged, Generation, SubscriberType, Standing, Place
  <1> QED BY <1>1, Inductive, PTL

\* claim() and retire() go with their frames: the record of a socket says
\* what Redis will hold, whatever calls, writes and acknowledgements cross.
THEOREM RecordMatchesWire == Safety => []WireMatchesRecord
  <1>1. IInv => WireMatchesRecord
    BY DEF IInv
  <1> QED BY <1>1, Inductive, PTL

\* "Abandoning is not an outcome": no fault of a dial, a write, a keepalive
\* or a read leaves a wanted name with nobody to issue it.
THEOREM NobodyIsForgotten == Safety => []NeverDeaf
  <1>1. IInv => NeverDeaf
    BY DEF IInv
  <1> QED BY <1>1, Inductive, PTL

\* After close() no dial, write or retry that ends later brings anything back.
THEOREM CloseIsFinal == Safety => []ClosedHoldsNothing
  <1>1. IInv => ClosedHoldsNothing
    BY DEF IInv, Shut, ClosedHoldsNothing, Settled
  <1> QED BY <1>1, Inductive, PTL
=============================================================================
