---------------------------- MODULE RelayProofs ----------------------------
(***************************************************************************)
(* Proofs about Relay.tla, for every member list, queue length, rate limit *)
(* and number of datagrams.                                                *)
(*                                                                         *)
(* The properties speak of sequences of frames, so the first part collects *)
(* what appending, taking the tail and concatenating do to the members, to *)
(* duplicates and to the order of a sequence.  The second part looks at    *)
(* one seat: Sound, Accounted and Ordered say of what is written to it,    *)
(* decided on, pending and owed that no frame is there twice, that what is *)
(* missing is older than a whole queue, and that the order is right; a     *)
(* lemma each says that they survive one kind of event.  The third part    *)
(* shows that the games keep their shape and that every action is one of   *)
(* these events for every seat (SeatStep).                                 *)
(*                                                                         *)
(* RelayInv is the inductive invariant.  It adds to the properties that a  *)
(* token is valid exactly as long as its participant is seated, that a     *)
(* closed relay has no games, that nothing was sent to a seat that was not *)
(* heard of (so that BindAck can be the first frame), and that the numbers *)
(* of a pending queue go up (so that the frame which falls out is the      *)
(* oldest).                                                                *)
(***************************************************************************)
EXTENDS Relay, SequenceTheorems, FiniteSetTheorems, TLAPS

-----------------------------------------------------------------------------
(* Sequences of frames.                                                    *)

\* The members of a sequence are its values.
LEMMA SeqValues ==
    ASSUME NEW S, NEW s \in Seq(S), NEW x
    PROVE  x \in ToSet(s) <=> \E i \in 1 .. Len(s) : x = s[i]
BY DEF ToSet

\* Append adds one member, and no duplicate if that is new.
LEMMA AppendSet ==
    ASSUME NEW S, NEW s \in Seq(S), NEW x \in S
    PROVE  /\ Append(s, x) \in Seq(S)
           /\ Len(Append(s, x)) = Len(s) + 1
           /\ ToSet(Append(s, x)) = ToSet(s) \union {x}
           /\ IsInjective(s) /\ x \notin ToSet(s) => IsInjective(Append(s, x))
<1>1. /\ Append(s, x) \in Seq(S)
      /\ Len(Append(s, x)) = Len(s) + 1
      /\ \A i \in 1 .. Len(s) + 1 : Append(s, x)[i] = IF i = Len(s) + 1 THEN x ELSE s[i]
  OBVIOUS
<1>2. DOMAIN s = 1 .. Len(s) /\ DOMAIN Append(s, x) = 1 .. Len(s) + 1 /\ Len(s) \in Nat
  BY <1>1
<1>3. ToSet(Append(s, x)) = ToSet(s) \union {x}
  BY <1>1, <1>2 DEF ToSet
<1>4. IsInjective(s) /\ x \notin ToSet(s) => IsInjective(Append(s, x))
  BY <1>1, <1>2 DEF ToSet, IsInjective
<1> QED BY <1>1, <1>3, <1>4

\* Concatenation joins the members, and makes no duplicate of disjoint ones.
LEMMA ConcatSet ==
    ASSUME NEW S, NEW s \in Seq(S), NEW t \in Seq(S)
    PROVE  /\ s \o t \in Seq(S)
           /\ Len(s \o t) = Len(s) + Len(t)
           /\ ToSet(s \o t) = ToSet(s) \union ToSet(t)
           /\ IsInjective(s) /\ IsInjective(t) /\ ToSet(s) \intersect ToSet(t) = {}
                => IsInjective(s \o t)
<1>1. /\ s \o t \in Seq(S)
      /\ Len(s \o t) = Len(s) + Len(t)
      /\ \A i \in 1 .. Len(s) + Len(t) :
            (s \o t)[i] = IF i <= Len(s) THEN s[i] ELSE t[i - Len(s)]
  BY ConcatProperties
<1>2. /\ DOMAIN s = 1 .. Len(s) /\ DOMAIN t = 1 .. Len(t)
      /\ DOMAIN (s \o t) = 1 .. Len(s) + Len(t)
      /\ Len(s) \in Nat /\ Len(t) \in Nat
  BY <1>1
<1> DEFINE u == s \o t
<1> HIDE DEF u
<1>3. ToSet(u) = ToSet(s) \union ToSet(t)
  <2>1. DOMAIN u = 1 .. Len(s) + Len(t)
    BY <1>2 DEF u
  <2>2. ASSUME NEW x \in ToSet(u) PROVE x \in ToSet(s) \/ x \in ToSet(t)
    BY <1>1, <1>2, <2>1, <2>2 DEF u, ToSet
  <2>3. ASSUME NEW x \in ToSet(s) PROVE x \in ToSet(u)
    <3>1. PICK i \in 1 .. Len(s) : x = s[i]
      BY <1>2, <2>3 DEF ToSet
    <3>2. i \in DOMAIN u /\ u[i] = x
      BY <1>1, <1>2, <2>1, <3>1 DEF u
    <3> QED BY <3>2 DEF ToSet
  <2>4. ASSUME NEW x \in ToSet(t) PROVE x \in ToSet(u)
    <3>1. PICK i \in 1 .. Len(t) : x = t[i]
      BY <1>2, <2>4 DEF ToSet
    <3>2. i + Len(s) \in DOMAIN u /\ u[i + Len(s)] = x
      BY <1>1, <1>2, <2>1, <3>1 DEF u
    <3> QED BY <3>2 DEF ToSet
  <2> QED BY <2>2, <2>3, <2>4
<1>4. ASSUME IsInjective(s), IsInjective(t), ToSet(s) \intersect ToSet(t) = {}
      PROVE  IsInjective(u)
  BY <1>1, <1>2, <1>4 DEF ToSet, IsInjective, u
<1> QED BY <1>1, <1>3, <1>4 DEF u

\* The tail has lost the head and nothing else.
LEMMA TailSet ==
    ASSUME NEW S, NEW s \in Seq(S), s # <<>>
    PROVE  /\ Head(s) \in S /\ Tail(s) \in Seq(S)
           /\ Len(Tail(s)) = Len(s) - 1
           /\ ToSet(s) = ToSet(Tail(s)) \union {Head(s)}
           /\ IsInjective(s) => IsInjective(Tail(s)) /\ Head(s) \notin ToSet(Tail(s))
<1>1. /\ Head(s) \in S /\ Tail(s) \in Seq(S)
      /\ Len(Tail(s)) = Len(s) - 1
      /\ \A i \in 1 .. Len(s) - 1 : Tail(s)[i] = s[i + 1]
      /\ Head(s) = s[1]
  BY HeadTailProperties
<1>2. /\ DOMAIN s = 1 .. Len(s) /\ DOMAIN Tail(s) = 1 .. Len(s) - 1
      /\ Len(s) \in Nat \ {0}
  BY <1>1, EmptySeq
<1> DEFINE u == Tail(s)
<1> HIDE DEF u
<1>3. \A i \in 1 .. Len(s) : i # 1 => i - 1 \in 1 .. Len(s) - 1 /\ s[i] = u[i - 1]
  BY <1>1, <1>2 DEF u
<1>4. ToSet(s) = ToSet(u) \union {Head(s)}
  <2>1. DOMAIN u = 1 .. Len(s) - 1
    BY <1>2 DEF u
  <2>2. ASSUME NEW x \in ToSet(s) PROVE x \in ToSet(u) \/ x = Head(s)
    BY <1>1, <1>2, <1>3, <2>1, <2>2 DEF ToSet
  <2>3. ASSUME NEW x \in ToSet(u) PROVE x \in ToSet(s)
    <3>1. PICK i \in 1 .. Len(s) - 1 : x = u[i]
      BY <2>1, <2>3 DEF ToSet
    <3>2. i + 1 \in DOMAIN s /\ s[i + 1] = x
      BY <1>1, <1>2, <3>1 DEF u
    <3> QED BY <3>2 DEF ToSet
  <2>4. Head(s) \in ToSet(s)
    BY <1>1, <1>2 DEF ToSet
  <2> QED BY <2>2, <2>3, <2>4
<1>5. ASSUME IsInjective(s) PROVE IsInjective(u) /\ Head(s) \notin ToSet(u)
  BY <1>1, <1>2, <1>5 DEF IsInjective, ToSet, u
<1> QED BY <1>1, <1>4, <1>5 DEF u

\* The numbers of the frames of s go up.
Rising(s) == \A i, j \in DOMAIN s : i < j => s[i].number < s[j].number

\* Those of each source do.
InSourceOrder(s) ==
    \A i, j \in DOMAIN s :
        i < j /\ s[i].source = s[j].source => s[i].number < s[j].number

\* From x to y the number goes up, if their source is the same.
Follows(x, y) == x.source = y.source => x.number < y.number

\* What a frame is made of.
LEMMA FrameNumbers == \A x \in Frame : x.number \in Nat /\ x.source \in Slot
BY MaxAcceptedAssumption DEF Frame

\* Where the numbers go up there are no duplicates.
LEMMA RisingIsInjective ==
    ASSUME NEW s \in Seq(Frame), Rising(s)
    PROVE  IsInjective(s)
<1> SUFFICES ASSUME NEW i \in DOMAIN s, NEW j \in DOMAIN s, s[i] = s[j]
             PROVE  i = j
  BY DEF IsInjective
<1>1. DOMAIN s = 1 .. Len(s) /\ Len(s) \in Nat
  OBVIOUS
<1>2. s[i] \in Frame /\ s[i].number \in Nat
  BY <1>1, FrameNumbers
<1>3. ~ (i < j) /\ ~ (j < i)
  BY <1>2 DEF Rising
<1> QED BY <1>1, <1>3

\* They still do with a newer frame at the end,
LEMMA RisingAppend ==
    ASSUME NEW s \in Seq(Frame), NEW y \in Frame, Rising(s),
           \A x \in ToSet(s) : x.number < y.number
    PROVE  Rising(Append(s, y))
<1>1. /\ \A i \in 1 .. Len(s) + 1 : Append(s, y)[i] = IF i = Len(s) + 1 THEN y ELSE s[i]
      /\ DOMAIN s = 1 .. Len(s) /\ DOMAIN Append(s, y) = 1 .. Len(s) + 1
      /\ Len(s) \in Nat
  OBVIOUS
<1>2. \A i \in 1 .. Len(s) : s[i].number < y.number
  BY <1>1 DEF ToSet
<1> QED BY <1>1, <1>2 DEF Rising

\* and without the first one, which is the oldest.
LEMMA RisingTail ==
    ASSUME NEW s \in Seq(Frame), s # <<>>, Rising(s)
    PROVE  /\ Rising(Tail(s))
           /\ \A x \in ToSet(Tail(s)) : Head(s).number < x.number
<1>1. /\ DOMAIN s = 1 .. Len(s) /\ DOMAIN Tail(s) = 1 .. Len(s) - 1
      /\ \A i \in 1 .. Len(s) - 1 : Tail(s)[i] = s[i + 1]
      /\ Head(s) = s[1] /\ Len(s) \in Nat \ {0}
  BY EmptySeq
<1> QED BY <1>1 DEF Rising, ToSet

\* A frame newer than those of its source keeps their order.
LEMMA InOrderAppend ==
    ASSUME NEW s \in Seq(Frame), NEW y \in Frame, InSourceOrder(s),
           \A x \in ToSet(s) : Follows(x, y)
    PROVE  InSourceOrder(Append(s, y))
<1>1. /\ \A i \in 1 .. Len(s) + 1 : Append(s, y)[i] = IF i = Len(s) + 1 THEN y ELSE s[i]
      /\ DOMAIN s = 1 .. Len(s) /\ DOMAIN Append(s, y) = 1 .. Len(s) + 1
      /\ Len(s) \in Nat
  OBVIOUS
<1>2. \A i \in 1 .. Len(s) : Follows(s[i], y)
  BY <1>1 DEF ToSet
<1> QED BY <1>1, <1>2 DEF InSourceOrder, Follows

\* The tail is in order, and behind the head.
LEMMA InOrderTail ==
    ASSUME NEW s \in Seq(Frame), s # <<>>, InSourceOrder(s)
    PROVE  /\ InSourceOrder(Tail(s))
           /\ \A x \in ToSet(Tail(s)) : Follows(Head(s), x)
<1>1. /\ DOMAIN s = 1 .. Len(s) /\ DOMAIN Tail(s) = 1 .. Len(s) - 1
      /\ \A i \in 1 .. Len(s) - 1 : Tail(s)[i] = s[i + 1]
      /\ Head(s) = s[1] /\ Len(s) \in Nat \ {0}
  BY EmptySeq
<1> QED BY <1>1 DEF InSourceOrder, Follows, ToSet

\* A frame in front of frames of other sources.
LEMMA InOrderFirst ==
    ASSUME NEW x \in Frame, NEW s \in Seq(Frame), Rising(s),
           \A y \in ToSet(s) : y.source # x.source
    PROVE  InSourceOrder(<<x>> \o s)
<1> DEFINE u == <<x>> \o s
<1>1. /\ DOMAIN s = 1 .. Len(s) /\ DOMAIN u = 1 .. Len(s) + 1
      /\ Len(s) \in Nat
      /\ u[1] = x
      /\ \A i \in 2 .. Len(s) + 1 : u[i] = s[i - 1]
  OBVIOUS
<1>2. \A i \in 2 .. Len(s) + 1 : u[i].source # x.source
  BY <1>1 DEF ToSet
<1> HIDE DEF u
<1>3. ASSUME NEW i \in DOMAIN u, NEW j \in DOMAIN u, i < j,
             u[i].source = u[j].source
      PROVE  u[i].number < u[j].number
  <2>1. i \in 2 .. Len(s) + 1 /\ j \in 2 .. Len(s) + 1
    BY <1>1, <1>2, <1>3
  <2>2. i - 1 \in DOMAIN s /\ j - 1 \in DOMAIN s /\ i - 1 < j - 1
    BY <1>1, <1>3, <2>1
  <2> QED BY <1>1, <2>1, <2>2 DEF Rising
<1> QED BY <1>3 DEF InSourceOrder, u

\* A sequence without duplicates has as many members as it is long.
LEMMA InjectiveLen ==
    ASSUME NEW S, NEW s \in Seq(S), IsInjective(s)
    PROVE  IsFiniteSet(ToSet(s)) /\ Cardinality(ToSet(s)) = Len(s)
<1>1. s \in [1 .. Len(s) -> ToSet(s)] /\ DOMAIN s = 1 .. Len(s) /\ Len(s) \in Nat
  BY DEF ToSet
<1>2. \A x \in ToSet(s) : \E i \in 1 .. Len(s) : s[i] = x
  BY <1>1 DEF ToSet
<1>3. s \in Bijection(1 .. Len(s), ToSet(s))
  BY <1>1, <1>2 DEF Bijection, Injection, Surjection, IsInjective
<1>4. ExistsBijection(1 .. Len(s), ToSet(s))
  BY <1>3 DEF ExistsBijection
<1>5. IsFiniteSet(1 .. Len(s)) /\ Cardinality(1 .. Len(s)) = Len(s)
  <2>1. 1 \in Int /\ Len(s) \in Int /\ Len(s) >= 0 /\ Len(s) - 1 + 1 = Len(s)
    BY <1>1
  <2>2. /\ IsFiniteSet(1 .. Len(s))
        /\ Cardinality(1 .. Len(s)) = IF 1 > Len(s) THEN 0 ELSE Len(s) - 1 + 1
    BY <2>1, FS_Interval
  <2> QED BY <2>1, <2>2
<1> QED BY <1>4, <1>5, FS_Bijection

-----------------------------------------------------------------------------
(* What has gone, goes and waits for one seat.                             *)

\* w, o and p are what is written to the seat, decided on for it and pending
\* in front of it, ow what it is owed; n datagrams were accepted.
Sound(w, o, p, ow, n, s) ==
    /\ w \in Seq(Frame) /\ o \in Seq(Frame) /\ p \in Seq(Frame)
    /\ ow \subseteq Frame
    /\ IsInjective(w) /\ IsInjective(o) /\ Rising(p)
    /\ ToSet(w) \intersect ToSet(o) = {}
    /\ (ToSet(w) \union ToSet(o)) \intersect ToSet(p) = {}
    /\ \A x \in ToSet(w) \union ToSet(o) : x.source # s => x \in ow
    /\ ToSet(p) \subseteq ow
    /\ \A x \in ow : x.source # s
    /\ \A x \in ToSet(w) \union ToSet(o) \union ow : x.number <= n

\* What the seat lost is older than the queue of frames it kept.
LostAreOld(kept, lost) ==
    lost # {} => /\ Cardinality(kept) >= RelayInitialQueuePackets
                 /\ \A x \in lost, y \in kept : x.number < y.number

Accounted(w, o, p, ow) ==
    LET kept == (ToSet(w) \union ToSet(o) \union ToSet(p)) \intersect ow
    IN  LostAreOld(kept, ow \ kept)

\* The BindAck of the seat comes first, and the frames of each source come
\* in order.
Ordered(w, o, s) ==
    /\ InSourceOrder(w) /\ InSourceOrder(o)
    /\ \A x \in ToSet(w), y \in ToSet(o) : Follows(x, y)
    /\ w # <<>> => Head(w).source = s
    /\ w = <<>> /\ o # <<>> => Head(o).source = s

\* The empty sequence has every one of these properties,
LEMMA EmptySet == ToSet(<<>>) = {} /\ IsInjective(<<>>) /\ Rising(<<>>)
                     /\ InSourceOrder(<<>>)
BY DEF ToSet, IsInjective, Rising, InSourceOrder

\* and so has a sequence of one frame.
LEMMA SingleSet == \A x : /\ ToSet(<<x>>) = {x} /\ IsInjective(<<x>>)
                          /\ InSourceOrder(<<x>>)
BY DEF ToSet, IsInjective, InSourceOrder

\* More frames are accepted.
LEMMA SoundRests ==
    ASSUME NEW w, NEW o, NEW p, NEW ow, NEW n \in Nat, NEW s, NEW m \in Nat,
           Sound(w, o, p, ow, n, s), n <= m
    PROVE  Sound(w, o, p, ow, m, s)
<1>1. \A x \in ToSet(w) \union ToSet(o) \union ow : x \in Frame /\ x.number <= n
  BY SeqValues DEF Sound
<1>2. \A x \in ToSet(w) \union ToSet(o) \union ow : x.number \in Nat
  BY <1>1, FrameNumbers
<1>3. \A x \in ToSet(w) \union ToSet(o) \union ow : x.number <= m
  BY <1>1, <1>2
<1> QED BY <1>3 DEF Sound

\* The seat is given up.
LEMMA SoundLeaves ==
    ASSUME NEW w, NEW o, NEW p, NEW ow, NEW n, NEW s, Sound(w, o, p, ow, n, s)
    PROVE  Sound(w, o, <<>>, ow, n, s)
BY EmptySet DEF Sound

\* What was decided on is written no more.
LEMMA SoundFails ==
    ASSUME NEW w, NEW o, NEW p, NEW ow, NEW n, NEW s, Sound(w, o, p, ow, n, s)
    PROVE  Sound(w, <<>>, p, ow, n, s)
BY EmptySet DEF Sound

\* The BindAck and the queue behind it.
LEMMA SoundBinds ==
    ASSUME NEW w, NEW p, NEW ow, NEW n \in Nat, NEW s \in Slot,
           Sound(w, <<>>, p, ow, n, s), n + 1 <= MaxAccepted
    PROVE  LET o == <<[source |-> s, number |-> n + 1]>> \o p
           IN  /\ Sound(w, o, <<>>, ow, n + 1, s)
               /\ ToSet(o) \intersect ow = ToSet(p) \intersect ow
<1> DEFINE ack == [source |-> s, number |-> n + 1]
           o == <<ack>> \o p
<1>1. /\ ack \in Frame /\ <<ack>> \in Seq(Frame)
      /\ ack.number = n + 1 /\ ack.source = s
  BY MaxAcceptedAssumption DEF Frame
<1> HIDE DEF ack
<1>2. /\ w \in Seq(Frame) /\ p \in Seq(Frame) /\ ow \subseteq Frame
      /\ \A x \in ToSet(w) \union ToSet(p) \union ow : x.number <= n /\ x.number \in Nat
      /\ IsInjective(p)
  BY FrameNumbers, RisingIsInjective, SeqValues DEF Sound
<1>3. ack \notin ToSet(w) \union ToSet(p) \union ow
  BY <1>1, <1>2
<1>4. /\ o \in Seq(Frame)
      /\ ToSet(o) = {ack} \union ToSet(p)
      /\ IsInjective(o)
  <2> DEFINE first == <<ack>>
  <2>1. ToSet(first) = {ack} /\ IsInjective(first)
    BY SingleSet
  <2>2. ToSet(first) \intersect ToSet(p) = {}
    BY <1>3, <2>1
  <2>3. first \in Seq(Frame) /\ p \in Seq(Frame) /\ IsInjective(p)
    BY <1>1, <1>2
  <2>4. o = first \o p
    OBVIOUS
  <2> HIDE DEF first, o
  <2> QED BY <2>1, <2>2, <2>3, <2>4, ConcatSet
<1> HIDE DEF o
<1>5. \A x \in ToSet(w) \union ToSet(o) \union ow : x.number <= n + 1
  BY <1>1, <1>2, <1>4
<1>6. \A x \in ToSet(w) \union ToSet(o) : x.source # s => x \in ow
  BY <1>1, <1>4 DEF Sound
<1>7. ToSet(w) \intersect ToSet(o) = {}
  BY <1>3, <1>4 DEF Sound
<1>8. Sound(w, o, <<>>, ow, n + 1, s)
  BY <1>2, <1>4, <1>5, <1>6, <1>7, EmptySet DEF Sound
<1> QED BY <1>3, <1>4, <1>8 DEF o, ack

\* A frame for a seat that was heard of.
LEMMA SoundReceives ==
    ASSUME NEW w, NEW p, NEW ow, NEW n \in Nat, NEW s,
           Sound(w, <<>>, p, ow, n, s),
           NEW frame \in Frame, frame.number = n + 1, frame.source # s
    PROVE  /\ Sound(w, <<frame>>, p, ow \union {frame}, n + 1, s)
           /\ \A x \in ow : x.number < frame.number
<1>1. /\ w \in Seq(Frame) /\ p \in Seq(Frame) /\ ow \subseteq Frame
      /\ \A x \in ToSet(w) \union ToSet(p) \union ow : x.number <= n /\ x.number \in Nat
  BY FrameNumbers, SeqValues DEF Sound
<1>2. frame \notin ToSet(w) \union ToSet(p) \union ow
  BY <1>1
<1>3. <<frame>> \in Seq(Frame) /\ ToSet(<<frame>>) = {frame} /\ IsInjective(<<frame>>)
  BY SingleSet
<1>4. \A x \in ow : x.number < frame.number
  BY <1>1
<1>5. \A x \in ToSet(w) \union {frame} \union ow : x.number <= n + 1
  BY <1>1
<1> QED BY <1>1, <1>2, <1>3, <1>4, <1>5 DEF Sound

\* The next frame is written.
LEMMA SoundWrites ==
    ASSUME NEW w, NEW o, NEW p, NEW ow, NEW n, NEW s,
           Sound(w, o, p, ow, n, s), o # <<>>
    PROVE  /\ Sound(Append(w, Head(o)), Tail(o), p, ow, n, s)
           /\ ToSet(Append(w, Head(o))) \union ToSet(Tail(o)) =
                 ToSet(w) \union ToSet(o)
<1>1. w \in Seq(Frame) /\ o \in Seq(Frame) /\ IsInjective(o) /\ IsInjective(w)
      /\ ToSet(w) \intersect ToSet(o) = {}
  BY DEF Sound
<1> DEFINE x == Head(o)
           rest == Tail(o)
           more == Append(w, x)
<1>2. /\ x \in Frame /\ rest \in Seq(Frame)
      /\ ToSet(o) = ToSet(rest) \union {x}
      /\ IsInjective(rest) /\ x \notin ToSet(rest)
  BY <1>1, TailSet
<1>3. x \notin ToSet(w)
  BY <1>1, <1>2
<1> HIDE DEF x, rest
<1>4. /\ more \in Seq(Frame)
      /\ ToSet(more) = ToSet(w) \union {x}
      /\ IsInjective(more)
  BY <1>1, <1>2, <1>3, AppendSet
<1> HIDE DEF more
<1> QED
  <2>1. ToSet(more) \union ToSet(rest) = ToSet(w) \union ToSet(o)
    BY <1>2, <1>4
  <2>2. ToSet(more) \intersect ToSet(rest) = {}
    BY <1>1, <1>2, <1>4
  <2>3. Sound(more, rest, p, ow, n, s)
    BY <1>2, <1>4, <2>1, <2>2 DEF Sound
  <2> QED BY <2>1, <2>3 DEF more, rest, x

\* A seat holds finitely many frames.
LEMMA KeptFinite ==
    ASSUME NEW w, NEW o, NEW p, NEW ow, NEW n, NEW s, Sound(w, o, p, ow, n, s)
    PROVE  IsFiniteSet((ToSet(w) \union ToSet(o) \union ToSet(p)) \intersect ow)
<1>1. /\ w \in Seq(Frame) /\ o \in Seq(Frame) /\ p \in Seq(Frame)
      /\ IsInjective(w) /\ IsInjective(o) /\ IsInjective(p)
  BY RisingIsInjective DEF Sound
<1>2. IsFiniteSet(ToSet(w)) /\ IsFiniteSet(ToSet(o)) /\ IsFiniteSet(ToSet(p))
  BY <1>1, InjectiveLen
<1>3. IsFiniteSet(ToSet(w) \union ToSet(o) \union ToSet(p))
  BY <1>2, FS_Union
<1> QED BY <1>3, FS_Intersection

\* A frame that is kept and newer than what was lost changes nothing.
LEMMA KeepsNewest ==
    ASSUME NEW kept, NEW lost, NEW frame, IsFiniteSet(kept),
           LostAreOld(kept, lost), frame \notin kept,
           \A x \in lost : x.number < frame.number
    PROVE  LostAreOld(kept \union {frame}, lost)
<1>1. /\ Cardinality(kept \union {frame}) = Cardinality(kept) + 1
      /\ Cardinality(kept) \in Nat
  BY FS_AddElement, FS_CardinalityType
<1>2. ASSUME lost # {} PROVE Cardinality(kept \union {frame}) >= RelayInitialQueuePackets
  BY <1>1, <1>2, QueueAssumption DEF LostAreOld
<1> QED BY <1>2 DEF LostAreOld

\* The accounts of a seat depend on what is kept for it and owed to it.
LEMMA AccountedSame ==
    ASSUME NEW w, NEW o, NEW p, NEW w1, NEW o1, NEW p1, NEW ow,
           Accounted(w, o, p, ow),
           (ToSet(w) \union ToSet(o) \union ToSet(p)) \intersect ow =
              (ToSet(w1) \union ToSet(o1) \union ToSet(p1)) \intersect ow
    PROVE  Accounted(w1, o1, p1, ow)
BY DEF Accounted

\* A frame that is sent at once is kept.
LEMMA AccountedReceives ==
    ASSUME NEW w, NEW p, NEW ow, NEW n \in Nat, NEW s,
           Sound(w, <<>>, p, ow, n, s), Accounted(w, <<>>, p, ow),
           NEW frame \in Frame, frame.number = n + 1, frame.source # s
    PROVE  Accounted(w, <<frame>>, p, ow \union {frame})
<1> DEFINE kept == (ToSet(w) \union ToSet(<<>>) \union ToSet(p)) \intersect ow
<1>1. IsFiniteSet(kept) /\ LostAreOld(kept, ow \ kept)
  BY KeptFinite DEF Accounted
<1>2. \A x \in ow : x.number < frame.number
  BY SoundReceives
<1>3. frame \notin ow
  BY <1>2 DEF Frame
<1>4. LostAreOld(kept \union {frame}, ow \ kept)
  <2>1. frame \notin kept /\ \A x \in ow \ kept : x.number < frame.number
    BY <1>2, <1>3
  <2> HIDE DEF kept
  <2> QED BY <1>1, <2>1, KeepsNewest
<1>5. ToSet(<<frame>>) = {frame} /\ ToSet(<<>>) = {}
  BY SingleSet, EmptySet
<1> DEFINE new == (ToSet(w) \union ToSet(<<frame>>) \union ToSet(p))
                     \intersect (ow \union {frame})
<1>6. \A x \in ToSet(w) \union ToSet(p) : x # frame
  <2>1. \A x \in ToSet(w) \union ToSet(p) : x.number <= n /\ x.number \in Nat
    BY FrameNumbers, SeqValues DEF Sound
  <2> QED BY <2>1
<1>7. new = kept \union {frame} /\ (ow \union {frame}) \ new = ow \ kept
  BY <1>3, <1>5, <1>6
<1> HIDE DEF new, kept
<1>8. LostAreOld(new, (ow \union {frame}) \ new)
  BY <1>4, <1>7
<1> QED BY <1>8 DEF Accounted, new

\* A frame waits behind those in the queue of a seat not heard of yet.
LEMMA SoundWaits ==
    ASSUME NEW p, NEW ow, NEW n \in Nat, NEW s, Sound(<<>>, <<>>, p, ow, n, s),
           Len(p) <= RelayInitialQueuePackets,
           NEW frame \in Frame, frame.number = n + 1, frame.source # s
    PROVE  /\ Sound(<<>>, <<>>, Queued(p, frame), ow \union {frame}, n + 1, s)
           /\ Len(Queued(p, frame)) <= RelayInitialQueuePackets
           /\ Accounted(<<>>, <<>>, p, ow) =>
                 Accounted(<<>>, <<>>, Queued(p, frame), ow \union {frame})
<1>1. /\ p \in Seq(Frame) /\ Rising(p) /\ ToSet(p) \subseteq ow
      /\ ow \subseteq Frame
      /\ \A x \in ow : x.number <= n /\ x.number \in Nat /\ x.source # s
  BY FrameNumbers DEF Sound
<1>2. frame \notin ow /\ \A x \in ow : x.number < frame.number
  BY <1>1
<1>3. Len(p) \in Nat /\ RelayInitialQueuePackets \in Nat \ {0}
  BY <1>1, QueueAssumption
<1> DEFINE full == Len(p) >= RelayInitialQueuePackets
           rest == IF full THEN Tail(p) ELSE p
           q == Append(rest, frame)
<1>4. Queued(p, frame) = q
  BY DEF Queued
<1>5. /\ rest \in Seq(Frame) /\ Rising(rest) /\ ToSet(rest) \subseteq ToSet(p)
      /\ full => /\ Len(rest) = Len(p) - 1
                 /\ \A x \in ToSet(p) \ ToSet(rest), y \in ToSet(rest) :
                       x.number < y.number
      /\ ~ full => rest = p
  <2>1. CASE full
    <3>1. p # <<>>
      BY <1>3, <2>1
    <3>2. /\ Tail(p) \in Seq(Frame) /\ Len(Tail(p)) = Len(p) - 1
          /\ ToSet(p) = ToSet(Tail(p)) \union {Head(p)}
      BY <1>1, <3>1, TailSet
    <3>3. Rising(Tail(p)) /\ \A x \in ToSet(Tail(p)) : Head(p).number < x.number
      BY <1>1, <3>1, RisingTail
    <3> QED BY <2>1, <3>2, <3>3
  <2>2. CASE ~ full
    BY <1>1, <2>2
  <2> QED BY <2>1, <2>2
<1> HIDE DEF rest
<1>6. Rising(q) /\ q \in Seq(Frame) /\ ToSet(q) = ToSet(rest) \union {frame}
      /\ Len(q) = Len(rest) + 1
  <2>1. \A x \in ToSet(rest) : x.number < frame.number
    BY <1>1, <1>2, <1>5
  <2>2. Rising(q)
    BY <1>5, <2>1, RisingAppend
  <2> QED BY <1>5, <2>2, AppendSet
<1> HIDE DEF q
<1>7. Sound(<<>>, <<>>, q, ow \union {frame}, n + 1, s)
  <2>1. <<>> \in Seq(Frame) /\ ToSet(<<>>) = {} /\ IsInjective(<<>>)
    BY EmptySet
  <2>2. ToSet(q) \subseteq ow \union {frame}
    BY <1>1, <1>5, <1>6
  <2>3. \A x \in ow \union {frame} : x.source # s /\ x.number <= n + 1
    BY <1>1
  <2> QED BY <1>1, <1>6, <2>1, <2>2, <2>3 DEF Sound
<1>8. Len(q) <= RelayInitialQueuePackets
  BY <1>3, <1>5, <1>6
<1>9. ASSUME Accounted(<<>>, <<>>, p, ow)
      PROVE  Accounted(<<>>, <<>>, q, ow \union {frame})
  <2>1. ToSet(<<>>) = {}
    BY EmptySet
  <2>2. LostAreOld(ToSet(p), ow \ ToSet(p))
    <3>1. (ToSet(<<>>) \union ToSet(<<>>) \union ToSet(p)) \intersect ow = ToSet(p)
      BY <1>1, <2>1
    <3> QED BY <1>9, <3>1 DEF Accounted
  <2>3. /\ Cardinality(ToSet(p)) = Len(p)
        /\ Cardinality(ToSet(q)) = Len(q)
    BY <1>1, <1>6, RisingIsInjective, InjectiveLen
  <2>4. LostAreOld(ToSet(q), (ow \union {frame}) \ ToSet(q))
    <3>1. CASE full
      <4>1. Cardinality(ToSet(q)) >= RelayInitialQueuePackets
        BY <1>3, <1>5, <1>6, <2>3, <3>1
      <4>2. ASSUME NEW x \in (ow \union {frame}) \ ToSet(q), NEW y \in ToSet(q)
            PROVE  x.number < y.number
        <5>1. x \in ow /\ x # frame /\ x \notin ToSet(rest)
          BY <1>6
        <5>2. CASE y = frame
          BY <1>2, <5>1, <5>2
        <5>3. CASE y \in ToSet(rest)
          <6>1. CASE x \in ToSet(p)
            BY <1>5, <3>1, <5>1, <5>3, <6>1
          <6>2. CASE x \notin ToSet(p)
            BY <1>5, <2>2, <5>1, <5>3, <6>2 DEF LostAreOld
          <6> QED BY <6>1, <6>2
        <5> QED BY <1>6, <5>2, <5>3
      <4> QED BY <4>1, <4>2 DEF LostAreOld
    <3>2. CASE ~ full
      <4>1. ow \ ToSet(p) = {}
        BY <1>3, <2>2, <2>3, <3>2 DEF LostAreOld
      <4>2. (ow \union {frame}) \ ToSet(q) = {}
        BY <1>5, <1>6, <3>2, <4>1
      <4> QED BY <4>2 DEF LostAreOld
    <3> QED BY <3>1, <3>2
  <2>5. (ToSet(<<>>) \union ToSet(<<>>) \union ToSet(q)) \intersect (ow \union {frame})
           = ToSet(q)
    BY <1>1, <1>5, <1>6, <2>1
  <2> QED BY <2>4, <2>5 DEF Accounted
<1> QED BY <1>4, <1>7, <1>8, <1>9

\* The first datagram of a seat: the BindAck, then the queue.
LEMMA OrderedBinds ==
    ASSUME NEW p, NEW ow, NEW n \in Nat, NEW s \in Slot,
           Sound(<<>>, <<>>, p, ow, n, s), n + 1 <= MaxAccepted
    PROVE  Ordered(<<>>, <<[source |-> s, number |-> n + 1]>> \o p, s)
<1> DEFINE ack == [source |-> s, number |-> n + 1]
           o == <<ack>> \o p
<1>1. ack \in Frame /\ ack.source = s
  BY MaxAcceptedAssumption DEF Frame
<1> HIDE DEF ack
<1>2. p \in Seq(Frame) /\ Rising(p) /\ \A x \in ToSet(p) : x.source # s
  BY DEF Sound
<1>3. InSourceOrder(o)
  BY <1>1, <1>2, InOrderFirst
<1>4. Head(o) = ack
  BY <1>1, <1>2
<1> HIDE DEF o
<1>5. Ordered(<<>>, o, s)
  BY <1>1, <1>3, <1>4, EmptySet DEF Ordered
<1> QED BY <1>5 DEF o, ack

\* One more frame for a seat that has got its BindAck.
LEMMA OrderedReceives ==
    ASSUME NEW w, NEW p, NEW ow, NEW n \in Nat, NEW s,
           Sound(w, <<>>, p, ow, n, s), Ordered(w, <<>>, s), w # <<>>,
           NEW frame \in Frame, frame.number = n + 1
    PROVE  Ordered(w, <<frame>>, s)
<1>1. \A x \in ToSet(w) : x.number <= n /\ x.number \in Nat
  BY FrameNumbers, SeqValues DEF Sound
<1>2. \A x \in ToSet(w), y \in ToSet(<<frame>>) : Follows(x, y)
  BY <1>1, SingleSet DEF Follows
<1> QED BY <1>2, SingleSet DEF Ordered

\* Writing the next frame leaves the order as it is.
LEMMA OrderedWrites ==
    ASSUME NEW w \in Seq(Frame), NEW o \in Seq(Frame), o # <<>>, NEW s,
           Ordered(w, o, s)
    PROVE  Ordered(Append(w, Head(o)), Tail(o), s)
<1> DEFINE x == Head(o)
           rest == Tail(o)
           more == Append(w, x)
<1>1. /\ x \in Frame /\ rest \in Seq(Frame)
      /\ ToSet(o) = ToSet(rest) \union {x}
      /\ InSourceOrder(rest) /\ \A y \in ToSet(rest) : Follows(x, y)
  BY TailSet, InOrderTail DEF Ordered
<1>2. /\ more \in Seq(Frame) /\ more # <<>>
      /\ Head(more) = IF w = <<>> THEN x ELSE Head(w)
  OBVIOUS
<1>3. Head(more).source = s
  BY <1>2 DEF Ordered
<1> HIDE DEF x, rest
<1>4. InSourceOrder(more) /\ ToSet(more) = ToSet(w) \union {x}
  <2>1. \A y \in ToSet(w) : Follows(y, x)
    BY <1>1 DEF Ordered
  <2> QED BY <1>1, <2>1, InOrderAppend, AppendSet DEF Ordered
<1>5. \A y \in ToSet(more), z \in ToSet(rest) : Follows(y, z)
  BY <1>1, <1>4 DEF Ordered
<1> HIDE DEF more
<1>6. Ordered(more, rest, s)
  BY <1>1, <1>2, <1>3, <1>4, <1>5 DEF Ordered
<1> QED BY <1>6 DEF more, rest, x

-----------------------------------------------------------------------------
(* The inductive invariant.                                                *)

Bound(r) == Seated(r) /\ games[r[1]].seat[r[2]].bound

\* A token is valid as long as its participant is seated, no user sits
\* twice, and while clients wait for BindAck nothing waits for a participant
\* who was heard of.
IsGame(game) ==
    /\ IsRelayGame(game)
    /\ game.byToken = game.participants
    /\ \A s, t \in game.participants :
          game.seat[s].user = game.seat[t].user => s = t
    /\ \A s \in DOMAIN game.seat :
          ~ DataFirst /\ game.seat[s].bound => game.seat[s].pending = <<>>

GamesInv ==
    /\ \A g \in DOMAIN games : IsGame(games[g])
    /\ DOMAIN games \subseteq drawn
    /\ expiring \subseteq drawn
    /\ ~ open => DOMAIN games = {}

\* Nothing was ever sent to a seat that was not heard of, or whose game was
\* not drawn; a seat that was heard of has got or gets its BindAck first.
SeatInv(r) ==
    /\ Sound(written[r], outbox[r], Pending(r), owed[r], accepted, r[2])
    /\ Seated(r) /\ ~ Bound(r) => written[r] = <<>> /\ outbox[r] = <<>>
    /\ r[1] \notin drawn =>
          written[r] = <<>> /\ outbox[r] = <<>> /\ owed[r] = {}
    /\ Seated(r) => Accounted(written[r], outbox[r], Pending(r), owed[r])
    /\ ~ DataFirst =>
          /\ Ordered(written[r], outbox[r], r[2])
          /\ Bound(r) => written[r] # <<>> \/ outbox[r] # <<>>

RelayInv == TypeOK /\ GamesInv /\ \A r \in Seat : SeatInv(r)

-----------------------------------------------------------------------------
(* What the actions do to the games.                                       *)

\* The game with other participants' records.
Reseat(game, seat, idle) ==
    [seat |-> seat, participants |-> game.participants,
     byToken |-> game.byToken, idle |-> idle]

\* What a participant is apart from his rates, his endpoint and his queue,
\* and what holds for these.
Replaces(q, p) ==
    /\ q \in Participant
    /\ q.user = p.user
    /\ Len(q.pending) <= RelayInitialQueuePackets
    /\ ~ DataFirst /\ q.bound => q.pending = <<>>

\* Game g gets the records seat, and no other game changes.
Reseats(g, seat, idle) ==
    /\ DOMAIN games' = DOMAIN games
    /\ games'[g] = Reseat(games[g], seat, idle)
    /\ \A h \in DOMAIN games \ {g} : games'[h] = games[h]

\* The fields of a game.
LEMMA GameFields ==
    ASSUME NEW game, IsRelayGame(game)
    PROVE  /\ game.seat \in [DOMAIN game.seat -> Participant]
           /\ game.participants \subseteq DOMAIN game.seat
           /\ game.byToken \subseteq DOMAIN game.seat
           /\ DOMAIN game.seat \subseteq Slot
           /\ game.idle \in BOOLEAN
           /\ game = Reseat(game, game.seat, game.idle)
           /\ \A idle : [game EXCEPT !.idle = idle] = Reseat(game, game.seat, idle)
BY DEF IsRelayGame, Reseat

\* The fields of a game with other records.
LEMMA ReseatFields ==
    \A game, seat, idle :
        /\ Reseat(game, seat, idle).seat = seat
        /\ Reseat(game, seat, idle).participants = game.participants
        /\ Reseat(game, seat, idle).byToken = game.byToken
        /\ Reseat(game, seat, idle).idle = idle
BY DEF Reseat

\* With records that replace the old ones a game stays one.
LEMMA ReseatIsGame ==
    ASSUME NEW game, IsGame(game), NEW seat, NEW idle \in BOOLEAN,
           seat \in [DOMAIN game.seat -> Participant],
           \A s \in DOMAIN game.seat : Replaces(seat[s], game.seat[s])
    PROVE  IsGame(Reseat(game, seat, idle))
<1>1. IsRelayGame(game)
  BY DEF IsGame
<1> DEFINE new == Reseat(game, seat, idle)
<1>2. /\ new.seat = seat /\ new.participants = game.participants
      /\ new.byToken = game.byToken /\ new.idle = idle
  BY ReseatFields
<1>3. /\ DOMAIN seat = DOMAIN game.seat
      /\ DOMAIN game.seat \subseteq Slot
      /\ game.participants \subseteq DOMAIN game.seat
      /\ game.byToken \subseteq DOMAIN game.seat
      /\ seat \in [DOMAIN seat -> Participant]
  BY <1>1, GameFields
<1>4. new \in [seat: [DOMAIN seat -> Participant], participants: SUBSET Slot,
               byToken: SUBSET Slot, idle: BOOLEAN]
  BY <1>3 DEF Reseat
<1> HIDE DEF new
<1>5. IsRelayGame(new)
  BY <1>2, <1>3, <1>4 DEF IsRelayGame, Replaces
<1>6. \A s, t \in new.participants : new.seat[s].user = new.seat[t].user => s = t
  BY <1>2, <1>3 DEF IsGame, Replaces
<1>7. \A s \in DOMAIN new.seat :
         ~ DataFirst /\ new.seat[s].bound => new.seat[s].pending = <<>>
  BY <1>2, <1>3 DEF Replaces
<1>8. new.byToken = new.participants
  BY <1>2 DEF IsGame
<1> QED BY <1>5, <1>6, <1>7, <1>8 DEF IsGame, new

\* Every participant's record replaces itself.
LEMMA Unreplaced ==
    ASSUME NEW game, IsGame(game), NEW s \in DOMAIN game.seat
    PROVE  /\ Replaces(game.seat[s], game.seat[s])
           /\ game.seat[s] \in Participant
           /\ game.seat[s].pending \in Seq(Frame)
           /\ game.seat[s].bound \in BOOLEAN
BY DEF IsGame, IsRelayGame, Replaces, Participant

\* Counting a datagram touches nothing but the rates.
LEMMA CountedType ==
    ASSUME NEW p \in Participant, NEW kind, NEW windowOver \in BOOLEAN
    PROVE  /\ Counted(p, kind, windowOver) \in Participant
           /\ Counted(p, kind, windowOver).user = p.user
           /\ Counted(p, kind, windowOver).bound = p.bound
           /\ Counted(p, kind, windowOver).pending = p.pending
<1>1. /\ p \in [user: User, bound: BOOLEAN,
                packets: 0 .. MaxRelayPacketsPerSecond + 1,
                bytes: 0 .. MaxRelayBytesPerSecond + 1, pending: Seq(Frame)]
      /\ p.packets \in Nat /\ p.bytes \in Nat
      /\ MaxRelayPacketsPerSecond \in Nat /\ MaxRelayBytesPerSecond \in Nat
      /\ Size(kind) \in Nat
  BY RateAssumption DEF Participant, Size
<1> DEFINE packets == IF windowOver THEN 1 ELSE p.packets + 1
           bytes == IF windowOver THEN Size(kind) ELSE p.bytes + Size(kind)
<1>2. packets \in Nat /\ bytes \in Nat
  BY <1>1
<1> HIDE DEF packets, bytes
<1>3. CASE WithinRate(packets, bytes)
  <2>1. /\ packets \in 0 .. MaxRelayPacketsPerSecond + 1
        /\ bytes \in 0 .. MaxRelayBytesPerSecond + 1
    BY <1>1, <1>2, <1>3 DEF WithinRate
  <2>2. Counted(p, kind, windowOver) = [p EXCEPT !.packets = packets, !.bytes = bytes]
    BY <1>3 DEF Counted, packets, bytes
  <2> QED BY <1>1, <2>1, <2>2 DEF Participant
<1>4. CASE ~ WithinRate(packets, bytes)
  <2>1. Counted(p, kind, windowOver) =
          [p EXCEPT !.packets = MaxRelayPacketsPerSecond + 1,
                    !.bytes = MaxRelayBytesPerSecond + 1]
    BY <1>4 DEF Counted, packets, bytes
  <2>2. /\ MaxRelayPacketsPerSecond + 1 \in 0 .. MaxRelayPacketsPerSecond + 1
        /\ MaxRelayBytesPerSecond + 1 \in 0 .. MaxRelayBytesPerSecond + 1
    BY <1>1
  <2> QED BY <1>1, <2>1, <2>2 DEF Participant
<1> QED BY <1>3, <1>4

\* A datagram over the limit.
LEMMA RateLimitedGames ==
    ASSUME GamesInv, NEW g, NEW s, NEW kind, NEW windowOver \in BOOLEAN,
           RateLimited(g, s, kind, windowOver)
    PROVE  LET p == Counted(games[g].seat[s], kind, windowOver)
           IN  /\ g \in DOMAIN games /\ s \in games[g].participants
               /\ Reseats(g, [games[g].seat EXCEPT ![s] = p], games[g].idle)
<1> DEFINE p == Counted(games[g].seat[s], kind, windowOver)
           new == [games[g].seat EXCEPT ![s] = p]
<1>1. /\ g \in DOMAIN games /\ s \in games[g].byToken
      /\ games' = [games EXCEPT ![g].seat[s] = p]
  BY DEF RateLimited, Authenticated
<1>2. IsRelayGame(games[g]) /\ games[g].byToken = games[g].participants
  BY <1>1 DEF GamesInv, IsGame
<1> HIDE DEF p
<1>3. games'[g] = [games[g] EXCEPT !.seat = new]
  BY <1>1
<1> HIDE DEF new
<1>4. games'[g] = Reseat(games[g], new, games[g].idle)
  BY <1>2, <1>3 DEF IsRelayGame, Reseat
<1>5. DOMAIN games' = DOMAIN games /\ \A h \in DOMAIN games \ {g} : games'[h] = games[h]
  BY <1>1
<1> QED BY <1>1, <1>2, <1>4, <1>5 DEF Reseats, new, p

\* The BindAck and the end of the queue.
LEMMA HandleBindGames ==
    ASSUME GamesInv, NEW g, NEW s, NEW windowOver \in BOOLEAN,
           HandleBind(g, s, windowOver)
    PROVE  LET p == Counted(games[g].seat[s], "bind", windowOver)
           IN  /\ g \in DOMAIN games /\ s \in games[g].participants
               /\ Reseats(g, [games[g].seat EXCEPT
                                 ![s] = [p EXCEPT !.bound = TRUE, !.pending = <<>>]],
                          FALSE)
<1> DEFINE p == Counted(games[g].seat[s], "bind", windowOver)
           q == [p EXCEPT !.bound = TRUE, !.pending = <<>>]
           new == [games[g].seat EXCEPT ![s] = q]
<1>1. /\ g \in DOMAIN games /\ s \in games[g].byToken
      /\ games' = [games EXCEPT ![g].seat[s] = q, ![g].idle = FALSE]
  BY DEF HandleBind, Authenticated, Answer
<1>2. IsRelayGame(games[g]) /\ games[g].byToken = games[g].participants
  BY <1>1 DEF GamesInv, IsGame
<1> HIDE DEF q
<1>3. games'[g] = [games[g] EXCEPT !.seat = new, !.idle = FALSE]
  BY <1>1
<1> HIDE DEF new
<1>4. games'[g] = Reseat(games[g], new, FALSE)
  BY <1>2, <1>3 DEF IsRelayGame, Reseat
<1>5. DOMAIN games' = DOMAIN games /\ \A h \in DOMAIN games \ {g} : games'[h] = games[h]
  BY <1>1
<1> QED BY <1>1, <1>2, <1>4, <1>5 DEF Reseats, new, q, p

\* The records of the game's participants after a Data frame of slot s.
Received(g, s, target, windowOver) ==
    LET p == Counted(games[g].seat[s], "data", windowOver)
        frame == [source |-> s, number |-> accepted + 1]
        seat == [games[g].seat EXCEPT ![s] = [p EXCEPT !.bound = TRUE]]
    IN  [t \in DOMAIN seat |->
            IF t \in Recipients(g, s, target) /\ ~ seat[t].bound
            THEN [seat[t] EXCEPT !.pending = Queued(@, frame)]
            ELSE seat[t]]

\* A Data frame.
LEMMA HandleDataGames ==
    ASSUME GamesInv, NEW g, NEW s, NEW target, NEW windowOver \in BOOLEAN,
           HandleData(g, s, target, windowOver)
    PROVE  /\ g \in DOMAIN games /\ s \in games[g].participants
           /\ Reseats(g, Received(g, s, target, windowOver), FALSE)
<1> DEFINE new == Received(g, s, target, windowOver)
<1>1. /\ g \in DOMAIN games /\ s \in games[g].byToken
      /\ games' = [games EXCEPT ![g].idle = FALSE, ![g].seat = new]
  BY DEF HandleData, Authenticated, Received
<1>2. IsRelayGame(games[g]) /\ games[g].byToken = games[g].participants
  BY <1>1 DEF GamesInv, IsGame
<1> HIDE DEF new
<1>3. games'[g] = [games[g] EXCEPT !.idle = FALSE, !.seat = new]
  BY <1>1
<1>4. games'[g] = Reseat(games[g], new, FALSE)
  BY <1>2, <1>3 DEF IsRelayGame, Reseat
<1>5. DOMAIN games' = DOMAIN games /\ \A h \in DOMAIN games \ {g} : games'[h] = games[h]
  BY <1>1
<1> QED BY <1>1, <1>2, <1>4, <1>5 DEF Reseats, new

\* Time.
LEMMA IdleTimePassesGames ==
    ASSUME GamesInv, NEW g, IdleTimePasses(g)
    PROVE  g \in DOMAIN games /\ Reseats(g, games[g].seat, TRUE)
<1>1. /\ g \in DOMAIN games
      /\ games' = [games EXCEPT ![g].idle = TRUE]
  BY DEF IdleTimePasses
<1>2. IsRelayGame(games[g])
  BY <1>1 DEF GamesInv, IsGame
<1>3. games'[g] = [games[g] EXCEPT !.idle = TRUE]
  BY <1>1
<1> QED BY <1>1, <1>2, <1>3, GameFields DEF Reseats

\* The pending queue never grows beyond its limit.
LEMMA QueuedType ==
    ASSUME NEW q \in Seq(Frame), NEW frame \in Frame,
           Len(q) <= RelayInitialQueuePackets
    PROVE  /\ Queued(q, frame) \in Seq(Frame)
           /\ Len(Queued(q, frame)) <= RelayInitialQueuePackets
<1>1. RelayInitialQueuePackets \in Nat \ {0} /\ Len(q) \in Nat
  BY QueueAssumption
<1>2. CASE Len(q) >= RelayInitialQueuePackets
  <2>1. q # <<>>
    BY <1>1, <1>2
  <2>2. Tail(q) \in Seq(Frame) /\ Len(Tail(q)) = Len(q) - 1
    BY <2>1, TailSet
  <2> QED BY <1>1, <1>2, <2>2, AppendSet DEF Queued
<1>3. CASE ~ (Len(q) >= RelayInitialQueuePackets)
  BY <1>1, <1>3, AppendSet DEF Queued
<1> QED BY <1>2, <1>3

\* The sender of a datagram is counted and heard of; a recipient who was not
\* heard of gets the frame into his queue; nobody else's record changes.
LEMMA ReceivedSeats ==
    ASSUME NEW g \in DOMAIN games, IsGame(games[g]),
           NEW s \in games[g].participants, NEW target,
           NEW windowOver \in BOOLEAN,
           NEW frame \in Frame, frame = [source |-> s, number |-> accepted + 1],
           DataFirst \/ games[g].seat[s].bound
    PROVE  LET old == games[g].seat
               new == Received(g, s, target, windowOver)
           IN  /\ new \in [DOMAIN old -> Participant]
               /\ \A t \in DOMAIN old : Replaces(new[t], old[t])
               /\ new[s].bound /\ new[s].pending = old[s].pending
               /\ \A t \in DOMAIN old \ {s} :
                     IF t \in Recipients(g, s, target) /\ ~ old[t].bound
                     THEN /\ ~ new[t].bound
                          /\ new[t].pending = Queued(old[t].pending, frame)
                     ELSE new[t] = old[t]
<1> DEFINE old == games[g].seat
           p == Counted(old[s], "data", windowOver)
           q == [p EXCEPT !.bound = TRUE]
           seat == [old EXCEPT ![s] = q]
           new == Received(g, s, target, windowOver)
<1>1. /\ old \in [DOMAIN old -> Participant] /\ s \in DOMAIN old
      /\ \A t \in DOMAIN old :
            /\ Replaces(old[t], old[t]) /\ old[t] \in Participant
            /\ old[t].pending \in Seq(Frame)
  BY Unreplaced DEF IsGame, IsRelayGame
<1>2. /\ p \in Participant /\ p.user = old[s].user
      /\ p.bound = old[s].bound /\ p.pending = old[s].pending
  BY <1>1, CountedType
<1>3. q \in Participant /\ q.user = p.user /\ q.bound = TRUE /\ q.pending = p.pending
  <2> HIDE DEF p
  <2> QED BY <1>2 DEF Participant
<1> HIDE DEF p, q
<1>4. /\ DOMAIN seat = DOMAIN old /\ seat[s] = q
      /\ \A t \in DOMAIN old \ {s} : seat[t] = old[t]
      /\ \A t \in DOMAIN old : seat[t] \in Participant
  BY <1>1, <1>3
<1>5. new = [t \in DOMAIN seat |->
                IF t \in Recipients(g, s, target) /\ ~ seat[t].bound
                THEN [seat[t] EXCEPT !.pending = Queued(@, frame)]
                ELSE seat[t]]
  BY DEF Received, q, p
<1> HIDE DEF new, seat, old
<1>6. new[s] = q
  BY <1>1, <1>3, <1>4, <1>5
<1>7. Replaces(q, old[s])
  BY <1>1, <1>2, <1>3 DEF Replaces, old
<1>8. ASSUME NEW t \in DOMAIN old, t # s
      PROVE  /\ new[t] \in Participant
             /\ Replaces(new[t], old[t])
             /\ IF t \in Recipients(g, s, target) /\ ~ old[t].bound
                THEN /\ ~ new[t].bound
                     /\ new[t].pending = Queued(old[t].pending, frame)
                ELSE new[t] = old[t]
  <2>1. CASE t \in Recipients(g, s, target) /\ ~ old[t].bound
    <3>1. new[t] = [old[t] EXCEPT !.pending = Queued(old[t].pending, frame)]
      BY <1>4, <1>5, <1>8, <2>1
    <3>2. /\ Len(old[t].pending) <= RelayInitialQueuePackets
          /\ old[t].pending \in Seq(Frame)
      BY <1>1, <1>8 DEF Replaces
    <3>3. /\ Queued(old[t].pending, frame) \in Seq(Frame)
          /\ Len(Queued(old[t].pending, frame)) <= RelayInitialQueuePackets
      BY <3>2, QueuedType
    <3>4. /\ new[t] \in Participant /\ new[t].user = old[t].user
          /\ new[t].bound = old[t].bound
          /\ new[t].pending = Queued(old[t].pending, frame)
      BY <1>1, <1>8, <3>1, <3>3 DEF Participant
    <3> QED BY <2>1, <3>3, <3>4 DEF Replaces
  <2>2. CASE ~ (t \in Recipients(g, s, target) /\ ~ old[t].bound)
    BY <1>1, <1>4, <1>5, <1>8, <2>2
  <2> QED BY <2>1, <2>2
<1>9. new \in [DOMAIN old -> Participant]
  BY <1>3, <1>4, <1>5, <1>6, <1>8
<1> QED BY <1>2, <1>3, <1>6, <1>7, <1>8, <1>9 DEF new, old

\* The game a participant was removed from.
LEMMA UnseatedFields ==
    ASSUME NEW game, IsGame(game), NEW s \in game.participants
    PROVE  LET old == game.seat
               q == [old[s] EXCEPT !.bound = FALSE, !.pending = <<>>]
           IN  /\ Unseated(game, s) =
                     [seat |-> [old EXCEPT ![s] = q],
                      participants |-> game.participants \ {s},
                      byToken |-> game.participants \ {s}, idle |-> FALSE]
               /\ q \in Participant /\ q.user = old[s].user
               /\ q.bound = FALSE /\ q.pending = <<>>
<1> DEFINE q == [game.seat[s] EXCEPT !.bound = FALSE, !.pending = <<>>]
           new == [game.seat EXCEPT ![s] = q]
<1>1. s \in DOMAIN game.seat /\ game.seat[s] \in Participant /\ IsRelayGame(game)
      /\ game.byToken = game.participants
  BY DEF IsGame, IsRelayGame
<1>2. <<>> \in Seq(Frame)
  OBVIOUS
<1>3. /\ q \in Participant /\ q.user = game.seat[s].user
      /\ q.bound = FALSE /\ q.pending = <<>>
  BY <1>1, <1>2 DEF Participant
<1> HIDE DEF q
<1>4. Unseated(game, s) =
         [game EXCEPT !.participants = game.participants \ {s},
                      !.byToken = game.byToken \ {s}, !.idle = FALSE, !.seat = new]
  BY <1>1 DEF Unseated, IsRelayGame, q
<1> HIDE DEF new
<1>5. Unseated(game, s) =
         [seat |-> new, participants |-> game.participants \ {s},
          byToken |-> game.participants \ {s}, idle |-> FALSE]
  BY <1>1, <1>4 DEF IsRelayGame
<1> QED BY <1>3, <1>5 DEF new, q

\* It is one still.
LEMMA UnseatedIsGame ==
    ASSUME NEW game, IsGame(game), NEW s \in game.participants
    PROVE  IsGame(Unseated(game, s))
<1> DEFINE old == game.seat
           q == [old[s] EXCEPT !.bound = FALSE, !.pending = <<>>]
           new == [old EXCEPT ![s] = q]
           left == Unseated(game, s)
<1>1. /\ left = [seat |-> new, participants |-> game.participants \ {s},
                 byToken |-> game.participants \ {s}, idle |-> FALSE]
      /\ q \in Participant /\ q.user = old[s].user
      /\ q.bound = FALSE /\ q.pending = <<>>
  BY UnseatedFields
<1>2. /\ old \in [DOMAIN old -> Participant] /\ DOMAIN old \subseteq Slot
      /\ game.participants \subseteq DOMAIN old
  BY DEF IsGame, IsRelayGame
<1> HIDE DEF q, left
<1>3. /\ DOMAIN new = DOMAIN old /\ new[s] = q
      /\ \A t \in DOMAIN old \ {s} : new[t] = old[t]
      /\ new \in [DOMAIN new -> Participant]
  BY <1>1, <1>2
<1> HIDE DEF new
<1>4. /\ left \in [seat: [DOMAIN new -> Participant], participants: SUBSET Slot,
                   byToken: SUBSET Slot, idle: BOOLEAN]
      /\ left.seat = new /\ left.participants = game.participants \ {s}
      /\ left.byToken = game.participants \ {s}
  BY <1>1, <1>2, <1>3
<1>5. \A t \in DOMAIN new : Len(new[t].pending) <= RelayInitialQueuePackets
  <2>1. Len(q.pending) <= RelayInitialQueuePackets
    BY <1>1, QueueAssumption
  <2> QED BY <1>3, <2>1 DEF IsGame, IsRelayGame
<1>6. IsRelayGame(left)
  BY <1>2, <1>3, <1>4, <1>5 DEF IsRelayGame
<1>7. \A t, v \in left.participants : left.seat[t].user = left.seat[v].user => t = v
  BY <1>2, <1>3, <1>4 DEF IsGame
<1>8. \A t \in DOMAIN left.seat :
         ~ DataFirst /\ left.seat[t].bound => left.seat[t].pending = <<>>
  BY <1>1, <1>3, <1>4 DEF IsGame
<1> QED BY <1>4, <1>6, <1>7, <1>8 DEF IsGame, left

\* The game Allocate makes of a member list.
LEMMA AllocatedIsGame ==
    ASSUME NEW members \in Seating,
           \A u, v \in DOMAIN members : members[u] = members[v] => u = v
    PROVE  LET slots == {members[u] : u \in DOMAIN members}
               seat == [s \in slots |->
                   [user |-> CHOOSE u \in DOMAIN members : members[u] = s,
                    bound |-> FALSE, packets |-> 0, bytes |-> 0,
                    pending |-> <<>>]]
               game == [seat |-> seat, participants |-> slots,
                        byToken |-> slots, idle |-> FALSE]
           IN  /\ IsGame(game)
               /\ \A s \in slots : /\ seat[s].bound = FALSE
                                   /\ seat[s].pending = <<>>
               /\ \A u \in DOMAIN members : seat[members[u]].user = u
               /\ DOMAIN members \in (SUBSET User) \ {{}}
               /\ members \in [DOMAIN members -> Slot]
<1> DEFINE slots == {members[u] : u \in DOMAIN members}
           user(s) == CHOOSE u \in DOMAIN members : members[u] = s
           one(s) == [user |-> user(s), bound |-> FALSE, packets |-> 0,
                      bytes |-> 0, pending |-> <<>>]
           seat == [s \in slots |-> one(s)]
           game == [seat |-> seat, participants |-> slots,
                    byToken |-> slots, idle |-> FALSE]
<1>1. /\ DOMAIN members \subseteq User /\ DOMAIN members # {}
      /\ members \in [DOMAIN members -> Slot]
  BY SeatingAssumption DEF IsMap
<1>2. slots \subseteq Slot
  BY <1>1
<1>3. ASSUME NEW s \in slots PROVE user(s) \in DOMAIN members /\ members[user(s)] = s
  OBVIOUS
<1>4. ASSUME NEW u \in DOMAIN members PROVE user(members[u]) = u
  BY <1>3
<1> HIDE DEF user
<1>5. ASSUME NEW s \in slots PROVE one(s) \in Participant
  <2>1. <<>> \in Seq(Frame) /\ user(s) \in User
    BY <1>1, <1>3
  <2>2. 0 \in 0 .. MaxRelayPacketsPerSecond + 1 /\ 0 \in 0 .. MaxRelayBytesPerSecond + 1
    BY RateAssumption
  <2> QED BY <2>1, <2>2 DEF Participant
<1>6. /\ DOMAIN seat = slots
      /\ \A s \in slots : seat[s] = one(s)
      /\ \A s \in slots : /\ one(s).user = user(s) /\ one(s).bound = FALSE
                          /\ one(s).pending = <<>>
  OBVIOUS
<1> HIDE DEF one
<1>7. seat \in [DOMAIN seat -> Participant]
  BY <1>5, <1>6
<1> HIDE DEF seat, slots
<1>8. game \in [seat: [DOMAIN seat -> Participant], participants: SUBSET Slot,
                byToken: SUBSET Slot, idle: BOOLEAN]
  BY <1>2, <1>7
<1>9. /\ game.seat = seat /\ game.participants = slots /\ game.byToken = slots
  OBVIOUS
<1> HIDE DEF game
<1>10. IsRelayGame(game)
  <2>1. \A s \in slots : Len(seat[s].pending) <= RelayInitialQueuePackets
    BY <1>6, QueueAssumption
  <2> QED BY <1>2, <1>6, <1>8, <1>9, <2>1 DEF IsRelayGame
<1>11. \A s, t \in slots : seat[s].user = seat[t].user => s = t
  BY <1>3, <1>6
<1>12. IsGame(game)
  BY <1>6, <1>9, <1>10, <1>11 DEF IsGame
<1>13. \A u \in DOMAIN members : members[u] \in slots /\ seat[members[u]].user = u
  BY <1>4, <1>6 DEF slots
<1> QED BY <1>1, <1>6, <1>12, <1>13 DEF game, seat, slots, one, user

\* What is seated, pending and heard of when a game gets other records.
LEMMA ReseatsSeats ==
    ASSUME GamesInv, NEW g \in DOMAIN games, NEW seat, NEW idle,
           Reseats(g, seat, idle), NEW r \in Seat
    PROVE  /\ Seated(r)' <=> Seated(r)
           /\ r[1] # g \/ ~ Seated(r) =>
                 Pending(r)' = Pending(r) /\ (Bound(r)' <=> Bound(r))
           /\ r[1] = g /\ Seated(r) =>
                 /\ r[2] \in games[g].participants
                 /\ Pending(r) = games[g].seat[r[2]].pending
                 /\ Pending(r)' = seat[r[2]].pending
                 /\ Bound(r) <=> games[g].seat[r[2]].bound
                 /\ Bound(r)' <=> seat[r[2]].bound
<1>1. /\ games'[g].seat = seat
      /\ games'[g].participants = games[g].participants
      /\ DOMAIN games' = DOMAIN games
      /\ \A h \in DOMAIN games \ {g} : games'[h] = games[h]
  BY ReseatFields DEF Reseats
<1> QED BY <1>1 DEF Seated, Pending, Bound

\* The games keep their shape when one gets other records.
LEMMA ReseatsKeeps ==
    ASSUME GamesInv, NEW g \in DOMAIN games, NEW seat, NEW idle \in BOOLEAN,
           Reseats(g, seat, idle),
           seat \in [DOMAIN games[g].seat -> Participant],
           \A s \in DOMAIN games[g].seat : Replaces(seat[s], games[g].seat[s]),
           UNCHANGED <<open, expiring, drawn>>
    PROVE  GamesInv'
<1>1. IsGame(games[g])
  BY DEF GamesInv
<1>2. IsGame(Reseat(games[g], seat, idle))
  BY <1>1, ReseatIsGame
<1>3. \A h \in DOMAIN games' : IsGame(games'[h])
  BY <1>2 DEF Reseats, GamesInv
<1> QED BY <1>3 DEF Reseats, GamesInv

-----------------------------------------------------------------------------
(* What the actions do to a seat.                                          *)

\* Nothing is sent, and nothing more is owed.
Stands(r) ==
    written'[r] = written[r] /\ outbox'[r] = outbox[r] /\ owed'[r] = owed[r]

\* The seat stays as it is; its participant may be heard of, but not while
\* clients wait for BindAck.
Rests(r) ==
    /\ Stands(r)
    /\ Pending(r)' = Pending(r)
    /\ Seated(r)' => Seated(r)
    /\ Bound(r) /\ Seated(r)' => Bound(r)'
    /\ ~ DataFirst /\ Bound(r)' => Bound(r)

\* It is given up, taken,
Leaves(r) == Stands(r) /\ ~ Seated(r)'

Joins(r) ==
    /\ Stands(r)
    /\ r[1] \notin drawn
    /\ Seated(r)' /\ ~ Bound(r)' /\ Pending(r)' = <<>>

\* bound,
Binds(r) ==
    /\ Seated(r) /\ Bound(r)' /\ outbox[r] = <<>>
    /\ accepted' = accepted + 1
    /\ outbox'[r] = <<[source |-> r[2], number |-> accepted + 1]>> \o Pending(r)
    /\ Pending(r)' = <<>>
    /\ written'[r] = written[r] /\ owed'[r] = owed[r]

\* addressed by a frame that is sent,
Receives(r) ==
    /\ Bound(r) /\ Bound(r)' /\ outbox[r] = <<>>
    /\ accepted' = accepted + 1
    /\ Pending(r)' = Pending(r)
    /\ written'[r] = written[r]
    /\ \E frame \in Frame : /\ frame.number = accepted + 1
                            /\ frame.source # r[2]
                            /\ outbox'[r] = <<frame>>
                            /\ owed'[r] = owed[r] \union {frame}

\* or by one that has to wait,
Waits(r) ==
    /\ Seated(r) /\ ~ Bound(r) /\ Seated(r)' /\ ~ Bound(r)'
    /\ accepted' = accepted + 1
    /\ written'[r] = written[r] /\ outbox[r] = <<>> /\ outbox'[r] = <<>>
    /\ \E frame \in Frame : /\ frame.number = accepted + 1
                            /\ frame.source # r[2]
                            /\ Pending(r)' = Queued(Pending(r), frame)
                            /\ owed'[r] = owed[r] \union {frame}

\* written to, or not written to any more.
Writes(r) ==
    /\ Pending(r)' = Pending(r)
    /\ (Seated(r)' <=> Seated(r)) /\ (Bound(r)' <=> Bound(r))
    /\ outbox[r] # <<>>
    /\ written'[r] = Append(written[r], Head(outbox[r]))
    /\ outbox'[r] = Tail(outbox[r])
    /\ owed'[r] = owed[r]

Fails(r) ==
    /\ ~ Seated(r) /\ ~ Seated(r)'
    /\ written'[r] = written[r] /\ outbox'[r] = <<>> /\ owed'[r] = owed[r]

SeatStep(r) ==
    \/ Rests(r) \/ Leaves(r) \/ Joins(r) \/ Binds(r)
    \/ Receives(r) \/ Waits(r) \/ Writes(r) \/ Fails(r)

\* What every step keeps apart from the seats.
Steps ==
    /\ GamesInv'
    /\ TypeOK'
    /\ accepted <= accepted'
    /\ drawn \subseteq drawn'
    /\ \A r \in Seat : SeatStep(r)

\* A seat's queue in terms of its game.
LEMMA PendingQueue ==
    ASSUME GamesInv, NEW r
    PROVE  /\ Len(Pending(r)) <= RelayInitialQueuePackets
           /\ ~ DataFirst /\ Bound(r) => Pending(r) = <<>>
           /\ ~ Seated(r) => Pending(r) = <<>>
           /\ Seated(r) => r[1] \in drawn
<1>1. CASE Seated(r)
  <2>1. /\ IsGame(games[r[1]]) /\ r[2] \in DOMAIN games[r[1]].seat
        /\ r[1] \in drawn
    BY <1>1 DEF Seated, GamesInv, IsGame, IsRelayGame
  <2> QED BY <1>1, <2>1 DEF Pending, Bound, IsGame, IsRelayGame
<1>2. CASE ~ Seated(r)
  BY <1>2, QueueAssumption DEF Pending, Bound
<1> QED BY <1>1, <1>2

\* The invariant of a seat survives every step.
LEMMA SeatKeeps ==
    ASSUME RelayInv, Steps, NEW r \in Seat
    PROVE  SeatInv(r)'
<1>1. /\ accepted \in Nat /\ accepted' \in Nat /\ accepted' <= MaxAccepted
      /\ accepted <= accepted' /\ drawn \subseteq drawn' /\ r[2] \in Slot
      /\ SeatInv(r)
  BY MaxAcceptedAssumption DEF RelayInv, TypeOK, Steps, Seat
<1>2. /\ Len(Pending(r)) <= RelayInitialQueuePackets
      /\ ~ DataFirst /\ Bound(r) => Pending(r) = <<>>
      /\ ~ Seated(r) => Pending(r) = <<>>
      /\ Seated(r) => r[1] \in drawn
  BY PendingQueue DEF RelayInv
<1>3. /\ ~ Seated(r)' => Pending(r)' = <<>>
      /\ Seated(r)' => r[1] \in drawn'
  BY DEF Steps, GamesInv, Seated, Pending
<1>5. Bound(r) => Seated(r)
  BY DEF Bound
<1>6. Bound(r)' => Seated(r)'
  BY DEF Bound
<1> DEFINE w == written[r]
           o == outbox[r]
           p == Pending(r)
           ow == owed[r]
           w1 == written'[r]
           o1 == outbox'[r]
           p1 == Pending(r)'
           ow1 == owed'[r]
           Kept == /\ Sound(w1, o1, p1, ow1, accepted', r[2])
                   /\ Seated(r)' /\ ~ Bound(r)' => w1 = <<>> /\ o1 = <<>>
                   /\ r[1] \notin drawn' => w1 = <<>> /\ o1 = <<>> /\ ow1 = {}
                   /\ Seated(r)' => Accounted(w1, o1, p1, ow1)
                   /\ ~ DataFirst =>
                         /\ Ordered(w1, o1, r[2])
                         /\ Bound(r)' => w1 # <<>> \/ o1 # <<>>
<1>7. /\ Sound(w, o, p, ow, accepted, r[2])
      /\ Seated(r) /\ ~ Bound(r) => w = <<>> /\ o = <<>>
      /\ r[1] \notin drawn => w = <<>> /\ o = <<>> /\ ow = {}
      /\ Seated(r) => Accounted(w, o, p, ow)
      /\ ~ DataFirst => /\ Ordered(w, o, r[2])
                        /\ Bound(r) => w # <<>> \/ o # <<>>
  BY <1>1 DEF SeatInv
<1> SUFFICES Kept
  BY DEF SeatInv
<1>8. CASE Rests(r)
  <2>1. w1 = w /\ o1 = o /\ ow1 = ow /\ p1 = p
    BY <1>8 DEF Rests, Stands
  <2>2. Sound(w, o, p, ow, accepted', r[2])
    BY <1>1, <1>7, SoundRests
  <2> HIDE DEF w, o, p, ow, w1, o1, p1, ow1
  <2> QED BY <1>1, <1>5, <1>6, <1>7, <1>8, <2>1, <2>2 DEF Rests
<1>9. CASE Leaves(r)
  <2>1. w1 = w /\ o1 = o /\ ow1 = ow /\ p1 = <<>> /\ ~ Seated(r)'
    BY <1>3, <1>9 DEF Leaves, Stands
  <2>2. Sound(w, o, <<>>, ow, accepted', r[2])
    <3>1. Sound(w, o, p, ow, accepted', r[2])
      BY <1>1, <1>7, SoundRests
    <3> QED BY <3>1, SoundLeaves
  <2> HIDE DEF w, o, p, ow, w1, o1, p1, ow1
  <2> QED BY <1>1, <1>6, <1>7, <2>1, <2>2
<1>10. CASE Joins(r)
  <2>1. /\ w1 = <<>> /\ o1 = <<>> /\ ow1 = {} /\ p1 = <<>> /\ ~ Bound(r)'
        /\ Seated(r)' /\ w = <<>> /\ o = <<>> /\ ow = {}
    BY <1>7, <1>10 DEF Joins, Stands
  <2>2. Sound(<<>>, <<>>, <<>>, {}, accepted', r[2])
    BY EmptySet DEF Sound
  <2>3. Accounted(<<>>, <<>>, <<>>, {})
    BY DEF Accounted, LostAreOld
  <2>4. Ordered(<<>>, <<>>, r[2])
    BY EmptySet DEF Ordered
  <2> HIDE DEF w, o, p, ow, w1, o1, p1, ow1
  <2> QED BY <2>1, <2>2, <2>3, <2>4
<1>11. CASE Binds(r)
  <2> DEFINE ack == <<[source |-> r[2], number |-> accepted + 1]>>
  <2>1. /\ o = <<>> /\ o1 = ack \o p /\ p1 = <<>> /\ w1 = w /\ ow1 = ow
        /\ accepted' = accepted + 1 /\ Seated(r) /\ Bound(r)' /\ Seated(r)'
        /\ r[1] \in drawn'
    BY <1>1, <1>2, <1>6, <1>11 DEF Binds
  <2> HIDE DEF w, o, p, ow, w1, o1, p1, ow1
  <2>2. /\ Sound(w, <<>>, p, ow, accepted, r[2])
        /\ accepted + 1 <= MaxAccepted
    BY <1>1, <1>7, <2>1
  <2>3. /\ Sound(w, o1, <<>>, ow, accepted + 1, r[2])
        /\ ToSet(o1) \intersect ow = ToSet(p) \intersect ow
    <3>1. /\ Sound(w, ack \o p, <<>>, ow, accepted + 1, r[2])
          /\ ToSet(ack \o p) \intersect ow = ToSet(p) \intersect ow
      BY <1>1, <2>2, SoundBinds
    <3> QED BY <2>1, <3>1
  <2>4. Accounted(w, o1, <<>>, ow)
    <3>1. ToSet(<<>>) = {}
      BY EmptySet
    <3>2. Accounted(w, <<>>, p, ow)
      BY <1>7, <2>1
    <3>3. (ToSet(w) \union ToSet(<<>>) \union ToSet(p)) \intersect ow =
             (ToSet(w) \union ToSet(o1) \union ToSet(<<>>)) \intersect ow
      BY <2>3, <3>1
    <3> QED BY <3>2, <3>3, AccountedSame
  <2>5. o1 # <<>>
    <3>1. p \in Seq(Frame)
      BY <2>2 DEF Sound
    <3> QED BY <2>1, <3>1
  <2>6. ASSUME ~ DataFirst PROVE Ordered(w, o1, r[2])
    <3>1. CASE Bound(r)
      <4>1. p = <<>> /\ w # <<>> /\ Ordered(w, <<>>, r[2])
        BY <1>2, <1>7, <2>1, <2>6, <3>1 DEF p
      <4>2. [source |-> r[2], number |-> accepted + 1] \in Frame
        BY <1>1, <2>2 DEF Frame
      <4>3. o1 = ack
        BY <2>1, <4>1
      <4> QED BY <1>1, <2>2, <4>1, <4>2, <4>3, OrderedReceives
    <3>2. CASE ~ Bound(r)
      <4>1. w = <<>>
        BY <1>7, <2>1, <3>2
      <4> QED BY <1>1, <2>1, <2>2, <4>1, OrderedBinds
    <3> QED BY <3>1, <3>2
  <2> QED BY <2>1, <2>3, <2>4, <2>5, <2>6
<1>12. CASE Receives(r)
  <2>1. PICK frame \in Frame : /\ frame.number = accepted + 1
                               /\ frame.source # r[2]
                               /\ o1 = <<frame>> /\ ow1 = ow \union {frame}
    BY <1>12 DEF Receives
  <2>2. /\ o = <<>> /\ p1 = p /\ w1 = w /\ accepted' = accepted + 1
        /\ Bound(r) /\ Bound(r)' /\ Seated(r) /\ Seated(r)' /\ r[1] \in drawn'
    BY <1>1, <1>2, <1>5, <1>6, <1>12 DEF Receives
  <2> HIDE DEF w, o, p, ow, w1, o1, p1, ow1
  <2>3. /\ Sound(w, <<>>, p, ow, accepted, r[2])
        /\ Accounted(w, <<>>, p, ow)
    BY <1>7, <2>2
  <2>4. Sound(w, <<frame>>, p, ow \union {frame}, accepted + 1, r[2])
    BY <1>1, <2>1, <2>3, SoundReceives
  <2>5. Accounted(w, <<frame>>, p, ow \union {frame})
    BY <1>1, <2>1, <2>3, AccountedReceives
  <2>6. ASSUME ~ DataFirst PROVE Ordered(w, <<frame>>, r[2])
    <3>1. w # <<>> /\ Ordered(w, <<>>, r[2])
      BY <1>7, <2>2, <2>6
    <3> QED BY <1>1, <2>1, <2>3, <3>1, OrderedReceives
  <2> QED BY <2>1, <2>2, <2>4, <2>5, <2>6
<1>13. CASE Waits(r)
  <2>1. PICK frame \in Frame : /\ frame.number = accepted + 1
                               /\ frame.source # r[2]
                               /\ p1 = Queued(p, frame) /\ ow1 = ow \union {frame}
    BY <1>13 DEF Waits
  <2>2. /\ o = <<>> /\ o1 = <<>> /\ w = <<>> /\ w1 = <<>>
        /\ accepted' = accepted + 1
        /\ ~ Bound(r)' /\ ~ Bound(r) /\ Seated(r) /\ Seated(r)' /\ r[1] \in drawn'
        /\ Len(p) <= RelayInitialQueuePackets
    BY <1>1, <1>2, <1>7, <1>13 DEF Waits
  <2> HIDE DEF w, o, p, ow, w1, o1, p1, ow1
  <2>3. /\ Sound(<<>>, <<>>, p, ow, accepted, r[2])
        /\ Accounted(<<>>, <<>>, p, ow)
    BY <1>7, <2>2
  <2>4. /\ Sound(<<>>, <<>>, Queued(p, frame), ow \union {frame}, accepted + 1, r[2])
        /\ Accounted(<<>>, <<>>, Queued(p, frame), ow \union {frame})
    BY <1>1, <2>1, <2>2, <2>3, SoundWaits
  <2> QED BY <1>7, <2>1, <2>2, <2>4
<1>14. CASE Writes(r)
  <2>1. /\ o # <<>> /\ w1 = Append(w, Head(o)) /\ o1 = Tail(o) /\ ow1 = ow
        /\ p1 = p /\ (Seated(r)' <=> Seated(r)) /\ (Bound(r)' <=> Bound(r))
    BY <1>14 DEF Writes
  <2> HIDE DEF w, o, p, ow, w1, o1, p1, ow1
  <2>2. w \in Seq(Frame) /\ o \in Seq(Frame)
    BY <1>7 DEF Sound
  <2>3. /\ Sound(w1, o1, p, ow, accepted, r[2])
        /\ ToSet(w1) \union ToSet(o1) = ToSet(w) \union ToSet(o)
    BY <1>7, <2>1, SoundWrites
  <2>4. Sound(w1, o1, p, ow, accepted', r[2])
    BY <1>1, <2>3, SoundRests
  <2>5. Seated(r) => Accounted(w1, o1, p, ow)
    <3>1. (ToSet(w) \union ToSet(o) \union ToSet(p)) \intersect ow =
             (ToSet(w1) \union ToSet(o1) \union ToSet(p)) \intersect ow
      BY <2>3
    <3> QED BY <1>7, <3>1, AccountedSame
  <2>6. w1 # <<>>
    BY <2>1, <2>2
  <2>7. ~ DataFirst => Ordered(w1, o1, r[2])
    BY <1>7, <2>1, <2>2, OrderedWrites
  <2>8. r[1] \in drawn' /\ ~ (Seated(r) /\ ~ Bound(r))
    BY <1>1, <1>7, <2>1
  <2> QED BY <2>1, <2>4, <2>5, <2>6, <2>7, <2>8
<1>15. CASE Fails(r)
  <2>1. /\ o1 = <<>> /\ w1 = w /\ ow1 = ow /\ p = <<>> /\ p1 = <<>>
        /\ ~ Seated(r)'
    BY <1>2, <1>3, <1>15 DEF Fails
  <2> HIDE DEF w, o, p, ow, w1, o1, p1, ow1
  <2>2. Sound(w, <<>>, p, ow, accepted', r[2])
    <3>1. Sound(w, o, p, ow, accepted', r[2])
      BY <1>1, <1>7, SoundRests
    <3> QED BY <3>1, SoundFails
  <2>3. ~ DataFirst => Ordered(w, <<>>, r[2])
    BY <1>7, EmptySet DEF Ordered
  <2> QED BY <1>1, <1>6, <1>7, <2>1, <2>2, <2>3
<1> QED BY <1>8, <1>9, <1>10, <1>11, <1>12, <1>13, <1>14, <1>15 DEF Steps, SeatStep

-----------------------------------------------------------------------------
(* Every action takes such a step.                                         *)

\* The type invariant from its parts.
LEMMA TypesFollow ==
    ASSUME GamesInv, drawn \subseteq GameId, open \in BOOLEAN,
           outbox \in [Seat -> Seq(Frame)], accepted \in 0 .. MaxAccepted,
           owed \in [Seat -> SUBSET Frame], written \in [Seat -> Seq(Frame)]
    PROVE  TypeOK
BY DEF TypeOK, GamesInv, IsGame

\* Where the games are the same, so are the seats.
LEMMA SameSeats ==
    ASSUME UNCHANGED games, NEW r
    PROVE  /\ Seated(r)' <=> Seated(r)
           /\ Pending(r)' = Pending(r)
           /\ Bound(r)' <=> Bound(r)
BY DEF Seated, Pending, Bound

\* A game gets other records, and nothing is sent.
LEMMA QuietSteps ==
    ASSUME RelayInv, UNCHANGED <<open, expiring, drawn, outbox, historyVars>>,
           NEW g \in DOMAIN games, NEW seat, NEW idle \in BOOLEAN,
           Reseats(g, seat, idle),
           seat \in [DOMAIN games[g].seat -> Participant],
           \A s \in DOMAIN games[g].seat :
              /\ Replaces(seat[s], games[g].seat[s])
              /\ seat[s].bound = games[g].seat[s].bound
              /\ seat[s].pending = games[g].seat[s].pending
    PROVE  Steps
<1>1. GamesInv /\ TypeOK
  BY DEF RelayInv
<1>2. GamesInv'
  BY <1>1, ReseatsKeeps
<1>3. TypeOK'
  BY <1>1, <1>2 DEF TypeOK, GamesInv, IsGame, historyVars
<1>4. ASSUME NEW r \in Seat PROVE Rests(r)
  <2>1. /\ Seated(r)' <=> Seated(r)
        /\ Pending(r)' = Pending(r)
        /\ Bound(r)' <=> Bound(r)
    <3>1. CASE r[1] = g /\ Seated(r)
      <4>1. r[2] \in DOMAIN games[g].seat
        BY <1>1, <3>1 DEF GamesInv, IsGame, IsRelayGame, Seated
      <4> QED BY <1>1, <3>1, <4>1, ReseatsSeats
    <3>2. CASE ~ (r[1] = g /\ Seated(r))
      BY <1>1, <3>2, ReseatsSeats
    <3> QED BY <3>1, <3>2
  <2> QED BY <2>1 DEF Rests, Stands, historyVars
<1>5. accepted <= accepted'
  BY <1>1 DEF TypeOK, historyVars
<1> QED BY <1>2, <1>3, <1>4, <1>5 DEF Steps, SeatStep

\* A datagram over the limit changes nothing for any seat.
LEMMA RateLimitedSteps ==
    ASSUME RelayInv, NEW g, NEW s, NEW kind, NEW windowOver \in BOOLEAN,
           RateLimited(g, s, kind, windowOver)
    PROVE  Steps
<1> DEFINE old == games[g].seat
           p == Counted(old[s], kind, windowOver)
           new == [old EXCEPT ![s] = p]
<1>1. /\ g \in DOMAIN games /\ s \in games[g].participants
      /\ Reseats(g, new, games[g].idle)
  BY RateLimitedGames DEF RelayInv
<1>2. /\ IsGame(games[g]) /\ s \in DOMAIN old /\ games[g].idle \in BOOLEAN
      /\ old \in [DOMAIN old -> Participant]
  BY <1>1 DEF RelayInv, GamesInv, IsGame, IsRelayGame
<1>3. /\ old[s] \in Participant
      /\ \A t \in DOMAIN old : Replaces(old[t], old[t])
  BY <1>2, Unreplaced
<1>4. /\ p \in Participant /\ p.user = old[s].user
      /\ p.bound = old[s].bound /\ p.pending = old[s].pending
  BY <1>3, CountedType
<1>5. UNCHANGED <<open, expiring, drawn, outbox, historyVars>>
  BY DEF RateLimited
<1> HIDE DEF p
<1>6. /\ new \in [DOMAIN old -> Participant]
      /\ \A t \in DOMAIN old : /\ Replaces(new[t], old[t])
                               /\ new[t].bound = old[t].bound
                               /\ new[t].pending = old[t].pending
  BY <1>2, <1>3, <1>4 DEF Replaces
<1> HIDE DEF new
<1> QED BY <1>1, <1>2, <1>5, <1>6, QuietSteps

\* Neither does time.
LEMMA IdleTimePassesSteps ==
    ASSUME RelayInv, NEW g, IdleTimePasses(g)
    PROVE  Steps
<1>1. g \in DOMAIN games /\ Reseats(g, games[g].seat, TRUE)
  BY IdleTimePassesGames DEF RelayInv
<1>2. /\ IsGame(games[g])
      /\ games[g].seat \in [DOMAIN games[g].seat -> Participant]
  BY <1>1 DEF RelayInv, GamesInv, IsGame, IsRelayGame
<1>3. UNCHANGED <<open, expiring, drawn, outbox, historyVars>>
  BY DEF IdleTimePasses
<1> QED BY <1>1, <1>2, <1>3, Unreplaced, QuietSteps

\* A Bind binds one seat.
LEMMA HandleBindSteps ==
    ASSUME RelayInv, NEW g, NEW s, NEW windowOver \in BOOLEAN,
           HandleBind(g, s, windowOver)
    PROVE  Steps
<1> DEFINE old == games[g].seat
           p == Counted(old[s], "bind", windowOver)
           q == [p EXCEPT !.bound = TRUE, !.pending = <<>>]
           new == [old EXCEPT ![s] = q]
           ack == [source |-> s, number |-> accepted + 1]
<1>1. /\ g \in DOMAIN games /\ s \in games[g].participants
      /\ Reseats(g, new, FALSE)
  BY HandleBindGames DEF RelayInv
<1>2. /\ IsGame(games[g]) /\ s \in DOMAIN old /\ s \in Slot
      /\ old \in [DOMAIN old -> Participant] /\ g \in GameId
  BY <1>1 DEF RelayInv, TypeOK, GamesInv, IsGame, IsRelayGame
<1>3. /\ old[s] \in Participant /\ old[s].pending \in Seq(Frame)
      /\ \A t \in DOMAIN old : Replaces(old[t], old[t])
  BY <1>2, Unreplaced
<1>4. /\ p \in Participant /\ p.user = old[s].user
      /\ p.bound = old[s].bound /\ p.pending = old[s].pending
  BY <1>3, CountedType
<1>5. /\ outbox' = [outbox EXCEPT ![<<g, s>>] = <<ack>> \o p.pending]
      /\ accepted' = accepted + 1 /\ accepted < MaxAccepted
      /\ \A r \in Seat : outbox[r] = <<>>
      /\ UNCHANGED <<open, expiring, drawn, owed, written>>
  BY DEF HandleBind, Answer, Listening
<1> HIDE DEF p
<1>6. /\ q \in Participant /\ q.user = old[s].user
      /\ q.bound = TRUE /\ q.pending = <<>>
  <2>1. <<>> \in Seq(Frame)
    OBVIOUS
  <2> QED BY <1>4, <2>1 DEF Participant
<1> HIDE DEF q
<1>7. /\ new \in [DOMAIN old -> Participant]
      /\ \A t \in DOMAIN old : Replaces(new[t], old[t])
      /\ new[s] = q /\ \A t \in DOMAIN old \ {s} : new[t] = old[t]
  <2>1. Replaces(q, old[s])
    BY <1>6, QueueAssumption DEF Replaces
  <2> QED BY <1>2, <1>3, <1>6, <2>1
<1> HIDE DEF new
<1>8. GamesInv'
  BY <1>1, <1>5, <1>7, ReseatsKeeps DEF RelayInv
<1>9. /\ outbox \in [Seat -> Seq(Frame)] /\ accepted \in 0 .. MaxAccepted
      /\ owed \in [Seat -> SUBSET Frame] /\ written \in [Seat -> Seq(Frame)]
      /\ open \in BOOLEAN /\ drawn \subseteq GameId /\ expiring \subseteq GameId
  BY DEF RelayInv, TypeOK
<1>10. accepted' \in 0 .. MaxAccepted /\ accepted <= accepted' /\ ack \in Frame
  BY <1>2, <1>5, <1>9, MaxAcceptedAssumption DEF Frame
<1>11. outbox' \in [Seat -> Seq(Frame)]
  <2>1. <<ack>> \o p.pending \in Seq(Frame)
    BY <1>3, <1>4, <1>10
  <2> QED BY <1>5, <1>9, <2>1
<1>12. TypeOK'
  BY <1>5, <1>8, <1>9, <1>10, <1>11 DEF TypeOK, GamesInv, IsGame
<1>13. ASSUME NEW r \in Seat PROVE SeatStep(r)
  <2>1. r[1] \in GameId /\ r[2] \in Slot /\ r = <<r[1], r[2]>>
    BY DEF Seat
  <2>2. CASE r[1] = g /\ r[2] = s
    <3>1. r = <<g, s>>
      BY <2>1, <2>2
    <3>2. Seated(r)
      BY <1>1, <2>2 DEF Seated
    <3>3. /\ Pending(r) = p.pending /\ Pending(r)' = <<>>
          /\ Bound(r)'
      BY <1>1, <1>4, <1>6, <1>7, <2>2, <3>2, ReseatsSeats DEF RelayInv
    <3>4. outbox'[r] = <<[source |-> r[2], number |-> accepted + 1]>> \o p.pending
      BY <1>5, <1>9, <2>2, <3>1
    <3>5. Binds(r)
      BY <1>5, <3>2, <3>3, <3>4 DEF Binds
    <3> QED BY <3>5 DEF SeatStep
  <2>3. CASE ~ (r[1] = g /\ r[2] = s)
    <3>1. outbox'[r] = outbox[r]
      <4>1. r # <<g, s>>
        BY <2>1, <2>3
      <4> QED BY <1>5, <1>9, <4>1
    <3>2. /\ Seated(r)' <=> Seated(r)
          /\ Pending(r)' = Pending(r)
          /\ Bound(r)' <=> Bound(r)
      <4>1. CASE r[1] = g /\ Seated(r)
        <5>1. r[2] \in DOMAIN old \ {s}
          BY <1>2, <2>3, <4>1 DEF IsGame, IsRelayGame, Seated
        <5>2. new[r[2]] = old[r[2]]
          BY <1>7, <5>1
        <5>3. /\ Seated(r)' <=> Seated(r)
              /\ Pending(r) = old[r[2]].pending
              /\ Pending(r)' = new[r[2]].pending
              /\ Bound(r) <=> old[r[2]].bound
              /\ Bound(r)' <=> new[r[2]].bound
          BY <1>1, <4>1, ReseatsSeats DEF RelayInv
        <5> QED BY <5>2, <5>3
      <4>2. CASE ~ (r[1] = g /\ Seated(r))
        BY <1>1, <4>2, ReseatsSeats DEF RelayInv
      <4> QED BY <4>1, <4>2
    <3>3. Rests(r)
      BY <1>5, <3>1, <3>2 DEF Rests, Stands
    <3> QED BY <3>3 DEF SeatStep
  <2> QED BY <2>2, <2>3
<1> QED BY <1>5, <1>8, <1>10, <1>12, <1>13 DEF Steps

\* A Data frame is sent to the bound recipients and waits for the others.
LEMMA HandleDataSteps ==
    ASSUME RelayInv, NEW g, NEW s, NEW target, NEW windowOver \in BOOLEAN,
           HandleData(g, s, target, windowOver)
    PROVE  Steps
<1> DEFINE old == games[g].seat
           new == Received(g, s, target, windowOver)
           frame == [source |-> s, number |-> accepted + 1]
           recipients == Recipients(g, s, target)
<1>1. /\ g \in DOMAIN games /\ s \in games[g].participants
      /\ Reseats(g, new, FALSE)
  BY HandleDataGames DEF RelayInv
<1>2. /\ IsGame(games[g]) /\ s \in DOMAIN old /\ s \in Slot
      /\ old \in [DOMAIN old -> Participant] /\ g \in GameId
      /\ games[g].participants \subseteq DOMAIN old
  BY <1>1 DEF RelayInv, TypeOK, GamesInv, IsGame, IsRelayGame
<1>3. /\ outbox' = [r \in Seat |->
             IF r[1] = g /\ r[2] \in recipients
                  /\ [old EXCEPT ![s] = [Counted(old[s], "data", windowOver)
                                            EXCEPT !.bound = TRUE]][r[2]].bound
             THEN <<frame>> ELSE <<>>]
      /\ owed' = [r \in Seat |->
             IF r[1] = g /\ r[2] \in recipients
             THEN owed[r] \union {frame} ELSE owed[r]]
      /\ accepted' = accepted + 1 /\ accepted < MaxAccepted
      /\ DataFirst \/ old[s].bound
      /\ \A r \in Seat : outbox[r] = <<>>
      /\ UNCHANGED <<open, expiring, drawn, written>>
  BY DEF HandleData, Listening
<1>4. /\ recipients \subseteq games[g].participants
      /\ recipients \subseteq DOMAIN old \ {s}
  BY <1>2 DEF Recipients
<1>5. outbox' = [r \in Seat |->
             IF r[1] = g /\ r[2] \in recipients /\ old[r[2]].bound
             THEN <<frame>> ELSE <<>>]
  <2>1. \A t \in recipients :
           [old EXCEPT ![s] = [Counted(old[s], "data", windowOver)
                                            EXCEPT !.bound = TRUE]][t] = old[t]
    BY <1>2, <1>4
  <2> HIDE DEF old, recipients
  <2> QED BY <1>3, <2>1
<1>6. /\ outbox \in [Seat -> Seq(Frame)] /\ accepted \in 0 .. MaxAccepted
      /\ owed \in [Seat -> SUBSET Frame] /\ written \in [Seat -> Seq(Frame)]
      /\ open \in BOOLEAN /\ drawn \subseteq GameId /\ expiring \subseteq GameId
  BY DEF RelayInv, TypeOK
<1>7. /\ accepted' \in 0 .. MaxAccepted /\ accepted <= accepted'
      /\ frame \in Frame /\ frame.number = accepted + 1 /\ frame.source = s
  BY <1>2, <1>3, <1>6, MaxAcceptedAssumption DEF Frame
<1>8. /\ new \in [DOMAIN old -> Participant]
      /\ \A t \in DOMAIN old : Replaces(new[t], old[t])
      /\ new[s].bound /\ new[s].pending = old[s].pending
      /\ \A t \in DOMAIN old \ {s} :
            IF t \in recipients /\ ~ old[t].bound
            THEN /\ ~ new[t].bound
                 /\ new[t].pending = Queued(old[t].pending, frame)
            ELSE new[t] = old[t]
  BY <1>1, <1>2, <1>3, <1>7, ReceivedSeats
<1> HIDE DEF new, recipients, frame
<1>9. GamesInv'
  BY <1>1, <1>3, <1>8, ReseatsKeeps DEF RelayInv
<1>10. TypeOK'
  <2>1. outbox' \in [Seat -> Seq(Frame)]
    BY <1>5, <1>7
  <2>2. owed' \in [Seat -> SUBSET Frame]
    BY <1>3, <1>6, <1>7
  <2> QED BY <1>3, <1>6, <1>7, <1>9, <2>1, <2>2 DEF TypeOK, GamesInv, IsGame
<1>11. ASSUME NEW r \in Seat PROVE SeatStep(r)
  <2>1. outbox[r] = <<>> /\ written'[r] = written[r]
    BY <1>3
  <2>2. r[1] = g /\ Seated(r) =>
           /\ r[2] \in games[g].participants /\ r[2] \in DOMAIN old
           /\ Pending(r) = old[r[2]].pending
           /\ Pending(r)' = new[r[2]].pending
           /\ Bound(r) <=> old[r[2]].bound
           /\ Bound(r)' <=> new[r[2]].bound
    BY <1>1, <1>2, ReseatsSeats DEF RelayInv
  <2>3. /\ Seated(r)' <=> Seated(r)
        /\ r[1] # g \/ ~ Seated(r) =>
              Pending(r)' = Pending(r) /\ (Bound(r)' <=> Bound(r))
    BY <1>1, ReseatsSeats DEF RelayInv
  <2>4. CASE r[1] = g /\ r[2] \in recipients
    <3>1. Seated(r) /\ r[2] \in DOMAIN old \ {s} /\ frame.source # r[2]
      BY <1>1, <1>4, <1>7, <2>4 DEF Seated
    <3>2. owed'[r] = owed[r] \union {frame}
      BY <1>3, <2>4
    <3>3. CASE old[r[2]].bound
      <4>1. outbox'[r] = <<frame>> /\ new[r[2]] = old[r[2]]
        BY <1>5, <1>8, <2>4, <3>1, <3>3
      <4>2. Receives(r)
        BY <1>3, <1>7, <2>1, <2>2, <2>4, <3>1, <3>2, <3>3, <4>1 DEF Receives
      <4> QED BY <4>2 DEF SeatStep
    <3>4. CASE ~ old[r[2]].bound
      <4>1. /\ outbox'[r] = <<>> /\ ~ new[r[2]].bound
            /\ new[r[2]].pending = Queued(old[r[2]].pending, frame)
        BY <1>5, <1>8, <2>4, <3>1, <3>4
      <4>2. Waits(r)
        BY <1>3, <1>7, <2>1, <2>2, <2>3, <2>4, <3>1, <3>2, <3>4, <4>1 DEF Waits
      <4> QED BY <4>2 DEF SeatStep
    <3> QED BY <3>3, <3>4
  <2>5. CASE ~ (r[1] = g /\ r[2] \in recipients)
    <3>1. outbox'[r] = <<>> /\ owed'[r] = owed[r]
      BY <1>3, <1>5, <2>5
    <3>2. /\ Pending(r)' = Pending(r) /\ (Bound(r) => Bound(r)')
          /\ ~ DataFirst /\ Bound(r)' => Bound(r)
      <4>1. CASE r[1] = g /\ Seated(r)
        <5>1. CASE r[2] = s
          BY <1>3, <1>8, <2>2, <4>1, <5>1
        <5>2. CASE r[2] # s
          <6>1. new[r[2]] = old[r[2]]
            BY <1>8, <2>2, <2>5, <4>1, <5>2
          <6> QED BY <2>2, <4>1, <6>1
        <5> QED BY <5>1, <5>2
      <4>2. CASE ~ (r[1] = g /\ Seated(r))
        BY <2>3, <4>2
      <4> QED BY <4>1, <4>2
    <3>3. Rests(r)
      BY <2>1, <2>3, <3>1, <3>2 DEF Rests, Stands
    <3> QED BY <3>3 DEF SeatStep
  <2> QED BY <2>4, <2>5
<1> QED BY <1>3, <1>7, <1>9, <1>10, <1>11 DEF Steps

\* Games are dropped, and no other is touched.
LEMMA DropSteps ==
    ASSUME RelayInv, UNCHANGED <<drawn, outbox, historyVars>>,
           open' \in BOOLEAN, expiring' \subseteq drawn,
           ~ open' => DOMAIN games' = {},
           DOMAIN games' \subseteq DOMAIN games,
           \A h \in DOMAIN games' : games'[h] = games[h]
    PROVE  Steps
<1>1. GamesInv' /\ TypeOK'
  BY DEF RelayInv, TypeOK, GamesInv, IsGame, historyVars
<1>2. ASSUME NEW r \in Seat PROVE Rests(r) \/ Leaves(r)
  <2>1. Stands(r)
    BY DEF Stands, historyVars
  <2>2. CASE Seated(r)'
    <3>1. games'[r[1]] = games[r[1]] /\ Seated(r)
      BY <2>2 DEF Seated
    <3> QED BY <2>1, <2>2, <3>1 DEF Rests, Pending, Bound
  <2> QED BY <2>1, <2>2 DEF Leaves
<1>3. accepted <= accepted' /\ drawn \subseteq drawn'
  BY DEF RelayInv, TypeOK, historyVars
<1> QED BY <1>1, <1>2, <1>3 DEF Steps, SeatStep

\* Allocation fills the seats of a game never drawn before.
LEMMA AllocateSteps ==
    ASSUME RelayInv, NEW g \in GameId, NEW members \in Seating,
           Allocate(g, members)
    PROVE  Steps
<1> DEFINE slots == {members[u] : u \in DOMAIN members}
           seat == [s \in slots |->
               [user |-> CHOOSE u \in DOMAIN members : members[u] = s,
                bound |-> FALSE, packets |-> 0, bytes |-> 0, pending |-> <<>>]]
           game == [seat |-> seat, participants |-> slots, byToken |-> slots,
                    idle |-> FALSE]
<1>1. /\ g \notin drawn /\ open
      /\ games' = Put(games, g, game)
      /\ drawn' = drawn \union {g}
      /\ UNCHANGED <<open, expiring, outbox, historyVars>>
      /\ \A u, v \in DOMAIN members : members[u] = members[v] => u = v
  BY DEF Allocate, Allocatable
<1>2. IsGame(game) /\ \A s \in slots : seat[s].bound = FALSE /\ seat[s].pending = <<>>
  BY <1>1, AllocatedIsGame
<1>3. /\ game.seat = seat /\ game.participants = slots
  OBVIOUS
<1> HIDE DEF game, seat
<1>4. /\ DOMAIN games' = DOMAIN games \union {g} /\ games'[g] = game
      /\ \A h \in DOMAIN games \ {g} : games'[h] = games[h]
  BY <1>1 DEF Put
<1>5. GamesInv'
  BY <1>1, <1>2, <1>4 DEF RelayInv, GamesInv
<1>6. TypeOK'
  <2>1. drawn' \subseteq GameId
    BY <1>1 DEF RelayInv, TypeOK
  <2> QED BY <1>1, <1>5, <2>1 DEF RelayInv, TypeOK, GamesInv, IsGame, historyVars
<1>7. ASSUME NEW r \in Seat PROVE SeatStep(r)
  <2>1. Stands(r)
    BY <1>1 DEF Stands, historyVars
  <2>2. CASE r[1] = g
    <3>1. r[1] \notin drawn
      BY <1>1, <2>2
    <3>2. Seated(r)' => /\ Pending(r)' = <<>> /\ ~ Bound(r)'
      BY <1>2, <1>3, <1>4, <2>2 DEF Seated, Pending, Bound
    <3>3. Joins(r) \/ Leaves(r)
      BY <2>1, <3>1, <3>2 DEF Joins, Leaves
    <3> QED BY <3>3 DEF SeatStep
  <2>3. CASE r[1] # g
    <3>1. /\ Seated(r)' <=> Seated(r)
          /\ Pending(r)' = Pending(r)
          /\ Bound(r)' <=> Bound(r)
      BY <1>4, <2>3 DEF Seated, Pending, Bound
    <3>2. Rests(r)
      BY <2>1, <3>1 DEF Rests
    <3> QED BY <3>2 DEF SeatStep
  <2> QED BY <2>2, <2>3
<1>8. accepted <= accepted' /\ drawn \subseteq drawn'
  BY <1>1 DEF RelayInv, TypeOK, historyVars
<1> QED BY <1>5, <1>6, <1>7, <1>8 DEF Steps

\* A removal empties one seat.
LEMMA RemoveParticipantSteps ==
    ASSUME RelayInv, NEW g, NEW u, NEW s, RemoveParticipant(g, u, s)
    PROVE  Steps
<1> DEFINE game == games[g]
           left == Unseated(game, s)
           q == [game.seat[s] EXCEPT !.bound = FALSE, !.pending = <<>>]
<1>1. /\ g \in DOMAIN games /\ s \in game.participants
      /\ games' = [games EXCEPT ![g] = left]
      /\ UNCHANGED <<open, expiring, drawn, outbox, historyVars>>
  BY DEF RemoveParticipant
<1>2. IsGame(game)
  BY <1>1 DEF RelayInv, GamesInv
<1>3. IsGame(left)
  BY <1>1, <1>2, UnseatedIsGame
<1>4. left = [seat |-> [game.seat EXCEPT ![s] = q],
              participants |-> game.participants \ {s},
              byToken |-> game.participants \ {s}, idle |-> FALSE]
  BY <1>1, <1>2, UnseatedFields
<1>5. /\ left.participants = game.participants \ {s}
      /\ \A t \in game.participants \ {s} : left.seat[t] = game.seat[t]
  <2>1. game.participants \subseteq DOMAIN game.seat
    BY <1>2 DEF IsGame, IsRelayGame
  <2> HIDE DEF left, q
  <2> QED BY <1>4, <2>1
<1> HIDE DEF left
<1>6. /\ DOMAIN games' = DOMAIN games /\ games'[g] = left
      /\ \A h \in DOMAIN games \ {g} : games'[h] = games[h]
  BY <1>1
<1>7. GamesInv'
  BY <1>1, <1>3, <1>6 DEF RelayInv, GamesInv
<1>8. TypeOK'
  BY <1>1, <1>7 DEF RelayInv, TypeOK, GamesInv, IsGame, historyVars
<1>9. ASSUME NEW r \in Seat PROVE Rests(r) \/ Leaves(r)
  <2>1. Stands(r)
    BY <1>1 DEF Stands, historyVars
  <2>2. CASE ~ Seated(r)'
    BY <2>1, <2>2 DEF Leaves
  <2>3. CASE Seated(r)'
    <3>1. /\ Seated(r) /\ Pending(r)' = Pending(r)
          /\ Bound(r)' <=> Bound(r)
      <4>1. CASE r[1] = g
        BY <1>5, <1>6, <2>3, <4>1 DEF Seated, Pending, Bound
      <4>2. CASE r[1] # g
        BY <1>6, <2>3, <4>2 DEF Seated, Pending, Bound
      <4> QED BY <4>1, <4>2
    <3> QED BY <2>1, <2>3, <3>1 DEF Rests
  <2> QED BY <2>2, <2>3
<1>10. accepted <= accepted' /\ drawn \subseteq drawn'
  BY <1>1 DEF RelayInv, TypeOK, historyVars
<1> QED BY <1>7, <1>8, <1>9, <1>10 DEF Steps, SeatStep

\* A write sends one frame, or fails for good once the relay is closed.
LEMMA WriteToSteps ==
    ASSUME RelayInv, NEW r \in Seat, WriteTo(r)
    PROVE  Steps
<1>1. /\ UNCHANGED <<open, games, expiring, drawn, accepted, owed>>
      /\ outbox[r] # <<>>
  BY DEF WriteTo
<1>2. /\ GamesInv /\ TypeOK
      /\ outbox \in [Seat -> Seq(Frame)] /\ written \in [Seat -> Seq(Frame)]
  BY DEF RelayInv, TypeOK
<1>3. GamesInv'
  BY <1>1, <1>2 DEF GamesInv
<1>4. accepted <= accepted' /\ drawn \subseteq drawn'
  BY <1>1, <1>2 DEF TypeOK
<1>5. CASE /\ outbox' = [outbox EXCEPT ![r] = Tail(@)]
           /\ written' = [written EXCEPT ![r] = Append(@, Head(outbox[r]))]
  <2>1. /\ Head(outbox[r]) \in Frame /\ Tail(outbox[r]) \in Seq(Frame)
        /\ Append(written[r], Head(outbox[r])) \in Seq(Frame)
    BY <1>1, <1>2, TailSet, AppendSet
  <2>2. outbox' \in [Seat -> Seq(Frame)] /\ written' \in [Seat -> Seq(Frame)]
    BY <1>2, <1>5, <2>1
  <2>3. TypeOK'
    BY <1>1, <1>2, <1>3, <2>2 DEF TypeOK, GamesInv, IsGame
  <2>4. ASSUME NEW q \in Seat PROVE Rests(q) \/ Writes(q)
    <3>1. /\ Seated(q)' <=> Seated(q)
          /\ Pending(q)' = Pending(q)
          /\ Bound(q)' <=> Bound(q)
      BY <1>1, SameSeats
    <3>2. CASE q = r
      BY <1>1, <1>2, <1>5, <3>1, <3>2 DEF Writes
    <3>3. CASE q # r
      BY <1>1, <1>2, <1>5, <3>1, <3>3 DEF Rests, Stands
    <3> QED BY <3>2, <3>3
  <2> QED BY <1>3, <1>4, <2>3, <2>4 DEF Steps, SeatStep
<1>6. CASE ~ open /\ outbox' = [q \in Seat |-> <<>>] /\ UNCHANGED written
  <2>1. TypeOK'
    <3>1. outbox' \in [Seat -> Seq(Frame)]
      BY <1>6
    <3> QED BY <1>1, <1>2, <1>3, <1>6, <3>1 DEF TypeOK, GamesInv, IsGame
  <2>2. ASSUME NEW q \in Seat PROVE Fails(q)
    <3>1. ~ Seated(q) /\ ~ Seated(q)'
      BY <1>1, <1>2, <1>6 DEF GamesInv, Seated
    <3> QED BY <1>1, <1>6, <3>1 DEF Fails
  <2> QED BY <1>3, <1>4, <2>1, <2>2 DEF Steps, SeatStep
<1> QED BY <1>5, <1>6 DEF WriteTo

\* Every step of the relay is such a step for every seat.
LEMMA NextSteps == RelayInv /\ [Next]_vars => Steps
<1> SUFFICES ASSUME RelayInv, [Next]_vars
             PROVE  Steps
  OBVIOUS
<1>0. /\ GamesInv /\ open \in BOOLEAN /\ expiring \subseteq drawn
  BY DEF RelayInv, TypeOK, GamesInv
<1>1. CASE HandleDatagram
  <2>1. PICK g \in GameId, s \in Slot, windowOver \in BOOLEAN :
           \/ \E kind \in {"bind", "data"} : RateLimited(g, s, kind, windowOver)
           \/ HandleBind(g, s, windowOver)
           \/ \E target \in Slot \union {Broadcast} :
                 HandleData(g, s, target, windowOver)
    BY <1>1 DEF HandleDatagram
  <2> QED BY <2>1, RateLimitedSteps, HandleBindSteps, HandleDataSteps
<1>2. CASE \E r \in Seat : WriteTo(r)
  BY <1>2, WriteToSteps
<1>3. CASE Hub
  <2>1. PICK g \in GameId :
           \/ \E members \in Seating : Allocate(g, members)
           \/ \E u \in User, s \in Slot : RemoveParticipant(g, u, s)
           \/ EndGame(g)
    BY <1>3 DEF Hub
  <2>2. CASE EndGame(g)
    BY <1>0, <2>2, DropSteps DEF EndGame, Without, RelayInv, GamesInv
  <2> QED BY <2>1, <2>2, AllocateSteps, RemoveParticipantSteps
<1>4. CASE Close
  BY <1>0, <1>4, DropSteps DEF Close, EmptyMap
<1>5. CASE ExpireIdleGames
  <2>1. Expired \subseteq DOMAIN games
    BY DEF Expired
  <2> QED BY <1>0, <1>5, <2>1, DropSteps DEF ExpireIdleGames, Without, GamesInv
<1>6. CASE \E g \in GameId : IdleTimePasses(g) \/ GameExpired(g)
  <2>1. PICK g \in GameId : IdleTimePasses(g) \/ GameExpired(g)
    BY <1>6
  <2>2. CASE GameExpired(g)
    BY <1>0, <2>2, DropSteps DEF GameExpired, GamesInv
  <2> QED BY <2>1, <2>2, IdleTimePassesSteps
<1>7. CASE UNCHANGED vars
  BY <1>0, <1>7, DropSteps DEF vars, historyVars, GamesInv
<1> QED BY <1>1, <1>2, <1>3, <1>4, <1>5, <1>6, <1>7 DEF Next

\* The invariant holds at the start,
LEMMA InitRelay == Init => RelayInv
<1> SUFFICES ASSUME Init PROVE RelayInv
  OBVIOUS
<1>1. DOMAIN games = {}
  BY DEF Init, EmptyMap
<1>2. GamesInv
  BY <1>1 DEF Init, GamesInv
<1>3. TypeOK
  <2>1. <<>> \in Seq(Frame) /\ 0 \in 0 .. MaxAccepted
    BY MaxAcceptedAssumption
  <2> QED BY <1>1, <2>1 DEF Init, TypeOK
<1>4. ASSUME NEW r \in Seat PROVE SeatInv(r)
  <2>1. /\ ~ Seated(r) /\ ~ Bound(r) /\ Pending(r) = <<>>
        /\ written[r] = <<>> /\ outbox[r] = <<>> /\ owed[r] = {}
    BY <1>1 DEF Init, Seated, Bound, Pending
  <2>2. Sound(<<>>, <<>>, <<>>, {}, accepted, r[2])
    BY EmptySet DEF Sound
  <2>3. Ordered(<<>>, <<>>, r[2])
    BY EmptySet DEF Ordered
  <2> QED BY <2>1, <2>2, <2>3 DEF SeatInv
<1> QED BY <1>2, <1>3, <1>4 DEF RelayInv

\* every step keeps it,
LEMMA NextRelay == RelayInv /\ [Next]_vars => RelayInv'
<1> SUFFICES ASSUME RelayInv, [Next]_vars
             PROVE  RelayInv'
  OBVIOUS
<1>1. Steps
  BY NextSteps
<1>2. \A r \in Seat : SeatInv(r)'
  BY <1>1, SeatKeeps
<1> QED BY <1>1, <1>2 DEF Steps, RelayInv

\* so it always holds.
LEMMA RelayInvHolds == Spec => []RelayInv
BY InitRelay, NextRelay, PTL DEF Spec

-----------------------------------------------------------------------------
(* What it is for.                                                         *)

\* Every variable of the relay holds a value of its Go type, and no queue
\* in front of a participant is longer than it may be.
THEOREM TypeCorrect == Spec => []TypeOK
<1>1. RelayInv => TypeOK
  BY DEF RelayInv
<1> QED BY <1>1, RelayInvHolds, PTL

\* The stream of a seat, and what it was owed of it.
LEMMA StreamOfSeat ==
    ASSUME NEW w, NEW o, NEW p, NEW ow, NEW n, NEW s, Sound(w, o, p, ow, n, s)
    PROVE  /\ ToSet(w \o o \o p) = ToSet(w) \union ToSet(o) \union ToSet(p)
           /\ IsInjective(w \o o \o p)
<1>1. /\ w \in Seq(Frame) /\ o \in Seq(Frame) /\ p \in Seq(Frame)
      /\ IsInjective(w) /\ IsInjective(o) /\ IsInjective(p)
      /\ ToSet(w) \intersect ToSet(o) = {}
      /\ (ToSet(w) \union ToSet(o)) \intersect ToSet(p) = {}
  BY RisingIsInjective DEF Sound
<1> DEFINE wo == w \o o
<1>2. /\ wo \in Seq(Frame) /\ ToSet(wo) = ToSet(w) \union ToSet(o)
      /\ IsInjective(wo)
  BY <1>1, ConcatSet
<1> HIDE DEF wo
<1>3. ToSet(wo \o p) = ToSet(wo) \union ToSet(p) /\ IsInjective(wo \o p)
  BY <1>1, <1>2, ConcatSet
<1> QED BY <1>2, <1>3 DEF wo

\* Whatever is bound, removed, ended or closed between the decision to send
\* a frame and the write: every frame the relay accepts is written once to
\* each participant it was for, waits, or fell out of a full queue as its
\* oldest frame.
THEOREM FramesAccounted == Spec => []FramesAreAccounted
<1>1. RelayInv => FramesAreAccounted
  <2> SUFFICES ASSUME RelayInv, NEW r \in Seat
               PROVE  /\ IsInjective(Stream(r))
                      /\ \A frame \in ToSet(Stream(r)) :
                            frame.source # r[2] => frame \in owed[r]
                      /\ \A frame \in owed[r] : frame.source # r[2]
                      /\ open /\ Seated(r) =>
                            LET kept == ToSet(Stream(r)) \intersect owed[r]
                                lost == owed[r] \ kept
                            IN  lost # {} =>
                                   /\ Cardinality(kept) >= RelayInitialQueuePackets
                                   /\ \A x \in lost, y \in kept : x.number < y.number
    BY DEF FramesAreAccounted, DeliveredOnce, OnlyOverflowLoses
  <2>1. /\ Sound(written[r], outbox[r], Pending(r), owed[r], accepted, r[2])
        /\ Seated(r) => Accounted(written[r], outbox[r], Pending(r), owed[r])
    BY DEF RelayInv, SeatInv
  <2>2. /\ ToSet(Stream(r)) =
              ToSet(written[r]) \union ToSet(outbox[r]) \union ToSet(Pending(r))
        /\ IsInjective(Stream(r))
    BY <2>1, StreamOfSeat DEF Stream
  <2>3. /\ \A frame \in ToSet(Stream(r)) :
              frame.source # r[2] => frame \in owed[r]
        /\ \A frame \in owed[r] : frame.source # r[2]
    BY <2>1, <2>2 DEF Sound
  <2> QED BY <2>1, <2>2, <2>3 DEF Accounted, LostAreOld
<1> QED BY <1>1, RelayInvHolds, PTL

\* As long as clients wait for BindAck before they send, a participant gets
\* his BindAck before any payload, and the payloads of each source in the
\* order in which the relay accepted them.
THEOREM FramesInOrder == ~ DataFirst => (Spec => []FramesComeInOrder)
<1>1. ASSUME ~ DataFirst PROVE RelayInv => FramesComeInOrder
  <2> SUFFICES ASSUME RelayInv, NEW r \in Seat
               PROVE  /\ written[r] # <<>> => Head(written[r]).source = r[2]
                      /\ InSourceOrder(written[r])
    BY DEF FramesComeInOrder, AckComesFirst, InOrder, InSourceOrder
  <2>1. Ordered(written[r], outbox[r], r[2])
    BY <1>1 DEF RelayInv, SeatInv
  <2> QED BY <2>1 DEF Ordered
<1>2. ASSUME ~ DataFirst PROVE Spec => []FramesComeInOrder
  <2>1. RelayInv => FramesComeInOrder
    BY <1>1, <1>2
  <2> QED BY <2>1, RelayInvHolds, PTL
<1> QED BY <1>2

\* A datagram of a participant who was removed leads to nothing, and nothing
\* is decided on for him.
LEMMA SilentStep ==
    ASSUME RelayInv, Next, NEW r \in Seat, outbox[r] = <<>>, outbox'[r] # <<>>
    PROVE  /\ Seated(r)
           /\ \A frame \in ToSet(outbox'[r]) :
                 frame.number = accepted' => Seated(<<r[1], frame.source>>)
<1>1. CASE HandleDatagram
  <2>1. PICK g \in GameId, s \in Slot, windowOver \in BOOLEAN :
           \/ \E kind \in {"bind", "data"} : RateLimited(g, s, kind, windowOver)
           \/ HandleBind(g, s, windowOver)
           \/ \E target \in Slot \union {Broadcast} :
                 HandleData(g, s, target, windowOver)
    BY <1>1 DEF HandleDatagram
  <2>2. CASE \E kind \in {"bind", "data"} : RateLimited(g, s, kind, windowOver)
    BY <2>2 DEF RateLimited
  <2>3. CASE HandleBind(g, s, windowOver)
    <3> DEFINE p == Counted(games[g].seat[s], "bind", windowOver)
               ack == [source |-> s, number |-> accepted + 1]
    <3>1. g \in DOMAIN games /\ s \in games[g].participants
      BY <2>3, HandleBindGames DEF RelayInv
    <3>2. games[g].seat[s] \in Participant
      BY <3>1 DEF RelayInv, GamesInv, IsGame, IsRelayGame
    <3>3. p.pending = games[g].seat[s].pending
      BY <3>2, CountedType
    <3>4. /\ outbox' = [outbox EXCEPT ![<<g, s>>] = <<ack>> \o p.pending]
          /\ accepted' = accepted + 1
      BY <2>3 DEF HandleBind, Answer
    <3> HIDE DEF p, ack
    <3>5. /\ outbox \in [Seat -> Seq(Frame)] /\ SeatInv(r)
          /\ r = <<r[1], r[2]>> /\ accepted \in Nat
      BY DEF RelayInv, TypeOK, Seat
    <3>6. r = <<g, s>>
      <4>1. outbox'[r] # outbox[r]
        OBVIOUS
      <4> QED BY <3>4, <3>5, <4>1
    <3>7. Seated(r) /\ Pending(r) = p.pending /\ outbox'[r] = <<ack>> \o p.pending
      BY <3>1, <3>3, <3>4, <3>5, <3>6 DEF Seated, Pending
    <3>8. /\ p.pending \in Seq(Frame)
          /\ \A frame \in ToSet(p.pending) : frame.number <= accepted
      BY <3>5, <3>7 DEF SeatInv, Sound
    <3>9. \A frame \in ToSet(p.pending) : frame.number # accepted'
      <4>1. \A frame \in ToSet(p.pending) : frame \in Frame
        BY <3>8, SeqValues
      <4> QED BY <3>4, <3>5, <3>8, <4>1, FrameNumbers
    <3>10. ASSUME NEW frame \in ToSet(outbox'[r])
           PROVE  frame = ack \/ frame \in ToSet(p.pending)
      <4> DEFINE first == <<ack>>
                 S == Frame \union {ack}
      <4>1. first \in Seq(S) /\ p.pending \in Seq(S) /\ ToSet(first) = {ack}
        BY <3>8, SingleSet
      <4>2. outbox'[r] = first \o p.pending
        BY <3>7
      <4> HIDE DEF first, S
      <4>3. ToSet(first \o p.pending) = ToSet(first) \union ToSet(p.pending)
        BY <4>1, ConcatSet
      <4> QED BY <3>10, <4>1, <4>2, <4>3
    <3>11. Seated(<<r[1], ack.source>>)
      BY <3>5, <3>6, <3>7 DEF ack
    <3> QED BY <3>7, <3>9, <3>10, <3>11
  <2>4. ASSUME NEW target \in Slot \union {Broadcast},
               HandleData(g, s, target, windowOver)
        PROVE  /\ Seated(r)
               /\ \A frame \in ToSet(outbox'[r]) : Seated(<<r[1], frame.source>>)
    <3> DEFINE frame == [source |-> s, number |-> accepted + 1]
    <3>1. g \in DOMAIN games /\ s \in games[g].participants
      BY <2>4, HandleDataGames DEF RelayInv
    <3>2. /\ r[1] = g /\ r[2] \in Recipients(g, s, target)
          /\ outbox'[r] = <<frame>>
      BY <2>4 DEF HandleData
    <3>3. r[2] \in games[g].participants
      BY <3>2 DEF Recipients
    <3>4. ToSet(outbox'[r]) = {frame} /\ frame.source = s
      BY <3>2, SingleSet
    <3> QED BY <3>1, <3>2, <3>3, <3>4 DEF Seated
  <2> QED BY <2>1, <2>2, <2>3, <2>4
<1>2. CASE \E q \in Seat : WriteTo(q)
  <2>1. outbox \in [Seat -> Seq(Frame)]
    BY DEF RelayInv, TypeOK
  <2>2. outbox'[r] = <<>>
    BY <1>2, <2>1 DEF WriteTo
  <2> QED BY <2>2
<1>3. CASE Hub
  BY <1>3 DEF Hub, Allocate, RemoveParticipant, EndGame
<1>4. CASE Close
  BY <1>4 DEF Close
<1>5. CASE ExpireIdleGames
  BY <1>5 DEF ExpireIdleGames
<1>6. CASE \E g \in GameId : IdleTimePasses(g) \/ GameExpired(g)
  BY <1>6 DEF IdleTimePasses, GameExpired
<1> QED BY <1>1, <1>2, <1>3, <1>4, <1>5, <1>6 DEF Next

\* A participant who was removed has no say any more: what a datagram leads
\* to comes from and goes to those who are still seated.
THEOREM RemovedSilent == Spec => RemovedAreSilent
<1>1. RelayInv /\ [Next]_vars =>
         [\A r \in Seat :
             outbox[r] = <<>> /\ outbox'[r] # <<>> =>
                /\ Seated(r)
                /\ \A frame \in ToSet(outbox'[r]) :
                      frame.number = accepted' =>
                         Seated(<<r[1], frame.source>>)]_vars
  BY SilentStep
<1> QED BY <1>1, RelayInvHolds, PTL DEF Spec, RemovedAreSilent

-----------------------------------------------------------------------------
(* The relay implements the seats the hub relies on.                       *)

SeatsOf(game) ==
    LET users == {game.seat[s].user : s \in game.participants}
    IN  [u \in users |->
            CHOOSE s \in game.participants : game.seat[s].user = u]

\* A game's seats are the function that gives every user his slot.
LEMMA SeatsOfGame ==
    ASSUME NEW game, IsGame(game)
    PROVE  /\ DOMAIN SeatsOf(game) = {game.seat[s].user : s \in game.participants}
           /\ \A s \in game.participants : SeatsOf(game)[game.seat[s].user] = s
           /\ SeatsOf(game) = [u \in DOMAIN SeatsOf(game) |-> SeatsOf(game)[u]]
<1> DEFINE users == {game.seat[s].user : s \in game.participants}
           slot(u) == CHOOSE s \in game.participants : game.seat[s].user = u
<1>1. SeatsOf(game) = [u \in users |-> slot(u)]
  BY DEF SeatsOf
<1>2. ASSUME NEW s \in game.participants PROVE slot(game.seat[s].user) = s
  BY DEF IsGame
<1> HIDE DEF slot
<1> QED BY <1>1, <1>2

\* There is only one such function.
LEMMA SeatsOfUnique ==
    ASSUME NEW game, IsGame(game), NEW f, f = [u \in DOMAIN f |-> f[u]],
           DOMAIN f = {game.seat[s].user : s \in game.participants},
           \A s \in game.participants : f[game.seat[s].user] = s
    PROVE  SeatsOf(game) = f
<1> DEFINE h == SeatsOf(game)
<1>1. /\ DOMAIN h = {game.seat[s].user : s \in game.participants}
      /\ \A s \in game.participants : h[game.seat[s].user] = s
      /\ h = [u \in DOMAIN h |-> h[u]]
  BY SeatsOfGame
<1> HIDE DEF h
<1>2. DOMAIN h = DOMAIN f
  BY <1>1
<1>3. ASSUME NEW u \in DOMAIN f PROVE h[u] = f[u]
  <2>1. PICK s \in game.participants : u = game.seat[s].user
    OBVIOUS
  <2> QED BY <1>1, <2>1
<1>4. h = f
  BY <1>1, <1>2, <1>3
<1> QED BY <1>4 DEF h

\* Other records for the same users are the same seats.
LEMMA ReseatSeatsOf ==
    ASSUME NEW game, IsGame(game), NEW seat, NEW idle \in BOOLEAN,
           seat \in [DOMAIN game.seat -> Participant],
           \A s \in DOMAIN game.seat : Replaces(seat[s], game.seat[s])
    PROVE  SeatsOf(Reseat(game, seat, idle)) = SeatsOf(game)
<1> DEFINE new == Reseat(game, seat, idle)
<1>1. IsGame(new) /\ new.seat = seat /\ new.participants = game.participants
  BY ReseatIsGame, ReseatFields
<1> HIDE DEF new
<1>2. \A s \in game.participants : new.seat[s].user = game.seat[s].user
  BY <1>1 DEF Replaces, IsGame, IsRelayGame
<1>3. {new.seat[s].user : s \in new.participants} =
         {game.seat[s].user : s \in game.participants}
  BY <1>1, <1>2
<1>4. \A s \in new.participants : SeatsOf(game)[new.seat[s].user] = s
  BY <1>1, <1>2, SeatsOfGame
<1>5. SeatsOf(new) = SeatsOf(game)
  BY <1>1, <1>3, <1>4, SeatsOfGame, SeatsOfUnique
<1> QED BY <1>5 DEF new

\* A removal takes one user out of them.
LEMMA UnseatedSeatsOf ==
    ASSUME NEW game, IsGame(game), NEW s \in game.participants
    PROVE  SeatsOf(Unseated(game, s)) =
              Without(SeatsOf(game), {game.seat[s].user})
<1> DEFINE left == Unseated(game, s)
           q == [game.seat[s] EXCEPT !.bound = FALSE, !.pending = <<>>]
           f == Without(SeatsOf(game), {game.seat[s].user})
<1>1. IsGame(left)
  BY UnseatedIsGame
<1>2. left = [seat |-> [game.seat EXCEPT ![s] = q],
              participants |-> game.participants \ {s},
              byToken |-> game.participants \ {s}, idle |-> FALSE]
  BY UnseatedFields
<1>3. /\ left.participants = game.participants \ {s}
      /\ \A t \in game.participants \ {s} : left.seat[t] = game.seat[t]
  <2>1. game.participants \subseteq DOMAIN game.seat
    BY DEF IsGame, IsRelayGame
  <2> HIDE DEF left, q
  <2> QED BY <1>2, <2>1
<1> HIDE DEF left
<1>4. \A t \in game.participants \ {s} : game.seat[t].user # game.seat[s].user
  BY DEF IsGame
<1>5. DOMAIN f = DOMAIN SeatsOf(game) \ {game.seat[s].user}
  BY DEF Without
<1>6. DOMAIN f = {left.seat[t].user : t \in left.participants}
  <2>1. DOMAIN SeatsOf(game) = {game.seat[t].user : t \in game.participants}
    BY SeatsOfGame
  <2>2. ASSUME NEW u \in DOMAIN f
        PROVE  \E t \in left.participants : u = left.seat[t].user
    <3>1. PICK t \in game.participants : u = game.seat[t].user
      BY <1>5, <2>1
    <3>2. t # s
      BY <1>5, <3>1
    <3> QED BY <1>3, <3>1, <3>2
  <2>3. ASSUME NEW t \in left.participants PROVE left.seat[t].user \in DOMAIN f
    BY <1>3, <1>4, <1>5, <2>1
  <2> HIDE DEF f
  <2> QED BY <2>2, <2>3
<1>7. \A t \in left.participants : f[left.seat[t].user] = t
  <2> TAKE t \in left.participants
  <2>1. /\ t \in game.participants /\ left.seat[t] = game.seat[t]
        /\ game.seat[t].user \in DOMAIN f
    BY <1>3, <1>6
  <2>2. f[game.seat[t].user] = SeatsOf(game)[game.seat[t].user]
    BY <2>1 DEF Without
  <2> QED BY <2>1, <2>2, SeatsOfGame
<1>8. f = [u \in DOMAIN f |-> f[u]]
  BY DEF Without
<1> HIDE DEF f
<1>9. SeatsOf(left) = f
  BY <1>1, <1>6, <1>7, <1>8, SeatsOfUnique
<1> QED BY <1>9 DEF left, f

\* The seats of a new game are its member list.
LEMMA AllocatedSeatsOf ==
    ASSUME NEW members \in Seating,
           \A u, v \in DOMAIN members : members[u] = members[v] => u = v
    PROVE  LET slots == {members[u] : u \in DOMAIN members}
               game == [seat |-> [s \in slots |->
                           [user |-> CHOOSE u \in DOMAIN members : members[u] = s,
                            bound |-> FALSE, packets |-> 0, bytes |-> 0,
                            pending |-> <<>>]],
                        participants |-> slots, byToken |-> slots, idle |-> FALSE]
           IN  SeatsOf(game) = members
<1> DEFINE slots == {members[u] : u \in DOMAIN members}
           seat == [s \in slots |->
               [user |-> CHOOSE u \in DOMAIN members : members[u] = s,
                bound |-> FALSE, packets |-> 0, bytes |-> 0, pending |-> <<>>]]
           game == [seat |-> seat, participants |-> slots, byToken |-> slots,
                    idle |-> FALSE]
<1>1. /\ IsGame(game)
      /\ \A u \in DOMAIN members : seat[members[u]].user = u
      /\ members \in [DOMAIN members -> Slot]
  BY AllocatedIsGame
<1>2. game.seat = seat /\ game.participants = slots
  OBVIOUS
<1> HIDE DEF game, seat
<1>3. DOMAIN members = {game.seat[s].user : s \in game.participants}
  <2>1. ASSUME NEW u \in DOMAIN members
        PROVE  \E s \in game.participants : u = game.seat[s].user
    <3>1. members[u] \in game.participants /\ game.seat[members[u]].user = u
      BY <1>1, <1>2
    <3> QED BY <3>1
  <2>2. ASSUME NEW s \in game.participants PROVE game.seat[s].user \in DOMAIN members
    BY <1>1, <1>2
  <2> DEFINE users == {game.seat[s].user : s \in game.participants}
  <2>3. \A u : u \in users <=> \E s \in game.participants : u = game.seat[s].user
    OBVIOUS
  <2> HIDE DEF users
  <2>4. \A u : u \in DOMAIN members => u \in users
    BY <2>1, <2>3
  <2>5. \A u : u \in users => u \in DOMAIN members
    BY <2>2, <2>3
  <2>6. DOMAIN members = users
    BY <2>4, <2>5
  <2> QED BY <2>6 DEF users
<1>4. \A s \in game.participants : members[game.seat[s].user] = s
  BY <1>1, <1>2
<1>5. SeatsOf(game) = members
  BY <1>1, <1>3, <1>4, SeatsOfUnique
<1> QED BY <1>5 DEF game, seat

\* The seats of all games, as the abstract specification has them.
SeatMap == [g \in DOMAIN games |-> Seats(g)]

\* No datagram changes who sits where.
LEMMA ReseatsStutters ==
    ASSUME RelayInv, NEW g \in DOMAIN games, NEW seat, NEW idle \in BOOLEAN,
           Reseats(g, seat, idle),
           seat \in [DOMAIN games[g].seat -> Participant],
           \A s \in DOMAIN games[g].seat : Replaces(seat[s], games[g].seat[s])
    PROVE  SeatMap' = SeatMap
<1>1. SeatsOf(games'[g]) = SeatsOf(games[g])
  BY ReseatSeatsOf DEF Reseats, RelayInv, GamesInv
<1>2. \A h \in DOMAIN games : SeatsOf(games'[h]) = SeatsOf(games[h])
  BY <1>1 DEF Reseats
<1>3. SeatMap = [h \in DOMAIN games |-> SeatsOf(games[h])]
  BY DEF SeatMap, Seats, SeatsOf
<1>4. SeatMap' = [h \in DOMAIN games' |-> SeatsOf(games'[h])]
  BY DEF SeatMap, Seats, SeatsOf
<1> QED BY <1>2, <1>3, <1>4 DEF Reseats

\* A removal takes the user's seat.
LEMMA RemoveParticipantMaps ==
    ASSUME RelayInv, NEW g, NEW u, NEW s, RemoveParticipant(g, u, s)
    PROVE  AbstractRelay!RemoveParticipant(g, u)
<1>1. /\ g \in DOMAIN games /\ s \in games[g].participants
      /\ games[g].seat[s].user = u
      /\ games' = [games EXCEPT ![g] = Unseated(games[g], s)]
      /\ UNCHANGED <<open, expiring>>
  BY DEF RemoveParticipant
<1>2. SeatsOf(Unseated(games[g], s)) = Without(SeatsOf(games[g]), {u})
  BY <1>1, UnseatedSeatsOf DEF RelayInv, GamesInv
<1>3. /\ DOMAIN games' = DOMAIN games
      /\ games'[g] = Unseated(games[g], s)
      /\ \A h \in DOMAIN games \ {g} : games'[h] = games[h]
  BY <1>1
<1>4. /\ SeatMap = [h \in DOMAIN games |-> SeatsOf(games[h])]
      /\ SeatMap' = [h \in DOMAIN games' |-> SeatsOf(games'[h])]
  BY DEF SeatMap, Seats, SeatsOf
<1>5. SeatMap' = [SeatMap EXCEPT ![g] = Without(@, {u})]
  BY <1>1, <1>2, <1>3, <1>4
<1> QED BY <1>1, <1>5 DEF AbstractRelay!RemoveParticipant, AbstractRelay!Without, Without, SeatMap

\* An allocation adds the seats of its game.
LEMMA AllocateMaps ==
    ASSUME RelayInv, NEW g \in GameId, NEW members \in Seating,
           Allocate(g, members)
    PROVE  /\ AbstractRelay!Allocate(g, members)
           /\ DOMAIN members \in (SUBSET User) \ {{}}
           /\ members \in [DOMAIN members -> AbstractRelay!Slot]
<1> DEFINE slots == {members[u] : u \in DOMAIN members}
           seat == [s \in slots |->
               [user |-> CHOOSE u \in DOMAIN members : members[u] = s,
                bound |-> FALSE, packets |-> 0, bytes |-> 0, pending |-> <<>>]]
           game == [seat |-> seat, participants |-> slots, byToken |-> slots,
                    idle |-> FALSE]
<1>1. /\ g \notin drawn /\ open /\ g \notin DOMAIN games
      /\ games' = Put(games, g, game)
      /\ UNCHANGED <<open, expiring>>
      /\ \A u, v \in DOMAIN members : members[u] = members[v] => u = v
  BY DEF Allocate, Allocatable
<1>2. SeatsOf(game) = members
  BY <1>1, AllocatedSeatsOf
<1>3. /\ DOMAIN members \in (SUBSET User) \ {{}}
      /\ members \in [DOMAIN members -> Slot]
  BY <1>1, AllocatedIsGame
<1> HIDE DEF game
<1>4. g \notin expiring
  BY <1>1 DEF RelayInv, GamesInv
<1>5. /\ DOMAIN games' = DOMAIN games \union {g} /\ games'[g] = game
      /\ \A h \in DOMAIN games \ {g} : games'[h] = games[h]
  BY <1>1 DEF Put
<1>6. /\ SeatMap = [h \in DOMAIN games |-> SeatsOf(games[h])]
      /\ SeatMap' = [h \in DOMAIN games' |-> SeatsOf(games'[h])]
  BY DEF SeatMap, Seats, SeatsOf
<1>7. SeatMap' = Put(SeatMap, g, members) /\ DOMAIN SeatMap = DOMAIN games
  BY <1>1, <1>2, <1>5, <1>6 DEF Put
<1> QED BY <1>1, <1>3, <1>4, <1>7
        DEF AbstractRelay!Allocate, AbstractRelay!Put, Put, AbstractRelay!Slot,
            Slot, SeatMap

\* Games are dropped from both maps.
LEMMA DropMaps ==
    ASSUME NEW S, games' = Without(games, S)
    PROVE  SeatMap' = Without(SeatMap, S)
<1>1. /\ SeatMap = [h \in DOMAIN games |-> SeatsOf(games[h])]
      /\ SeatMap' = [h \in DOMAIN games' |-> SeatsOf(games'[h])]
  BY DEF SeatMap, Seats, SeatsOf
<1> QED BY <1>1 DEF Without

\* No datagram is a step of the abstract specification.
LEMMA DatagramStutters ==
    ASSUME RelayInv, HandleDatagram
    PROVE  SeatMap' = SeatMap /\ UNCHANGED <<open, expiring>>
<1>1. PICK g \in GameId, s \in Slot, windowOver \in BOOLEAN :
         \/ \E kind \in {"bind", "data"} : RateLimited(g, s, kind, windowOver)
         \/ HandleBind(g, s, windowOver)
         \/ \E target \in Slot \union {Broadcast} :
               HandleData(g, s, target, windowOver)
  BY DEF HandleDatagram
<1> DEFINE old == games[g].seat
<1>2. ASSUME g \in DOMAIN games, s \in games[g].participants
      PROVE  /\ IsGame(games[g]) /\ s \in DOMAIN old /\ s \in Slot
             /\ old \in [DOMAIN old -> Participant]
             /\ old[s] \in Participant /\ games[g].idle \in BOOLEAN
             /\ \A t \in DOMAIN old : Replaces(old[t], old[t])
  <2>1. IsGame(games[g]) /\ s \in DOMAIN old
    BY <1>2 DEF RelayInv, GamesInv, IsGame, IsRelayGame
  <2> QED BY <2>1, Unreplaced DEF IsGame, IsRelayGame
<1>3. ASSUME NEW kind \in {"bind", "data"}, RateLimited(g, s, kind, windowOver)
      PROVE  SeatMap' = SeatMap /\ UNCHANGED <<open, expiring>>
  <2> DEFINE p == Counted(old[s], kind, windowOver)
             new == [old EXCEPT ![s] = p]
  <2>1. /\ g \in DOMAIN games /\ s \in games[g].participants
        /\ Reseats(g, new, games[g].idle)
    BY <1>3, RateLimitedGames DEF RelayInv
  <2>2. /\ p \in Participant /\ p.user = old[s].user
        /\ p.bound = old[s].bound /\ p.pending = old[s].pending
    BY <1>2, <2>1, CountedType
  <2> HIDE DEF p
  <2>3. /\ new \in [DOMAIN old -> Participant]
        /\ \A t \in DOMAIN old : Replaces(new[t], old[t])
    BY <1>2, <2>1, <2>2 DEF Replaces
  <2> HIDE DEF new
  <2>4. SeatMap' = SeatMap
    BY <1>2, <2>1, <2>3, ReseatsStutters
  <2> QED BY <1>3, <2>4 DEF RateLimited
<1>4. ASSUME HandleBind(g, s, windowOver)
      PROVE  SeatMap' = SeatMap /\ UNCHANGED <<open, expiring>>
  <2> DEFINE p == Counted(old[s], "bind", windowOver)
             q == [p EXCEPT !.bound = TRUE, !.pending = <<>>]
             new == [old EXCEPT ![s] = q]
  <2>1. /\ g \in DOMAIN games /\ s \in games[g].participants
        /\ Reseats(g, new, FALSE)
    BY <1>4, HandleBindGames DEF RelayInv
  <2>2. p \in Participant /\ p.user = old[s].user
    BY <1>2, <2>1, CountedType
  <2> HIDE DEF p
  <2>3. /\ q \in Participant /\ q.user = old[s].user
        /\ q.bound = TRUE /\ q.pending = <<>>
    <3>1. <<>> \in Seq(Frame)
      OBVIOUS
    <3> QED BY <2>2, <3>1 DEF Participant
  <2> HIDE DEF q
  <2>4. Replaces(q, old[s])
    BY <2>3, QueueAssumption DEF Replaces
  <2>5. /\ new \in [DOMAIN old -> Participant]
        /\ \A t \in DOMAIN old : Replaces(new[t], old[t])
    BY <1>2, <2>1, <2>3, <2>4
  <2> HIDE DEF new
  <2>6. SeatMap' = SeatMap
    BY <2>1, <2>5, ReseatsStutters
  <2> QED BY <1>4, <2>6 DEF HandleBind
<1>5. ASSUME NEW target \in Slot \union {Broadcast},
             HandleData(g, s, target, windowOver)
      PROVE  SeatMap' = SeatMap /\ UNCHANGED <<open, expiring>>
  <2> DEFINE new == Received(g, s, target, windowOver)
             frame == [source |-> s, number |-> accepted + 1]
  <2>1. /\ g \in DOMAIN games /\ s \in games[g].participants
        /\ Reseats(g, new, FALSE)
    BY <1>5, HandleDataGames DEF RelayInv
  <2>2. /\ frame \in Frame /\ (DataFirst \/ old[s].bound)
    <3>1. /\ accepted \in 0 .. MaxAccepted /\ accepted < MaxAccepted
          /\ DataFirst \/ old[s].bound
      BY <1>5 DEF HandleData, RelayInv, TypeOK
    <3>2. s \in Slot /\ accepted + 1 \in 1 .. MaxAccepted
      BY <1>2, <2>1, <3>1, MaxAcceptedAssumption
    <3> QED BY <3>1, <3>2 DEF Frame
  <2>3. /\ new \in [DOMAIN old -> Participant]
        /\ \A t \in DOMAIN old : Replaces(new[t], old[t])
    BY <1>2, <2>1, <2>2, ReceivedSeats
  <2> HIDE DEF new
  <2>4. SeatMap' = SeatMap
    BY <2>1, <2>3, ReseatsStutters
  <2> QED BY <1>5, <2>4 DEF HandleData
<1> QED BY <1>1, <1>3, <1>4, <1>5

\* Datagrams, rates and queues never change who sits where, and the hub's
\* calls and the sweep do what RelaySeats says: the safety part of
\* ImplementsRelaySeats.
THEOREM SafelyImplementsRelaySeats ==
    Spec => AbstractRelay!Init /\ [][AbstractRelay!Next]_AbstractRelay!vars
<1>1. Init => AbstractRelay!Init
  <2> SUFFICES ASSUME Init PROVE AbstractRelay!Init
    OBVIOUS
  <2>1. DOMAIN games = {}
    BY DEF Init, EmptyMap
  <2>2. [g \in DOMAIN games |-> Seats(g)] = EmptyMap
    BY <2>1 DEF EmptyMap
  <2> QED BY <2>2 DEF Init, AbstractRelay!Init, AbstractRelay!EmptyMap, EmptyMap
<1>2. RelayInv /\ [Next]_vars => [AbstractRelay!Next]_(AbstractRelay!vars)
  <2> SUFFICES ASSUME RelayInv, [Next]_vars
               PROVE  AbstractRelay!Next \/ UNCHANGED AbstractRelay!vars
    OBVIOUS
  <2>1. CASE HandleDatagram
    BY <2>1, DatagramStutters DEF AbstractRelay!vars, SeatMap
  <2>2. CASE \E r \in Seat : WriteTo(r)
    BY <2>2 DEF WriteTo, AbstractRelay!vars, Seats
  <2>3. CASE Hub
    <3>1. PICK g \in GameId :
             \/ \E members \in Seating : Allocate(g, members)
             \/ \E u \in User, s \in Slot : RemoveParticipant(g, u, s)
             \/ EndGame(g)
      BY <2>3 DEF Hub
    <3>2. CASE \E members \in Seating : Allocate(g, members)
      <4>1. PICK members \in Seating : Allocate(g, members)
        BY <3>2
      <4>2. /\ AbstractRelay!Allocate(g, members)
            /\ DOMAIN members \in (SUBSET User) \ {{}}
            /\ members \in [DOMAIN members -> AbstractRelay!Slot]
        BY <4>1, AllocateMaps
      <4> QED BY <4>2 DEF AbstractRelay!Next
    <3>3. CASE \E u \in User, s \in Slot : RemoveParticipant(g, u, s)
      <4>1. PICK u \in User, s \in Slot : RemoveParticipant(g, u, s)
        BY <3>3
      <4>2. AbstractRelay!RemoveParticipant(g, u)
        BY <4>1, RemoveParticipantMaps
      <4> QED BY <4>2 DEF AbstractRelay!Next
    <3>4. CASE EndGame(g)
      <4>1. SeatMap' = Without(SeatMap, {g}) /\ UNCHANGED <<open, expiring>>
        BY <3>4, DropMaps DEF EndGame
      <4>2. AbstractRelay!EndGame(g)
        BY <4>1 DEF AbstractRelay!EndGame, AbstractRelay!Without, Without, SeatMap
      <4> QED BY <4>2 DEF AbstractRelay!Next
    <3> QED BY <3>1, <3>2, <3>3, <3>4
  <2>4. CASE Close
    <3>1. DOMAIN games' = {} /\ open /\ open' = FALSE /\ UNCHANGED expiring
      BY <2>4 DEF Close, EmptyMap
    <3>2. SeatMap' = EmptyMap
      BY <3>1 DEF SeatMap, EmptyMap
    <3>3. AbstractRelay!Close
      BY <3>1, <3>2 DEF AbstractRelay!Close, AbstractRelay!EmptyMap, EmptyMap, SeatMap
    <3> QED BY <3>3 DEF AbstractRelay!Next
  <2>5. CASE ExpireIdleGames
    <3>1. /\ SeatMap' = Without(SeatMap, Expired) /\ expiring = {}
          /\ expiring' = Expired /\ UNCHANGED open
      BY <2>5, DropMaps DEF ExpireIdleGames
    <3>2. Expired \in (SUBSET DOMAIN SeatMap) \ {{}}
      BY <2>5 DEF ExpireIdleGames, Expired, SeatMap
    <3>3. AbstractRelay!ExpireIdleGames(Expired)
      BY <3>1 DEF AbstractRelay!ExpireIdleGames, AbstractRelay!Without, Without, SeatMap
    <3> QED BY <3>2, <3>3 DEF AbstractRelay!Next, SeatMap
  <2>6. CASE \E g \in GameId : IdleTimePasses(g) \/ GameExpired(g)
    <3>1. PICK g \in GameId : IdleTimePasses(g) \/ GameExpired(g)
      BY <2>6
    <3>2. CASE IdleTimePasses(g)
      <4>1. g \in DOMAIN games /\ Reseats(g, games[g].seat, TRUE)
        BY <3>2, IdleTimePassesGames DEF RelayInv
      <4>2. /\ IsGame(games[g])
            /\ games[g].seat \in [DOMAIN games[g].seat -> Participant]
        BY <4>1 DEF RelayInv, GamesInv, IsGame, IsRelayGame
      <4>3. SeatMap' = SeatMap
        BY <4>1, <4>2, Unreplaced, ReseatsStutters
      <4> QED BY <3>2, <4>3 DEF IdleTimePasses, AbstractRelay!vars, SeatMap
    <3>3. CASE GameExpired(g)
      <4>1. SeatMap' = SeatMap
        BY <3>3 DEF GameExpired, SeatMap, Seats
      <4>2. AbstractRelay!GameExpired(g)
        BY <3>3, <4>1 DEF GameExpired, AbstractRelay!GameExpired, SeatMap
      <4> QED BY <4>2 DEF AbstractRelay!Next
    <3> QED BY <3>1, <3>2, <3>3
  <2>7. CASE UNCHANGED vars
    BY <2>7 DEF vars, AbstractRelay!vars, Seats
  <2> QED BY <2>1, <2>2, <2>3, <2>4, <2>5, <2>6, <2>7 DEF Next
<1> QED BY <1>1, <1>2, RelayInvHolds, PTL DEF Spec
=============================================================================
