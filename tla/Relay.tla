-------------------------------- MODULE Relay --------------------------------
(***************************************************************************)
(* The UDP relay (src/internal/app/relay.go): allocation of a game's       *)
(* participants, binding, forwarding, the queue in front of a participant  *)
(* who has not been heard of yet, rate limits, removal and idle expiry.    *)
(*                                                                         *)
(* One goroutine handles datagrams.  It decides under r.mu what to send    *)
(* and sends it after it has released the mutex, so everything but another *)
(* datagram can come between the decision and a write.  The hub's calls    *)
(* and the sweep for idle games hold r.mu throughout.                      *)
(*                                                                         *)
(* A datagram that is malformed, or whose token is unknown or belongs to   *)
(* another slot, is dropped without a trace.  Tokens are 128 random bits:  *)
(* the token of a participant is known by his game and slot.  Payloads     *)
(* are numbered in the order in which the relay accepts them.              *)
(*                                                                         *)
(* An operator whose name ends in Fault is a plausible bug in the          *)
(* definition that follows it.  No specification uses it; README.md says   *)
(* which property each one breaks.                                         *)
(***************************************************************************)
EXTENDS Integers, FiniteSetsExt, SequencesExt, GoMaps

CONSTANTS
    GameId,                   \* game ids the hub can draw
    User,                     \* user ids of members
    SlotCount,                \* 8 in the code: slots are 0 .. 7
    Broadcast,                \* relayBroadcast, the target that means everybody
    Seating,                  \* the member lists the hub may allocate
    RelayInitialQueuePackets, \* 32 in the code
    MaxRelayPacketsPerSecond, \* cfg.MaxRelayPacketsPerSecond
    MaxRelayBytesPerSecond,   \* cfg.MaxRelayBytesPerSecond, in header lengths
    DataSize,                 \* size of a Data datagram, in header lengths
    DataFirst,                \* participants may send Data before they bind
    MaxAccepted               \* bound: datagrams the relay accepts

Slot == 0 .. SlotCount - 1
Seat == GameId \X Slot

ASSUME SlotCountAssumption == SlotCount \in Nat \ {0}
ASSUME BroadcastAssumption == Broadcast \notin Slot
ASSUME SeatingAssumption ==
    \A members \in Seating :
        /\ IsMap(members, User, Slot)
        /\ DOMAIN members # {}
ASSUME QueueAssumption == RelayInitialQueuePackets \in Nat \ {0}
ASSUME RateAssumption == /\ MaxRelayPacketsPerSecond \in Nat
                         /\ MaxRelayBytesPerSecond \in Nat
                         /\ DataSize \in Nat \ {0}
ASSUME DataFirstAssumption == DataFirst \in BOOLEAN
ASSUME MaxAcceptedAssumption == MaxAccepted \in Nat

VARIABLES
    open,     \* r.conn # nil
    games,    \* r.games
    expiring, \* swept games whose handler has not been called yet
    drawn,    \* ids the hub has used: it draws 64 random bits
    outbox,   \* frames decided on and not written yet, per seat
    accepted, \* history: the number of datagrams the relay accepted
    owed,     \* history: the payload frames addressed to each seat
    written   \* history: the frames written to each seat

historyVars == <<accepted, owed, written>>
vars == <<open, games, expiring, drawn, outbox, historyVars>>

-----------------------------------------------------------------------------
(* Types.                                                                  *)

\* A BindAck of a participant is the frame whose source he is himself.
Frame == [source: Slot, number: 1 .. MaxAccepted]

\* relayParticipant; bound stands for endpoint # nil.
Participant ==
    [user: User, bound: BOOLEAN, packets: 0 .. MaxRelayPacketsPerSecond + 1,
     bytes: 0 .. MaxRelayBytesPerSecond + 1, pending: Seq(Frame)]

\* relayGame.  seat holds the participants the two maps point to, removed
\* ones included; idle stands for a lastActivity too long ago.
IsRelayGame(game) ==
    /\ game \in [seat: [DOMAIN game.seat -> Participant],
                 participants: SUBSET Slot, byToken: SUBSET Slot,
                 idle: BOOLEAN]
    /\ DOMAIN game.seat \subseteq Slot
    /\ game.participants \union game.byToken \subseteq DOMAIN game.seat
    /\ \A s \in DOMAIN game.seat :
          Len(game.seat[s].pending) <= RelayInitialQueuePackets

-----------------------------------------------------------------------------
(* Helpers.                                                                *)

\* Of a Bind or a Keepalive there is only the header.
Size(kind) == IF kind = "data" THEN DataSize ELSE 1

\* The goroutine that handles datagrams waits for the next one.
Listening == \A r \in Seat : outbox[r] = <<>>

\* A datagram with the token of a participant and the slot it belongs to.
Authenticated(g, s) == g \in DOMAIN games /\ s \in games[g].byToken

WithinRate(packets, bytes) ==
    /\ packets <= MaxRelayPacketsPerSecond
    /\ bytes <= MaxRelayBytesPerSecond

\* The participant after a datagram was counted: in the window that runs,
\* or in a new one when the last is over.  A window over its limits stays
\* so, by how much makes no difference.
Counted(p, kind, windowOver) ==
    LET packets == IF windowOver THEN 1 ELSE p.packets + 1
        bytes == IF windowOver THEN Size(kind) ELSE p.bytes + Size(kind)
    IN  IF WithinRate(packets, bytes)
        THEN [p EXCEPT !.packets = packets, !.bytes = bytes]
        ELSE [p EXCEPT !.packets = MaxRelayPacketsPerSecond + 1,
                       !.bytes = MaxRelayBytesPerSecond + 1]

\* The full queue refuses the new frame,
QueuedNewestFault(q, frame) ==
    IF Len(q) >= RelayInitialQueuePackets THEN q ELSE Append(q, frame)

\* or is full one frame too late.
QueuedRangeFault(q, frame) ==
    IF Len(q) > RelayInitialQueuePackets THEN Append(Tail(q), frame)
    ELSE Append(q, frame)

\* The pending queue after a frame: the oldest makes room.
Queued(q, frame) ==
    IF Len(q) >= RelayInitialQueuePackets THEN Append(Tail(q), frame)
    ELSE Append(q, frame)

\* Whom a Data frame of slot s is for.
Recipients(g, s, target) ==
    (IF target = Broadcast THEN games[g].participants
     ELSE {target} \intersect games[g].participants) \ {s}

-----------------------------------------------------------------------------
(* The hub's calls.                                                        *)

\* What Allocate asks of the game and its members.
Allocatable(g, members) ==
    /\ open
    /\ g \notin DOMAIN games
    /\ \A u, v \in DOMAIN members : members[u] = members[v] => u = v

Allocate(g, members) ==
    LET slots == {members[u] : u \in DOMAIN members}
    IN  /\ g \notin drawn
        /\ Allocatable(g, members)
        /\ games' = Put(games, g,
              [seat |-> [s \in slots |->
                  [user |-> CHOOSE u \in DOMAIN members : members[u] = s,
                   bound |-> FALSE, packets |-> 0, bytes |-> 0,
                   pending |-> <<>>]],
               participants |-> slots, byToken |-> slots, idle |-> FALSE])
        /\ drawn' = drawn \union {g}
        /\ UNCHANGED <<open, expiring, outbox, historyVars>>

\* The token of the participant stays valid.
UnseatedFault(game, s) ==
    [game EXCEPT !.participants = @ \ {s}, !.idle = FALSE,
                 !.seat[s].bound = FALSE, !.seat[s].pending = <<>>]

Unseated(game, s) ==
    [game EXCEPT !.participants = @ \ {s}, !.byToken = @ \ {s}, !.idle = FALSE,
                 !.seat[s].bound = FALSE, !.seat[s].pending = <<>>]

\* RemoveParticipant, which checks that u holds the slot.
RemoveParticipant(g, u, s) ==
    /\ g \in DOMAIN games
    /\ s \in games[g].participants
    /\ games[g].seat[s].user = u
    /\ games' = [games EXCEPT ![g] = Unseated(@, s)]
    /\ UNCHANGED <<open, expiring, drawn, outbox, historyVars>>

EndGame(g) ==
    /\ g \in DOMAIN games
    /\ games' = Without(games, {g})
    /\ UNCHANGED <<open, expiring, drawn, outbox, historyVars>>

Close ==
    /\ open
    /\ open' = FALSE
    /\ games' = EmptyMap
    /\ UNCHANGED <<expiring, drawn, outbox, historyVars>>

-----------------------------------------------------------------------------
(* handleDatagram and writeTo.                                             *)

\* A datagram over the limit: it is counted and that is all.
RateLimited(g, s, kind, windowOver) ==
    LET p == Counted(games[g].seat[s], kind, windowOver)
    IN  /\ Listening
        /\ Authenticated(g, s)
        /\ ~ WithinRate(p.packets, p.bytes)
        /\ games' = [games EXCEPT ![g].seat[s] = p]
        /\ UNCHANGED <<open, expiring, drawn, outbox, historyVars>>

\* The queue is sent with the newest frame first.
AnswerNewestFirstFault(p, ack) ==
    [left |-> <<>>, sent |-> <<ack>> \o Reverse(p.pending)]

\* What a Bind is answered with, and what stays in the queue.
Answer(p, ack) == [left |-> <<>>, sent |-> <<ack>> \o p.pending]

\* Bind or Keepalive.
HandleBind(g, s, windowOver) ==
    LET p == Counted(games[g].seat[s], "bind", windowOver)
        ack == [source |-> s, number |-> accepted + 1]
    IN  /\ Listening
        /\ Authenticated(g, s)
        /\ WithinRate(p.packets, p.bytes)
        /\ accepted < MaxAccepted
        /\ accepted' = accepted + 1
        /\ games' = [games EXCEPT
              ![g].seat[s] = [p EXCEPT !.bound = TRUE,
                                       !.pending = Answer(p, ack).left],
              ![g].idle = FALSE]
        /\ outbox' = [outbox EXCEPT ![<<g, s>>] = Answer(p, ack).sent]
        /\ UNCHANGED <<open, expiring, drawn, owed, written>>

HandleData(g, s, target, windowOver) ==
    LET p == Counted(games[g].seat[s], "data", windowOver)
        frame == [source |-> s, number |-> accepted + 1]
        seat == [games[g].seat EXCEPT ![s] = [p EXCEPT !.bound = TRUE]]
        recipients == Recipients(g, s, target)
    IN  /\ Listening
        /\ Authenticated(g, s)
        /\ DataFirst \/ games[g].seat[s].bound
        /\ WithinRate(p.packets, p.bytes)
        /\ accepted < MaxAccepted
        /\ accepted' = accepted + 1
        /\ games' = [games EXCEPT
              ![g].idle = FALSE,
              ![g].seat = [t \in DOMAIN seat |->
                  IF t \in recipients /\ ~ seat[t].bound
                  THEN [seat[t] EXCEPT !.pending = Queued(@, frame)]
                  ELSE seat[t]]]
        /\ outbox' = [r \in Seat |->
              IF r[1] = g /\ r[2] \in recipients /\ seat[r[2]].bound
              THEN <<frame>> ELSE <<>>]
        /\ owed' = [r \in Seat |->
              IF r[1] = g /\ r[2] \in recipients
              THEN owed[r] \union {frame} ELSE owed[r]]
        /\ UNCHANGED <<open, expiring, drawn, written>>

\* writeTo.  The socket is closed some time after r.conn was taken away:
\* from then on every write fails.  While the relay is open the socket is
\* assumed to take what is written.
WriteTo(r) ==
    /\ outbox[r] # <<>>
    /\ \/ /\ outbox' = [outbox EXCEPT ![r] = Tail(@)]
          /\ written' = [written EXCEPT ![r] = Append(@, Head(outbox[r]))]
       \/ /\ ~ open
          /\ outbox' = [q \in Seat |-> <<>>]
          /\ UNCHANGED written
    /\ UNCHANGED <<open, games, expiring, drawn, accepted, owed>>

-----------------------------------------------------------------------------
(* Idle games.                                                             *)

\* Nobody was heard of for cfg.GameIdleTimeout.
IdleTimePasses(g) ==
    /\ g \in DOMAIN games
    /\ ~ games[g].idle
    /\ games' = [games EXCEPT ![g].idle = TRUE]
    /\ UNCHANGED <<open, expiring, drawn, outbox, historyVars>>

\* Games are swept once everybody has left them.
ExpiredFault == {g \in DOMAIN games : games[g].participants = {}}

Expired == {g \in DOMAIN games : games[g].idle}

\* The hub is told of games that stay allocated.
ExpireIdleGamesFault ==
    /\ expiring = {}
    /\ Expired # {}
    /\ expiring' = Expired
    /\ UNCHANGED <<open, games, drawn, outbox, historyVars>>

\* expireIdleGames, under r.mu: the next sweep waits until the handler has
\* been called for every game of this one.
ExpireIdleGames ==
    /\ expiring = {}
    /\ Expired # {}
    /\ games' = Without(games, Expired)
    /\ expiring' = Expired
    /\ UNCHANGED <<open, drawn, outbox, historyVars>>

\* r.gameExpired: the hub ends the game, which the relay has forgotten.
GameExpired(g) ==
    /\ g \in expiring
    /\ expiring' = expiring \ {g}
    /\ UNCHANGED <<open, games, drawn, outbox, historyVars>>

-----------------------------------------------------------------------------

Init ==
    /\ open = TRUE
    /\ games = EmptyMap
    /\ expiring = {}
    /\ drawn = {}
    /\ outbox = [r \in Seat |-> <<>>]
    /\ accepted = 0
    /\ owed = [r \in Seat |-> {}]
    /\ written = [r \in Seat |-> <<>>]

HandleDatagram ==
    \E g \in GameId, s \in Slot, windowOver \in BOOLEAN :
        \/ \E kind \in {"bind", "data"} : RateLimited(g, s, kind, windowOver)
        \/ HandleBind(g, s, windowOver)
        \/ \E target \in Slot \union {Broadcast} :
              HandleData(g, s, target, windowOver)

Hub ==
    \E g \in GameId :
        \/ \E members \in Seating : Allocate(g, members)
        \/ \E u \in User, s \in Slot : RemoveParticipant(g, u, s)
        \/ EndGame(g)

Next ==
    \/ HandleDatagram
    \/ \E r \in Seat : WriteTo(r)
    \/ Hub
    \/ Close
    \/ ExpireIdleGames
    \/ \E g \in GameId : IdleTimePasses(g) \/ GameExpired(g)

Spec == Init /\ [][Next]_vars

\* The ticker of the sweep ticks, and the sweep calls the handler for every
\* game.
Fairness ==
    /\ WF_vars(ExpireIdleGames)
    /\ \A g \in GameId : WF_vars(GameExpired(g))

FairSpec == Spec /\ Fairness

-----------------------------------------------------------------------------
(* Type invariant.                                                         *)

\* Every variable holds a value of the Go type it models.
TypeOK ==
    /\ open \in BOOLEAN
    /\ DOMAIN games \subseteq GameId
    /\ \A g \in DOMAIN games : IsRelayGame(games[g])
    /\ expiring \subseteq GameId
    /\ drawn \subseteq GameId
    /\ outbox \in [Seat -> Seq(Frame)]
    /\ accepted \in 0 .. MaxAccepted
    /\ owed \in [Seat -> SUBSET Frame]
    /\ written \in [Seat -> Seq(Frame)]

-----------------------------------------------------------------------------
(* Safety.                                                                 *)

Seated(r) == r[1] \in DOMAIN games /\ r[2] \in games[r[1]].participants
Pending(r) == IF Seated(r) THEN games[r[1]].seat[r[2]].pending ELSE <<>>

\* Everything that has gone or will go to a seat, in this order.
Stream(r) == written[r] \o outbox[r] \o Pending(r)

\* No payload reaches a participant twice, none comes back to its sender,
\* and none that was not addressed to him: whatever is written, about to
\* be written or pending was owed exactly once.
DeliveredOnce ==
    \A r \in Seat :
        /\ IsInjective(Stream(r))
        /\ \A frame \in ToSet(Stream(r)) :
              frame.source # r[2] => frame \in owed[r]
        /\ \A frame \in owed[r] : frame.source # r[2]

\* "If that queue fills, the oldest packet is dropped and the new packet is
\* kept" (docs/PROTOCOL.md:534): while the relay runs, a seated participant
\* misses nothing but what was older than a whole queue of frames he has
\* got or will get.
OnlyOverflowLoses ==
    \A r \in Seat :
        open /\ Seated(r) =>
            LET kept == ToSet(Stream(r)) \intersect owed[r]
                lost == owed[r] \ kept
            IN  lost # {} =>
                   /\ Cardinality(kept) >= RelayInitialQueuePackets
                   /\ \A x \in lost, y \in kept : x.number < y.number

\* Every accepted frame is written once, waits, or fell out of a full queue,
\* whatever is bound, removed, ended or closed between the decision to send
\* it and the write.
FramesAreAccounted == DeliveredOnce /\ OnlyOverflowLoses

\* A client that waits for BindAck, as docs/PROTOCOL.md:519 tells it to,
\* gets it before any payload.
AckComesFirst ==
    \A r \in Seat : written[r] # <<>> => Head(written[r]).source = r[2]

\* "It does not parse, rewrite, acknowledge, reorder, or retransmit the
\* game payload" (docs/PROTOCOL.md:489): a participant receives the
\* payloads of one source in the order in which the relay accepted them.
InOrder ==
    \A r \in Seat : \A i, j \in DOMAIN written[r] :
        /\ i < j
        /\ written[r][i].source = written[r][j].source
        => written[r][i].number < written[r][j].number

\* What waited in front of a participant overtakes neither his BindAck nor
\* what came before it.
FramesComeInOrder == AckComesFirst /\ InOrder

-----------------------------------------------------------------------------
(* Action properties.                                                      *)

\* A participant who was removed has no say any more: once a datagram is
\* handled, what it leads to comes from and goes to those still seated.
RemovedAreSilent ==
    [][\A r \in Seat :
          outbox[r] = <<>> /\ outbox'[r] # <<>> =>
             /\ Seated(r)
             /\ \A frame \in ToSet(outbox'[r]) :
                   frame.number = accepted' => Seated(<<r[1], frame.source>>)]_vars

-----------------------------------------------------------------------------
(* Liveness.                                                               *)

\* A game in which nobody is heard of does not stay allocated.
IdleGamesExpire ==
    \A g \in GameId :
        g \in DOMAIN games /\ games[g].idle
        ~> g \notin DOMAIN games \/ ~ games[g].idle

-----------------------------------------------------------------------------
(* The relay implements the seats the hub relies on.                       *)

Seats(g) ==
    LET users == {games[g].seat[s].user : s \in games[g].participants}
    IN  [u \in users |->
            CHOOSE s \in games[g].participants : games[g].seat[s].user = u]

AbstractRelay ==
    INSTANCE RelaySeats WITH seats <- [g \in DOMAIN games |-> Seats(g)]

\* Datagrams, rates and queues never change who sits where; the hub's
\* calls and the sweep do what RelaySeats says, and every swept game is
\* reported.
ImplementsRelaySeats == AbstractRelay!Spec
=============================================================================
