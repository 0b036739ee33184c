------------------------------- MODULE Lobby -------------------------------
(***************************************************************************)
(* The staged games of the hub (src/internal/app/hub.go): creating,        *)
(* joining and leaving a lobby, readiness, the start barrier and its       *)
(* timer, quick match, the relay allocation that belongs to a running      *)
(* game, and what connects, disconnects, administrators, late timers and   *)
(* the relay's idle sweep do to them.                                      *)
(*                                                                         *)
(* Every handler of the hub holds h.mu from its first read to its last     *)
(* write, so each handler is one action.  What is not atomic in the code   *)
(* is not atomic here: a timer that has fired waits for h.mu while other   *)
(* handlers run, and the relay forgets an idle game before the hub hears   *)
(* of it.                                                                  *)
(*                                                                         *)
(* Names, passwords, maps and compatibility tuples only decide whether a   *)
(* request is refused, and a refused request changes nothing; a refusal on *)
(* those grounds is a stuttering step here.                                *)
(*                                                                         *)
(* An operator whose name ends in Fault is a plausible bug in the          *)
(* definition that follows it.  No specification uses it; README.md says   *)
(* which property each one breaks.                                         *)
(***************************************************************************)
EXTENDS Integers, FiniteSetsExt, GoMaps

CONSTANTS
    Player,         \* user ids
    Client,         \* control connections (*controlClient pointers)
    UserOf,         \* the user a connection authenticates as
    GameId,         \* game ids newGameIDLocked can draw
    ReadyKey,       \* values of GameOptions.ReadyKey
    EmptyKey,       \* its zero value
    MatchKey,       \* mode and compatibility tuple of a quick match request
    MaxStagedGames, \* cfg.MaxStagedGames
    SlotCount,      \* 8 in the code: slots are 0 .. 7
    NoClient,       \* nil *controlClient
    NoGame          \* the zero game id of a user outside any game

ASSUME UserOfAssumption == UserOf \in [Client -> Player]
ASSUME NoClientAssumption == NoClient \notin Client
ASSUME NoGameAssumption == NoGame \notin GameId
ASSUME EmptyKeyAssumption == EmptyKey \in ReadyKey
ASSUME SlotCountAssumption == SlotCount \in Nat /\ SlotCount >= 2
ASSUME MaxStagedGamesAssumption == MaxStagedGames \in Nat

VARIABLES
    clients,     \* h.clients: the live connection of each user
    games,       \* h.games
    userGame,    \* h.userGame
    matchQueue,  \* h.matchQueue
    timers,      \* start timers the runtime still holds
    relay,       \* relay.games: the slot of every participant, per allocation
    relayOpen,   \* relay.conn # nil
    expiring     \* games the relay forgot whose callback has not run

vars == <<clients, games, userGame, matchQueue, timers, relay, relayOpen,
          expiring>>
relayVars == <<relay, relayOpen, expiring>>
stageVars == <<games, userGame, timers, relay>>

-----------------------------------------------------------------------------
(* Types.                                                                  *)

Slot == 0 .. SlotCount - 1
GameState == {"open", "starting", "started"}

Member == [client: Client, ready: BOOLEAN, startReady: BOOLEAN,
           slot: -1 .. SlotCount - 1]

\* enqueuedAt is left out: at most one entry of a key is ever queued
\* (QueueKeysDistinct), so the order of the entries decides nothing.
MatchEntry == [client: Client, key: MatchKey]

Timer == [game: GameId, generation: Nat, fired: BOOLEAN]

\* Of the options only those a handler reads; of startedRoster the users.
IsStagedGame(game) ==
    /\ game \in [state: GameState, listed: BOOLEAN, hostID: Player,
                 maxPlayers: 2 .. SlotCount, useStats: BOOLEAN,
                 readyKey: ReadyKey, members: [DOMAIN game.members -> Member],
                 startedRoster: SUBSET Player, resultsReported: BOOLEAN,
                 startGeneration: Nat]
    /\ DOMAIN game.members \subseteq Player

IsGames(f) ==
    /\ DOMAIN f \subseteq GameId
    /\ f = [g \in DOMAIN f |-> f[g]]
    /\ \A g \in DOMAIN f : IsStagedGame(f[g])

IsRelay(f) ==
    /\ DOMAIN f \subseteq GameId
    /\ f = [g \in DOMAIN f |-> f[g]]
    /\ \A g \in DOMAIN f : IsMap(f[g], Player, Slot)

-----------------------------------------------------------------------------
(* Helpers.                                                                *)

\* Command's first check: the connection is the live one of its user.
Active(c) == clients[UserOf[c]] = c

\* gameForClientLocked finds a game, and it is g.
InGame(c, g) ==
    /\ Active(c)
    /\ g \in DOMAIN games
    /\ userGame[UserOf[c]] = g

\* A connection object nothing in the hub refers to: what an accepted
\* socket is.
Fresh(c) ==
    /\ ~ Active(c)
    /\ \A p \in DOMAIN matchQueue : matchQueue[p].client # c
    /\ \A g \in DOMAIN games : \A p \in DOMAIN games[g].members :
          games[g].members[p].client # c

\* newGameIDLocked: ids are 64 random bits, so an id that an outstanding
\* callback still names is not drawn again.
NewGameID(g) ==
    /\ g \notin DOMAIN games
    /\ g \notin DOMAIN relay
    /\ g \notin expiring
    /\ \A t \in timers : t.game # g

\* The number of members is not a free slot once somebody has left,
FirstOpenSlotCountFault(members) == Cardinality(DOMAIN members)

\* and counting from one runs past the last slot.
FirstOpenSlotRangeFault(members) == Cardinality(DOMAIN members) + 1

\* firstOpenSlot: the lowest slot no member holds, -1 if there is none.
FirstOpenSlot(members) ==
    LET free == Slot \ {members[p].slot : p \in DOMAIN members}
    IN  IF free = {} THEN -1 ELSE Min(free)

NewMember(c, ready, slot) ==
    [client |-> c, ready |-> ready, startReady |-> FALSE, slot |-> slot]

UnreadyFault(members, host) == members

\* Everyone but the host has to ready up again.
Unready(members, host) ==
    [p \in DOMAIN members |->
        IF p = host THEN members[p] ELSE [members[p] EXCEPT !.ready = FALSE]]

NoneStartReady(members) ==
    [p \in DOMAIN members |-> [members[p] EXCEPT !.startReady = FALSE]]

Seats(members) == [p \in DOMAIN members |-> members[p].slot]

\* The relay takes whatever it is given, also when it is closed.
CanAllocateFault(g, members) == g \notin DOMAIN relay

\* relay.Allocate accepts the members.
CanAllocate(g, members) ==
    /\ relayOpen
    /\ g \notin DOMAIN relay
    /\ \A p \in DOMAIN members : members[p].slot \in Slot
    /\ \A p, q \in DOMAIN members :
          p # q => members[p].slot # members[q].slot

\* relay.RemoveParticipant: only the participant who still holds the slot.
RemoveParticipant(g, p, slot) ==
    IF g \in DOMAIN relay /\ p \in DOMAIN relay[g] /\ relay[g][p] = slot
    THEN [relay EXCEPT ![g] = Without(@, {p})]
    ELSE relay

StopTimerFault(g) == timers

\* stopStartTimerLocked: Stop removes a timer that has not fired; the
\* callback of one that has is already waiting for h.mu.
StopTimer(g) == {t \in timers : t.game # g \/ t.fired}

\* The generation captured before the stop inside armStartTimerLocked.
ArmTimerFault(g, n) ==
    StopTimer(g) \union {[game |-> g, generation |-> n - 1, fired |-> FALSE]}

\* armStartTimerLocked, after its stop made the generation n.
ArmTimer(g, n) ==
    StopTimer(g) \union {[game |-> g, generation |-> n, fired |-> FALSE]}

\* The members who are still inside keep their userGame entry.
DissolveFault(g, gone, handled) ==
    /\ timers' = StopTimer(g) \ handled
    /\ relay' = Without(relay, {g})
    /\ userGame' = [p \in Player |->
                      IF p \in gone THEN NoGame ELSE userGame[p]]
    /\ games' = Without(games, {g})

\* dissolveGameLocked: every member, and those of gone who have just been
\* taken out of the members, are free again.  The callbacks in handled
\* have run: the runtime holds them no longer.
Dissolve(g, gone, handled) ==
    /\ timers' = StopTimer(g) \ handled
    /\ relay' = Without(relay, {g})
    /\ userGame' = [p \in Player |->
                      IF p \in DOMAIN games[g].members \union gone
                      THEN NoGame ELSE userGame[p]]
    /\ games' = Without(games, {g})

\* When a departure is the end of the game: an unlisted match, a start
\* under way, an open lobby without its host, a game without members.
LeavingDissolves(g, p) ==
    \/ ~ games[g].listed
    \/ games[g].state = "starting"
    \/ games[g].state = "open" /\ games[g].hostID = p
    \/ DOMAIN games[g].members \subseteq {p}

\* leaveGameLocked, for a user already cut off or still connected.
LeaveGame(p) ==
    LET g == userGame[p]
        stay == Without(games[g].members, {p})
    IN  \/ /\ g \notin DOMAIN games
           /\ userGame' = [userGame EXCEPT ![p] = NoGame]
           /\ UNCHANGED <<games, timers, relay>>
        \/ /\ g \in DOMAIN games
           /\ LeavingDissolves(g, p)
           /\ Dissolve(g, {p}, {})
        \/ /\ g \in DOMAIN games
           /\ ~ LeavingDissolves(g, p)
           /\ userGame' = [userGame EXCEPT ![p] = NoGame]
           /\ games' = [games EXCEPT ![g].members = stay]
           /\ relay' = IF games[g].state = "started"
                       THEN RemoveParticipant(g, p, games[g].members[p].slot)
                       ELSE relay
           /\ UNCHANGED timers

\* disconnectLocked.
DisconnectLocked(p) ==
    /\ clients' = [clients EXCEPT ![p] = NoClient]
    /\ matchQueue' = Without(matchQueue, {p})
    /\ LeaveGame(p)
    /\ UNCHANGED <<relayOpen, expiring>>

-----------------------------------------------------------------------------
(* Connections.                                                            *)

\* The game keeps the replaced connection.
ConnectFault(c) ==
    /\ Fresh(c)
    /\ clients' = [clients EXCEPT ![UserOf[c]] = c]
    /\ UNCHANGED <<games, userGame, matchQueue, timers, relayVars>>

\* Connect: the newer connection takes the user's place in clients and in
\* the game, but not in the match queue.
Connect(c) ==
    LET u == UserOf[c]
        g == userGame[u]
    IN  /\ Fresh(c)
        /\ clients' = [clients EXCEPT ![u] = c]
        /\ games' = IF g \in DOMAIN games /\ u \in DOMAIN games[g].members
                    THEN [games EXCEPT ![g].members[u].client = c]
                    ELSE games
        /\ UNCHANGED <<userGame, matchQueue, timers, relayVars>>

\* Disconnect, when the connection's read loop ends.  A connection that was
\* replaced or revoked is not its user's client any more: nothing happens.
Disconnect(c) ==
    /\ Active(c)
    /\ DisconnectLocked(UserOf[c])

AdminDisconnect(p) ==
    /\ clients[p] # NoClient
    /\ DisconnectLocked(p)

-----------------------------------------------------------------------------
(* Staging.                                                                *)

\* cfg.MaxStagedGames, asked by game.create and quickmatch.enqueue.
HasGameRoom == Cardinality(DOMAIN games) < MaxStagedGames

CreateGame(c, g, max, stats, key) ==
    LET u == UserOf[c]
    IN  /\ Active(c)
        /\ u \notin DOMAIN matchQueue
        /\ userGame[u] = NoGame
        /\ HasGameRoom
        /\ NewGameID(g)
        /\ games' = Put(games, g,
              [state |-> "open", listed |-> TRUE, hostID |-> u,
               maxPlayers |-> max, useStats |-> stats, readyKey |-> key,
               members |-> [p \in {u} |-> NewMember(c, FALSE, 0)],
               startedRoster |-> {}, resultsReported |-> FALSE,
               startGeneration |-> 0])
        /\ userGame' = [userGame EXCEPT ![u] = g]
        /\ UNCHANGED <<clients, matchQueue, timers, relayVars>>

\* A lobby whose start is under way takes another player.
JoinableStartingFault(g) ==
    /\ games[g].listed
    /\ games[g].state # "started"
    /\ Cardinality(DOMAIN games[g].members) < games[g].maxPlayers

\* What joinGame asks of the game.
Joinable(g) ==
    /\ games[g].listed
    /\ games[g].state = "open"
    /\ Cardinality(DOMAIN games[g].members) < games[g].maxPlayers

JoinGame(c, g) ==
    LET u == UserOf[c]
        members == games[g].members
    IN  /\ Active(c)
        /\ u \notin DOMAIN matchQueue
        /\ userGame[u] = NoGame
        /\ g \in DOMAIN games
        /\ Joinable(g)
        /\ games' = [games EXCEPT ![g].members =
              Put(@, u, NewMember(c, FALSE, FirstOpenSlot(members)))]
        /\ userGame' = [userGame EXCEPT ![u] = g]
        /\ UNCHANGED <<clients, matchQueue, timers, relayVars>>

LeaveGameCommand(c) ==
    /\ Active(c)
    /\ LeaveGame(UserOf[c])
    /\ UNCHANGED <<clients, matchQueue, relayOpen, expiring>>

\* updateGameOptions: a new ready key takes back what the others agreed to.
UpdateGameOptions(c, g, max, stats, key) ==
    LET game == games[g]
    IN  /\ InGame(c, g)
        /\ game.hostID = UserOf[c]
        /\ game.state = "open"
        /\ max >= Cardinality(DOMAIN game.members)
        /\ games' = [games EXCEPT ![g] =
              [game EXCEPT !.maxPlayers = max, !.useStats = stats,
                           !.readyKey = key,
                           !.members = IF key = game.readyKey THEN @
                                       ELSE Unready(@, game.hostID)]]
        /\ UNCHANGED <<clients, userGame, matchQueue, timers, relayVars>>

MarkGameReady(c, g, ready) ==
    /\ InGame(c, g)
    /\ games[g].state = "open"
    /\ games' = [games EXCEPT ![g].members[UserOf[c]].ready = ready]
    /\ UNCHANGED <<clients, userGame, matchQueue, timers, relayVars>>

KickGameMember(c, g, target) ==
    /\ InGame(c, g)
    /\ games[g].hostID = UserOf[c]
    /\ games[g].state = "open"
    /\ target # games[g].hostID
    /\ target \in DOMAIN games[g].members
    /\ LeaveGame(target)
    /\ UNCHANGED <<clients, matchQueue, relayOpen, expiring>>

-----------------------------------------------------------------------------
(* The start barrier.                                                      *)

\* startGame: a relay that refuses leaves the lobby as it was.
StartGame(c, g) ==
    LET game == games[g]
        members == game.members
        generation == game.startGeneration + 1
    IN  /\ InGame(c, g)
        /\ game.hostID = UserOf[c]
        /\ game.state = "open"
        /\ Cardinality(DOMAIN members) >= 2
        /\ \A p \in DOMAIN members \ {game.hostID} : members[p].ready
        /\ CanAllocate(g, members)
        /\ relay' = Put(relay, g, Seats(members))
        /\ timers' = ArmTimer(g, generation)
        /\ games' = [games EXCEPT ![g] =
              [game EXCEPT !.state = "starting", !.resultsReported = FALSE,
                           !.members = NoneStartReady(@),
                           !.startGeneration = generation]]
        /\ UNCHANGED <<clients, userGame, matchQueue, relayOpen, expiring>>

\* markGameStartReady: the last confirmation stops the timer, starts the
\* game and freezes its roster.  Repeated in a started game it only answers.
MarkGameStartReady(c, g) ==
    LET game == games[g]
        members == [game.members EXCEPT ![UserOf[c]].startReady = TRUE]
        allReady == \A p \in DOMAIN members : members[p].startReady
    IN  /\ InGame(c, g)
        /\ UserOf[c] \in DOMAIN game.members
        /\ game.state = "starting"
        /\ \/ /\ allReady
              /\ timers' = StopTimer(g)
              /\ games' = [games EXCEPT ![g] =
                    [game EXCEPT !.state = "started", !.members = members,
                                 !.startedRoster = DOMAIN members,
                                 !.startGeneration = @ + 1]]
           \/ /\ ~ allReady
              /\ games' = [games EXCEPT ![g].members = members]
              /\ UNCHANGED timers
        /\ UNCHANGED <<clients, userGame, matchQueue, relayVars>>

\* The runtime runs the callback of an armed timer: it now waits for h.mu.
TimerFires(t) ==
    /\ t \in timers
    /\ ~ t.fired
    /\ timers' = (timers \ {t}) \union {[t EXCEPT !.fired = TRUE]}
    /\ UNCHANGED <<clients, games, userGame, matchQueue, relayVars>>

\* A callback that only asks whether its game still exists.
AwaitedFault(t) == t.game \in DOMAIN games

\* The callback still speaks of the start it was armed for.
Awaited(t) ==
    /\ t.game \in DOMAIN games
    /\ games[t.game].state = "starting"
    /\ games[t.game].startGeneration = t.generation

HandleStartReadyTimeout(t) ==
    /\ t \in timers
    /\ t.fired
    /\ \/ /\ ~ Awaited(t)
          /\ timers' = timers \ {t}
          /\ UNCHANGED <<games, userGame, relay>>
       \/ /\ Awaited(t)
          /\ Dissolve(t.game, {}, {t})
    /\ UNCHANGED <<clients, matchQueue, relayOpen, expiring>>

-----------------------------------------------------------------------------
(* The end of a game.                                                      *)

\* endGame: the host, or anyone once the host has left.
EndGame(c, g) ==
    /\ InGame(c, g)
    /\ \/ games[g].hostID = UserOf[c]
       \/ games[g].hostID \notin DOMAIN games[g].members
    /\ Dissolve(g, {}, {})
    /\ UNCHANGED <<clients, matchQueue, relayOpen, expiring>>

AdminCloseGame(g) ==
    /\ g \in DOMAIN games
    /\ Dissolve(g, {}, {})
    /\ UNCHANGED <<clients, matchQueue, relayOpen, expiring>>

\* statsResults, once ApplyStatsBatch has committed; while it fails the
\* handler changes nothing and the report can be repeated.
StatsResults(c, g, reported) ==
    LET game == games[g]
    IN  /\ Active(c)
        /\ g \in DOMAIN games
        /\ UserOf[c] \in DOMAIN game.members
        /\ \/ game.hostID = UserOf[c]
           \/ game.hostID \notin DOMAIN game.members
        /\ game.state = "started"
        /\ ~ game.resultsReported
        /\ game.useStats
        /\ reported = game.startedRoster
        /\ games' = [games EXCEPT ![g].resultsReported = TRUE]
        /\ UNCHANGED <<clients, userGame, matchQueue, timers, relayVars>>

-----------------------------------------------------------------------------
(* Quick match.                                                            *)

\* The entries quickmatchEnqueue drops while it looks for an opponent.
Stale(p) ==
    \/ clients[p] # matchQueue[p].client
    \/ userGame[p] # NoGame

PurgedFault == matchQueue
Purged == Without(matchQueue, {p \in DOMAIN matchQueue : Stale(p)})

Opponents(k) ==
    {p \in DOMAIN matchQueue : ~ Stale(p) /\ matchQueue[p].key = k}

MatchedGame(c, p, generation) ==
    [state |-> "starting", listed |-> FALSE, hostID |-> p,
     maxPlayers |-> 2, useStats |-> FALSE, readyKey |-> EmptyKey,
     members |-> [q \in {p, UserOf[c]} |->
        IF q = p THEN NewMember(matchQueue[p].client, TRUE, 0)
                 ELSE NewMember(c, TRUE, 1)],
     startedRoster |-> {}, resultsReported |-> FALSE,
     startGeneration |-> generation]

\* quickmatchEnqueue of a user neither in a game nor queued (a queued user
\* is told again that the entry exists): wait, be matched, or be refused.
QuickmatchEnqueue(c, k) ==
    LET u == UserOf[c]
    IN  /\ Active(c)
        /\ userGame[u] = NoGame
        /\ u \notin DOMAIN matchQueue
        /\ \/ /\ Opponents(k) = {}
              /\ matchQueue' = Put(Purged, u, [client |-> c, key |-> k])
              /\ UNCHANGED stageVars
           \/ \E p \in Opponents(k), g \in GameId :
              LET game == MatchedGame(c, p, 1)
              IN  /\ HasGameRoom
                  /\ NewGameID(g)
                  /\ CanAllocate(g, game.members)
                  /\ matchQueue' = Without(Purged, {p})
                  /\ games' = Put(games, g, game)
                  /\ userGame' = [q \in Player |->
                        IF q \in {p, u} THEN g ELSE userGame[q]]
                  /\ relay' = Put(relay, g, Seats(game.members))
                  /\ timers' = ArmTimer(g, 1)
           \/ /\ Opponents(k) # {}
              /\ \/ ~ HasGameRoom
                 \/ ~ relayOpen
              /\ matchQueue' = Purged
              /\ UNCHANGED stageVars
        /\ UNCHANGED <<clients, relayOpen, expiring>>

QuickmatchCancel(c) ==
    /\ Active(c)
    /\ UserOf[c] \in DOMAIN matchQueue
    /\ matchQueue' = Without(matchQueue, {UserOf[c]})
    /\ UNCHANGED <<clients, relayOpen, expiring, stageVars>>

-----------------------------------------------------------------------------
(* The relay.                                                              *)

\* expireIdleGames under r.mu: the allocations that were idle are gone, the
\* callbacks to the hub come after the relay's mutex is released, and the
\* next sweep after them.
RelayExpires(expired) ==
    /\ expiring = {}
    /\ expired # {}
    /\ expired \subseteq DOMAIN relay
    /\ relay' = Without(relay, expired)
    /\ expiring' = expired
    /\ UNCHANGED <<clients, games, userGame, matchQueue, timers, relayOpen>>

\* The game has, or had, a relay allocation.
Running(g) ==
    g \in DOMAIN games /\ games[g].state \in {"starting", "started"}

HandleRelayGameExpired(g) ==
    /\ g \in expiring
    /\ expiring' = expiring \ {g}
    /\ \/ /\ Running(g)
          /\ Dissolve(g, {}, {})
       \/ /\ ~ Running(g)
          /\ UNCHANGED stageVars
    /\ UNCHANGED <<clients, matchQueue, relayOpen>>

\* relay.Close at shutdown.
RelayClose ==
    /\ relayOpen
    /\ relayOpen' = FALSE
    /\ relay' = Without(relay, DOMAIN relay)
    /\ UNCHANGED <<clients, games, userGame, matchQueue, timers, expiring>>

-----------------------------------------------------------------------------

Init ==
    /\ clients = [p \in Player |-> NoClient]
    /\ games = EmptyMap
    /\ userGame = [p \in Player |-> NoGame]
    /\ matchQueue = EmptyMap
    /\ timers = {}
    /\ relay = EmptyMap
    /\ relayOpen = TRUE
    /\ expiring = {}

Command(c) ==
    \/ \E g \in GameId, max \in 2 .. SlotCount, stats \in BOOLEAN,
          key \in ReadyKey :
          CreateGame(c, g, max, stats, key) \/ UpdateGameOptions(c, g, max, stats, key)
    \/ \E g \in GameId :
          \/ JoinGame(c, g)
          \/ StartGame(c, g)
          \/ MarkGameStartReady(c, g)
          \/ EndGame(c, g)
          \/ \E ready \in BOOLEAN : MarkGameReady(c, g, ready)
          \/ \E target \in Player : KickGameMember(c, g, target)
          \/ \E reported \in SUBSET Player : StatsResults(c, g, reported)
    \/ LeaveGameCommand(c)
    \/ \E k \in MatchKey : QuickmatchEnqueue(c, k)
    \/ QuickmatchCancel(c)

Next ==
    \/ \E c \in Client : Connect(c) \/ Disconnect(c) \/ Command(c)
    \/ \E p \in Player : AdminDisconnect(p)
    \/ \E g \in GameId : AdminCloseGame(g)
    \/ \E t \in timers : TimerFires(t) \/ HandleStartReadyTimeout(t)
    \/ \E expired \in SUBSET GameId : RelayExpires(expired)
    \/ \E g \in GameId : HandleRelayGameExpired(g)
    \/ RelayClose

Spec == Init /\ [][Next]_vars

\* time.AfterFunc runs the callback of a timer nobody stopped, a goroutine
\* that waits for h.mu gets it, and the relay's sweep calls the hub for
\* every game it dropped.  Nothing is assumed of clients or administrators.
Fairness ==
    \A g \in GameId :
        /\ WF_vars(\E t \in timers : t.game = g /\ TimerFires(t))
        /\ WF_vars(\E t \in timers :
                      t.game = g /\ HandleStartReadyTimeout(t))
        /\ WF_vars(HandleRelayGameExpired(g))

FairSpec == Spec /\ Fairness

-----------------------------------------------------------------------------
(* Type invariant.                                                         *)

\* Every variable holds a value of the Go type it models.
TypeOK ==
    /\ clients \in [Player -> Client \union {NoClient}]
    /\ IsGames(games)
    /\ userGame \in [Player -> GameId \union {NoGame}]
    /\ IsMap(matchQueue, Player, MatchEntry)
    /\ timers \subseteq Timer
    /\ IsRelay(relay)
    /\ relayOpen \in BOOLEAN
    /\ expiring \subseteq GameId

-----------------------------------------------------------------------------
(* Safety.                                                                 *)

\* h.userGame and the members maps are two views of one relation: a user
\* is a member of the game userGame names and of no other, after every
\* leave, kick, disconnect, timeout, expiry and administrative close.
MembershipAgrees ==
    \A p \in Player, g \in GameId :
        userGame[p] = g <=> g \in DOMAIN games /\ p \in DOMAIN games[g].members

\* Events of a game reach the connections its members really have: every
\* member is online and the game holds the live connection, also after
\* a newer connection replaced an older one.
MembersAreConnected ==
    \A g \in DOMAIN games : \A p \in DOMAIN games[g].members :
        /\ clients[p] # NoClient
        /\ games[g].members[p].client = clients[p]

\* A user waits for a quick match or is in a game, never both, and only
\* connected users wait.
QueuedUsersAreFree ==
    \A p \in DOMAIN matchQueue : userGame[p] = NoGame /\ clients[p] # NoClient

\* Two users who could be paired never wait side by side: the second of
\* them is matched when it asks (or refused and not queued).  It is also why
\* the search for the oldest opponent has at most one candidate.
QueueKeysDistinct ==
    \A p, q \in DOMAIN matchQueue :
        matchQueue[p].key = matchQueue[q].key => p = q

\* The queue holds what quickmatch.enqueue may pair: users who are free and
\* online, no two of whom could have been matched already, whatever
\* connections were replaced or lost and whatever games were joined since.
QueueIsSound == QueuedUsersAreFree /\ QueueKeysDistinct

\* Members of one game sit in different valid slots, whatever order of
\* joins, leaves and kicks came before; relay.Allocate relies on it.
SlotsAreDistinct ==
    \A g \in DOMAIN games : \A p, q \in DOMAIN games[g].members :
        /\ games[g].members[p].slot \in Slot
        /\ games[g].members[p].slot = games[g].members[q].slot => p = q

\* A game that has not started has its host in slot 0, a starting one has
\* at least two members, a running one is never empty, and there is never
\* more than a game's maxPlayers in it.
GamesAreManned ==
    \A g \in DOMAIN games :
        LET game == games[g]
        IN  /\ DOMAIN game.members # {}
            /\ Cardinality(DOMAIN game.members) <= game.maxPlayers
            /\ game.state # "started" =>
                  /\ game.hostID \in DOMAIN game.members
                  /\ game.members[game.hostID].slot = 0
            /\ game.state = "starting" =>
                  Cardinality(DOMAIN game.members) >= 2

\* The roster frozen at game.go covers everyone still playing, so a result
\* for each of them is possible; results exist for started games only.
RosterCoversMembers ==
    \A g \in DOMAIN games :
        IF games[g].state = "started"
        THEN DOMAIN games[g].members \subseteq games[g].startedRoster
        ELSE games[g].startedRoster = {} /\ ~ games[g].resultsReported

\* What every handler may expect of a game, after any order of joins, leaves,
\* kicks, starts, departures and reports.
GamesAreSound == SlotsAreDistinct /\ GamesAreManned /\ RosterCoversMembers

\* No allocation outlives its game, and the relay lets exactly the members
\* of the game speak, each from the slot the game gave him.
RelayServesMembers ==
    \A g \in DOMAIN relay :
        /\ g \in DOMAIN games
        /\ Running(g)
        /\ relay[g] = Seats(games[g].members)

\* A running game without an allocation is one the relay has just expired,
\* and its callback is on the way; only a closed relay strands games.
RunningGamesHaveRelay ==
    \A g \in DOMAIN games :
        Running(g) =>
            g \in DOMAIN relay \/ g \in expiring \/ ~ relayOpen

\* The start timer and the barrier agree: every starting game has one timer
\* of its current generation, and no armed timer belongs to anything else.
StartTimerMatches ==
    /\ \A g \in DOMAIN games : games[g].state = "starting" =>
          \E t \in timers : /\ t.game = g
                            /\ t.generation = games[g].startGeneration
    /\ \A t \in timers : ~ t.fired =>
          /\ t.game \in DOMAIN games
          /\ games[t.game].state = "starting"
          /\ games[t.game].startGeneration = t.generation

\* A game, its start timer and its allocation in the relay are in the same
\* stage, although the timer fires and the relay expires by themselves.
StagesAgree == RelayServesMembers /\ RunningGamesHaveRelay /\ StartTimerMatches

-----------------------------------------------------------------------------
(* Action properties.                                                      *)

\* Once a start is under way nobody can enter the game; after game.go its
\* roster, host and seats stay what they were, and a reported result stays
\* reported: started games never reopen "stale staging state".
RunningGamesOnlyShrink ==
    [][\A g \in DOMAIN games \intersect DOMAIN games' :
          games[g].state # "open" =>
             /\ games'[g].state # "open"
             /\ DOMAIN games'[g].members \subseteq DOMAIN games[g].members
             /\ \A p \in DOMAIN games'[g].members :
                   games'[g].members[p].slot = games[g].members[p].slot
             /\ games'[g].hostID = games[g].hostID
             /\ games[g].state = "started" =>
                   /\ games'[g].state = "started"
                   /\ games'[g].startedRoster = games[g].startedRoster
                   /\ games[g].resultsReported => games'[g].resultsReported]_vars

\* A start timer whose callback comes late, after game.go or after the game
\* it was armed for was dissolved, ends nothing: the promise of
\* docs/PROTOCOL.md:359 for the window in which Stop came too late.
LateTimeoutsAreHarmless ==
    [][\A t \in timers :
          /\ HandleStartReadyTimeout(t)
          /\ \E g \in DOMAIN games : games[g].state = "started"
          => \A g \in DOMAIN games :
                games[g].state = "started" =>
                   g \in DOMAIN games' /\ games'[g] = games[g]]_vars

\* A listed game that has started goes on without those who leave it or
\* lose their connection, the host included, while anyone is left, and they
\* lose nothing but their seat in the relay (docs/PROTOCOL.md:362).
StartedGamesSurviveDepartures ==
    [][\A g \in DOMAIN games, p \in Player :
          /\ games[g].listed
          /\ games[g].state = "started"
          /\ p \in DOMAIN games[g].members
          /\ DOMAIN games[g].members # {p}
          /\ \E c \in Client : UserOf[c] = p /\ (LeaveGameCommand(c) \/ Disconnect(c))
          => /\ g \in DOMAIN games'
             /\ games'[g].members = Without(games[g].members, {p})
             /\ g \in DOMAIN relay => relay'[g] = Without(relay[g], {p})]_vars

\* What has started goes on as it began, for those who stay.
StartedGamesKeepTheirTerms ==
    RunningGamesOnlyShrink /\ StartedGamesSurviveDepartures

\* A ready flag is an agreement to the current ready key: a host who starts
\* does so on terms every other member accepted, since a changed key leaves
\* no flag standing and nobody but the member sets his own.
ReadinessIsConsent ==
    [][\A g \in DOMAIN games \intersect DOMAIN games' :
          \A p \in DOMAIN games'[g].members \ {games[g].hostID} :
             games'[g].members[p].ready =>
                /\ p \in DOMAIN games[g].members
                /\ \/ games[g].members[p].ready
                   \/ \E c \in Client : UserOf[c] = p /\ MarkGameReady(c, g, TRUE)
                /\ games'[g].readyKey = games[g].readyKey]_vars

-----------------------------------------------------------------------------
(* Liveness.                                                               *)

\* No start hangs: a starting game reaches game.go or is dissolved, even if
\* its members never answer and the host never cancels.
StartsResolve ==
    \A g \in GameId :
        g \in DOMAIN games /\ games[g].state = "starting"
        ~> g \notin DOMAIN games \/ games[g].state # "starting"

\* A game whose allocation the relay expired does not linger: its members
\* are released (docs/PROTOCOL.md:377).
ExpiredGamesEnd ==
    \A g \in GameId :
        g \in expiring ~> g \notin expiring /\ g \notin DOMAIN games

\* Neither the barrier of a start nor a lost relay holds a game for ever.
StagesEnd == StartsResolve /\ ExpiredGamesEnd

-----------------------------------------------------------------------------
(* The relay, as the hub uses it.                                          *)

RelayOfTheHub ==
    INSTANCE RelaySeats WITH seats <- relay, open <- relayOpen, User <- Player

\* The hub uses the relay as Relay.tla promises to serve it: it allocates for
\* an id that is free and in distinct seats, changes no seat in any other
\* way than the relay's calls, never counts on a relay that was closed, and
\* takes in whatever the sweep tells it.
UsesRelaySeats == RelayOfTheHub!Spec

-----------------------------------------------------------------------------
(* What docs/PROTOCOL.md:467 says of quick match: "Re-enqueue is idempotent *)
(* and retains the original key until quickmatch.cancel".                   *)

\* A connected user who was queued stays queued until matched or cancelled.
\* The code drops the entry of a user whose connection was replaced, even
\* after the new connection enqueued again and was told it is queued.
QueuedUntilCancelled ==
    [][\A p \in DOMAIN matchQueue \ DOMAIN matchQueue' :
          \/ clients'[p] = NoClient
          \/ userGame'[p] # NoGame
          \/ \E c \in Client : UserOf[c] = p /\ QuickmatchCancel(c)]_vars
=============================================================================
