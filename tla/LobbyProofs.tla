---------------------------- MODULE LobbyProofs ----------------------------
(***************************************************************************)
(* Proofs about Lobby, for any number of users, connections, games and     *)
(* slots.                                                                  *)
(***************************************************************************)
EXTENDS Lobby, TLAPS, WellFoundedInduction

-----------------------------------------------------------------------------
(* Maps.                                                                   *)

\* Storing a value of the right type keeps a map a map.
LEMMA PutMap ==
    ASSUME NEW S, NEW T, NEW f, IsMap(f, S, T), NEW k \in S, NEW v \in T
    PROVE  IsMap(Put(f, k, v), S, T)
BY DEF IsMap, Put

\* Deleting keys keeps a map a map.
LEMMA WithoutMap ==
    ASSUME NEW S, NEW T, NEW f, IsMap(f, S, T), NEW D
    PROVE  IsMap(Without(f, D), S, T)
BY DEF IsMap, Without

\* Adding a game, or replacing one, keeps h.games well formed.
LEMMA PutGames ==
    ASSUME NEW f, IsGames(f), NEW g \in GameId, NEW x, IsStagedGame(x)
    PROVE  IsGames(Put(f, g, x))
BY DEF IsGames, Put

\* A game that becomes another one keeps the map of games.
LEMMA ExceptGames ==
    ASSUME NEW f, IsGames(f), NEW g \in DOMAIN f, NEW x, IsStagedGame(x)
    PROVE  IsGames([f EXCEPT ![g] = x])
BY DEF IsGames

\* And so do games that go.
LEMMA WithoutGames ==
    ASSUME NEW f, IsGames(f), NEW D
    PROVE  IsGames(Without(f, D))
BY DEF IsGames, Without

\* The same for the relay's allocations.
LEMMA PutRelay ==
    ASSUME NEW f, IsRelay(f), NEW g \in GameId, NEW x, IsMap(x, Player, Slot)
    PROVE  IsRelay(Put(f, g, x))
BY DEF IsRelay, Put

\* And allocations that go.
LEMMA WithoutRelay ==
    ASSUME NEW f, IsRelay(f), NEW D
    PROVE  IsRelay(Without(f, D))
BY DEF IsRelay, Without

\* RemoveParticipant only takes seats away.
LEMMA RemoveParticipantType ==
    ASSUME IsRelay(relay), NEW g, NEW p, NEW slot
    PROVE  IsRelay(RemoveParticipant(g, p, slot))
<1>1. CASE g \in DOMAIN relay
  <2>1. IsMap(Without(relay[g], {p}), Player, Slot)
    BY <1>1, WithoutMap DEF IsRelay
  <2>2. IsRelay([relay EXCEPT ![g] = Without(@, {p})])
    BY <1>1, <2>1 DEF IsRelay
  <2> QED BY <2>2 DEF RemoveParticipant
<1>2. CASE g \notin DOMAIN relay
  BY <1>2 DEF RemoveParticipant
<1> QED BY <1>1, <1>2

\* Arming a timer adds one timer of the game.
LEMMA ArmTimerType ==
    ASSUME timers \subseteq Timer, NEW g \in GameId, NEW n \in Nat
    PROVE  ArmTimer(g, n) \subseteq Timer
<1>1. [game |-> g, generation |-> n, fired |-> FALSE] \in Timer
  BY DEF Timer
<1>2. StopTimer(g) \subseteq Timer
  BY DEF StopTimer
<1> QED BY <1>1, <1>2 DEF ArmTimer

\* A game with new readiness, a new state and one more timer generation is
\* still a game.
LEMMA AdvanceGame ==
    ASSUME NEW game, IsStagedGame(game), NEW state \in GameState,
           NEW m, IsMap(m, Player, Member), NEW roster \in SUBSET Player,
           NEW reported \in BOOLEAN
    PROVE  IsStagedGame([game EXCEPT !.state = state, !.members = m,
              !.startedRoster = roster, !.resultsReported = reported,
              !.startGeneration = game.startGeneration + 1])
<1> DEFINE n == game.startGeneration + 1
           new == [game EXCEPT !.state = state, !.members = m,
              !.startedRoster = roster, !.resultsReported = reported,
              !.startGeneration = n]
<1>1. n \in Nat BY DEF IsStagedGame
<1> HIDE DEF n
<1>2. new.members = m BY DEF IsStagedGame
<1>3. new \in [state: GameState, listed: BOOLEAN, hostID: Player,
               maxPlayers: 2 .. SlotCount, useStats: BOOLEAN,
               readyKey: ReadyKey, members: [DOMAIN m -> Member],
               startedRoster: SUBSET Player, resultsReported: BOOLEAN,
               startGeneration: Nat]
  BY <1>1 DEF IsStagedGame, IsMap
<1>4. IsStagedGame(new) BY <1>2, <1>3 DEF IsStagedGame, IsMap
<1> QED BY <1>4 DEF n

\* firstOpenSlot answers a slot nobody holds, or -1.
LEMMA FirstOpenSlotType ==
    ASSUME NEW members
    PROVE  /\ FirstOpenSlot(members) \in -1 .. SlotCount - 1
           /\ FirstOpenSlot(members) # -1 =>
                 /\ FirstOpenSlot(members) \in Slot
                 /\ \A p \in DOMAIN members :
                       members[p].slot # FirstOpenSlot(members)
<1> DEFINE free == Slot \ {members[p].slot : p \in DOMAIN members}
<1>1. CASE free = {}
  BY <1>1, SlotCountAssumption DEF FirstOpenSlot
<1>2. CASE free # {}
  <2>1. free \subseteq Nat
    BY SlotCountAssumption DEF Slot
  <2>2. PICK x \in free : \A y \in free : ~ (<<y, x>> \in OpToRel(<, Nat))
    BY <1>2, <2>1, NatLessThanWellFounded, WFMin, Zenon
  <2>3. ASSUME NEW y \in free PROVE x =< y
    <3>1. x \in Nat /\ y \in Nat
      BY <2>1
    <3>2. ~ (y < x)
      BY <2>2, <3>1, Zenon DEF OpToRel
    <3> QED BY <3>1, <3>2
  <2>4. Min(free) \in free
    BY <2>3 DEF Min
  <2>5. FirstOpenSlot(members) = Min(free)
    BY <1>2 DEF FirstOpenSlot
  <2> HIDE DEF free
  <2>6. FirstOpenSlot(members) \in free
    BY <2>4, <2>5
  <2> QED BY <2>6, SlotCountAssumption DEF free, Slot
<1> QED BY <1>1, <1>2

\* Changing the members of one game to other well formed members.
LEMMA SetMembers ==
    ASSUME IsGames(games), NEW g \in DOMAIN games, NEW m,
           IsMap(m, Player, Member)
    PROVE  IsGames([games EXCEPT ![g].members = m])
<1>1. IsStagedGame(games[g])
  BY DEF IsGames
<1>2. IsStagedGame([games[g] EXCEPT !.members = m])
  BY <1>1 DEF IsStagedGame, IsMap
<1> QED BY <1>2, ExceptGames

-----------------------------------------------------------------------------
(* Type correctness.                                                       *)

\* The part of TypeOK the endings and departures touch.
StageOK ==
    /\ IsGames(games)
    /\ userGame \in [Player -> GameId \union {NoGame}]
    /\ timers \subseteq Timer
    /\ IsRelay(relay)

\* The connection every Command runs for belongs to a user.
LEMMA ActiveUser ==
    ASSUME TypeOK, NEW c \in Client
    PROVE  UserOf[c] \in Player
BY UserOfAssumption

\* dissolveGameLocked keeps the stage well formed.
LEMMA DissolveType ==
    ASSUME TypeOK, NEW g, NEW gone, NEW handled, Dissolve(g, gone, handled)
    PROVE  StageOK'
<1>1. IsGames(games')
  BY WithoutGames DEF TypeOK, Dissolve
<1>2. IsRelay(relay')
  BY WithoutRelay DEF TypeOK, Dissolve
<1>3. userGame' \in [Player -> GameId \union {NoGame}]
  BY DEF TypeOK, Dissolve
<1>4. timers' \subseteq Timer
  BY DEF TypeOK, Dissolve, StopTimer
<1> QED BY <1>1, <1>2, <1>3, <1>4 DEF StageOK, IsGames, IsRelay

\* leaveGameLocked keeps the stage well formed.
LEMMA LeaveGameType ==
    ASSUME TypeOK, NEW p \in Player, LeaveGame(p)
    PROVE  StageOK'
<1> DEFINE g == userGame[p]
           stay == Without(games[g].members, {p})
<1>1. CASE /\ g \notin DOMAIN games
           /\ userGame' = [userGame EXCEPT ![p] = NoGame]
           /\ UNCHANGED <<games, timers, relay>>
  BY <1>1 DEF TypeOK, StageOK, IsGames, IsRelay
<1>2. CASE Dissolve(g, {p}, {})
  BY <1>2, DissolveType
<1>3. CASE /\ g \in DOMAIN games
           /\ userGame' = [userGame EXCEPT ![p] = NoGame]
           /\ games' = [games EXCEPT ![g].members = stay]
           /\ relay' = IF games[g].state = "started"
                       THEN RemoveParticipant(g, p, games[g].members[p].slot)
                       ELSE relay
           /\ UNCHANGED timers
  <2>1. IsStagedGame(games[g])
    BY <1>3 DEF TypeOK, IsGames
  <2>2. IsMap(games[g].members, Player, Member)
    BY <2>1 DEF IsStagedGame, IsMap
  <2>3. IsMap(stay, Player, Member)
    BY <2>2, WithoutMap
  <2>4. IsGames(games')
    BY <1>3, <2>3, SetMembers DEF TypeOK
  <2>5. IsRelay(relay')
    BY <1>3, RemoveParticipantType DEF TypeOK
  <2>6. userGame' \in [Player -> GameId \union {NoGame}]
    BY <1>3 DEF TypeOK
  <2>7. timers' \subseteq Timer
    BY <1>3 DEF TypeOK
  <2> QED BY <2>4, <2>5, <2>6, <2>7 DEF StageOK, IsGames, IsRelay
<1> QED BY <1>1, <1>2, <1>3 DEF LeaveGame

\* Every step of the hub, its clients, its timers and the relay preserves
\* the types.
LEMMA TypeStep ==
    ASSUME TypeOK, [Next]_vars
    PROVE  TypeOK'
<1> USE DEF stageVars, relayVars
<1>1. ASSUME NEW c \in Client, Connect(c) PROVE TypeOK'
  <2> DEFINE u == UserOf[c]
             g == userGame[u]
  <2>1. u \in Player /\ clients' \in [Player -> Client \union {NoClient}]
    BY <1>1, ActiveUser DEF TypeOK, Connect
  <2>2. IsGames(games')
    <3>1. CASE g \in DOMAIN games /\ u \in DOMAIN games[g].members
      <4>1. IsStagedGame(games[g]) BY <3>1 DEF TypeOK, IsGames
      <4>2. IsMap([games[g].members EXCEPT ![u].client = c], Player, Member)
        BY <3>1, <4>1, <2>1 DEF IsStagedGame, IsMap, Member
      <4>3. games' = [games EXCEPT ![g].members = [games[g].members EXCEPT ![u].client = c]]
        BY <1>1, <3>1 DEF Connect
      <4> QED BY <3>1, <4>2, <4>3, SetMembers DEF TypeOK
    <3>2. CASE ~ (g \in DOMAIN games /\ u \in DOMAIN games[g].members)
      BY <1>1, <3>2 DEF Connect, TypeOK
    <3> QED BY <3>1, <3>2
  <2> QED BY <1>1, <2>1, <2>2 DEF TypeOK, Connect, IsGames, IsRelay, IsMap
<1>2. ASSUME NEW p \in Player, DisconnectLocked(p) PROVE TypeOK'
  <2>1. StageOK' BY <1>2, LeaveGameType DEF DisconnectLocked
  <2>2. IsMap(matchQueue', Player, MatchEntry)
    BY <1>2, WithoutMap DEF DisconnectLocked, TypeOK
  <2> QED BY <1>2, <2>1, <2>2 DEF TypeOK, StageOK, DisconnectLocked, IsMap
<1>3. ASSUME NEW p \in Player, LeaveGame(p),
             UNCHANGED <<clients, matchQueue, relayOpen, expiring>>
      PROVE  TypeOK'
  BY <1>3, LeaveGameType DEF TypeOK, StageOK, IsMap
<1>4. ASSUME NEW g, NEW gone, NEW handled, Dissolve(g, gone, handled),
             UNCHANGED <<clients, matchQueue, relayOpen>>,
             expiring' \subseteq expiring
      PROVE  TypeOK'
  BY <1>4, DissolveType DEF TypeOK, StageOK, IsMap
<1>5. ASSUME NEW c \in Client, NEW g \in GameId, NEW max \in 2 .. SlotCount,
             NEW stats \in BOOLEAN, NEW key \in ReadyKey,
             CreateGame(c, g, max, stats, key)
      PROVE  TypeOK'
  <2>1. NewMember(c, FALSE, 0) \in Member
    BY SlotCountAssumption DEF NewMember, Member
  <2>2. UserOf[c] \in Player BY ActiveUser
  <2> DEFINE game == [state |-> "open", listed |-> TRUE, hostID |-> UserOf[c],
               maxPlayers |-> max, useStats |-> stats, readyKey |-> key,
               members |-> [p \in {UserOf[c]} |-> NewMember(c, FALSE, 0)],
               startedRoster |-> {}, resultsReported |-> FALSE,
               startGeneration |-> 0]
  <2>3. IsStagedGame(game)
    BY <2>1, <2>2 DEF IsStagedGame, GameState
  <2>4. IsGames(games')
    BY <1>5, <2>3, PutGames DEF CreateGame, TypeOK
  <2> QED BY <1>5, <2>2, <2>4 DEF CreateGame, TypeOK, IsGames, IsRelay, IsMap
<1>6. ASSUME NEW c \in Client, NEW g \in GameId, JoinGame(c, g)
      PROVE  TypeOK'
  <2>1. g \in DOMAIN games /\ UserOf[c] \in Player
    BY <1>6, ActiveUser DEF JoinGame
  <2>2. IsMap(games[g].members, Player, Member)
    BY <2>1 DEF TypeOK, IsGames, IsStagedGame, IsMap
  <2>3. NewMember(c, FALSE, FirstOpenSlot(games[g].members)) \in Member
    BY FirstOpenSlotType DEF NewMember, Member
  <2>4. IsMap(Put(games[g].members, UserOf[c],
                  NewMember(c, FALSE, FirstOpenSlot(games[g].members))),
              Player, Member)
    BY <2>1, <2>2, <2>3, PutMap
  <2>5. IsGames(games')
    BY <1>6, <2>1, <2>4, SetMembers DEF JoinGame, TypeOK
  <2> QED BY <1>6, <2>1, <2>5 DEF JoinGame, TypeOK, IsGames, IsRelay, IsMap
<1>7. ASSUME NEW c \in Client, NEW g \in GameId, NEW max \in 2 .. SlotCount,
             NEW stats \in BOOLEAN, NEW key \in ReadyKey,
             UpdateGameOptions(c, g, max, stats, key)
      PROVE  TypeOK'
  <2>1. g \in DOMAIN games /\ IsStagedGame(games[g])
    BY <1>7 DEF UpdateGameOptions, InGame, TypeOK, IsGames
  <2> DEFINE game == games[g]
             new == [game EXCEPT !.maxPlayers = max, !.useStats = stats,
                           !.readyKey = key,
                           !.members = IF key = game.readyKey THEN @
                                       ELSE Unready(@, game.hostID)]
  <2>2. IsMap(Unready(game.members, game.hostID), Player, Member)
    BY <2>1 DEF IsStagedGame, IsMap, Unready, Member
  <2>3. IsStagedGame(new)
    BY <2>1, <2>2 DEF IsStagedGame, IsMap
  <2>4. IsGames(games')
    BY <1>7, <2>1, <2>3, ExceptGames DEF UpdateGameOptions, TypeOK
  <2> QED BY <1>7, <2>4 DEF UpdateGameOptions, TypeOK, IsGames, IsRelay, IsMap
<1>8. ASSUME NEW c \in Client, NEW g \in GameId, NEW ready \in BOOLEAN,
             MarkGameReady(c, g, ready)
      PROVE  TypeOK'
  <2>1. g \in DOMAIN games /\ IsStagedGame(games[g])
    BY <1>8 DEF MarkGameReady, InGame, TypeOK, IsGames
  <2>2. IsMap([games[g].members EXCEPT ![UserOf[c]].ready = ready], Player, Member)
    BY <2>1 DEF IsStagedGame, IsMap, Member
  <2>3. IsGames(games')
    BY <1>8, <2>1, <2>2, SetMembers DEF MarkGameReady, TypeOK
  <2> QED BY <1>8, <2>3 DEF MarkGameReady, TypeOK, IsGames, IsRelay, IsMap
<1>9. ASSUME NEW c \in Client, NEW g \in GameId, StartGame(c, g)
      PROVE  TypeOK'
  <2>1. g \in DOMAIN games /\ IsStagedGame(games[g])
    BY <1>9 DEF StartGame, InGame, TypeOK, IsGames
  <2> DEFINE game == games[g]
             new == [game EXCEPT !.state = "starting", !.resultsReported = FALSE,
                           !.members = NoneStartReady(@),
                           !.startGeneration = game.startGeneration + 1]
  <2>2. IsMap(NoneStartReady(game.members), Player, Member)
    BY <2>1 DEF IsStagedGame, IsMap, NoneStartReady, Member
  <2>3. IsStagedGame(new)
    <3>1. new = [game EXCEPT !.state = "starting",
              !.members = NoneStartReady(game.members),
              !.startedRoster = game.startedRoster, !.resultsReported = FALSE,
              !.startGeneration = game.startGeneration + 1]
      BY <2>1 DEF IsStagedGame
    <3>2. game.startedRoster \in SUBSET Player BY <2>1 DEF IsStagedGame
    <3>3. "starting" \in GameState BY DEF GameState
    <3> HIDE DEF new
    <3> QED BY <2>1, <2>2, <3>1, <3>2, <3>3, AdvanceGame
  <2>4. IsGames(games')
    BY <1>9, <2>1, <2>3, ExceptGames DEF StartGame, TypeOK
  <2>5. IsMap(Seats(game.members), Player, Slot)
    BY <1>9, <2>1 DEF StartGame, CanAllocate, Seats, IsMap, IsStagedGame
  <2>6. IsRelay(relay')
    BY <1>9, <2>5, PutRelay DEF StartGame, TypeOK
  <2>7. timers' \subseteq Timer
    BY <1>9, <2>1, ArmTimerType DEF StartGame, TypeOK, IsStagedGame
  <2> QED BY <1>9, <2>4, <2>6, <2>7 DEF StartGame, TypeOK, IsGames, IsRelay, IsMap
<1>10. ASSUME NEW c \in Client, NEW g \in GameId, MarkGameStartReady(c, g)
       PROVE  TypeOK'
  <2>1. g \in DOMAIN games /\ IsStagedGame(games[g])
    BY <1>10 DEF MarkGameStartReady, InGame, TypeOK, IsGames
  <2> DEFINE game == games[g]
             members == [game.members EXCEPT ![UserOf[c]].startReady = TRUE]
             new == [game EXCEPT !.state = "started", !.members = members,
                                 !.startedRoster = DOMAIN members,
                                 !.startGeneration = @ + 1]
  <2>2. IsMap(members, Player, Member)
    BY <2>1 DEF IsStagedGame, IsMap, Member
  <2>3. IsStagedGame(new)
    <3>1. new = [game EXCEPT !.state = "started", !.members = members,
              !.startedRoster = DOMAIN members,
              !.resultsReported = game.resultsReported,
              !.startGeneration = game.startGeneration + 1]
      BY <2>1 DEF IsStagedGame
    <3>2. game.resultsReported \in BOOLEAN BY <2>1 DEF IsStagedGame
    <3>3. "started" \in GameState BY DEF GameState
    <3>4. DOMAIN members \in SUBSET Player BY <2>2 DEF IsMap
    <3> HIDE DEF new, members
    <3> QED BY <2>1, <2>2, <3>1, <3>2, <3>3, <3>4, AdvanceGame
  <2>4. IsGames([games EXCEPT ![g] = new])
    BY <2>1, <2>3, ExceptGames DEF TypeOK
  <2>5. IsGames([games EXCEPT ![g].members = members])
    BY <2>1, <2>2, SetMembers DEF TypeOK
  <2>6. timers' \subseteq Timer
    BY <1>10 DEF MarkGameStartReady, StopTimer, TypeOK
  <2>7. IsGames(games')
    BY <1>10, <2>4, <2>5 DEF MarkGameStartReady
  <2> QED BY <1>10, <2>6, <2>7 DEF MarkGameStartReady, TypeOK, IsGames, IsRelay, IsMap
<1>11. ASSUME NEW t \in timers, TimerFires(t) PROVE TypeOK'
  BY <1>11 DEF TimerFires, TypeOK, Timer, IsGames, IsRelay, IsMap
<1>12. ASSUME NEW t \in timers, HandleStartReadyTimeout(t) PROVE TypeOK'
  <2>1. CASE timers' = timers \ {t} /\ UNCHANGED <<games, userGame, relay>>
    BY <1>12, <2>1 DEF HandleStartReadyTimeout, TypeOK, IsGames, IsRelay, IsMap
  <2>2. CASE Dissolve(t.game, {}, {t})
    BY <1>12, <2>2, <1>4 DEF HandleStartReadyTimeout
  <2> QED BY <1>12, <2>1, <2>2 DEF HandleStartReadyTimeout
<1>13. ASSUME NEW c \in Client, NEW g \in GameId, EndGame(c, g) PROVE TypeOK'
  BY <1>13, <1>4 DEF EndGame
<1>14. ASSUME NEW g \in GameId, AdminCloseGame(g) PROVE TypeOK'
  BY <1>14, <1>4 DEF AdminCloseGame
<1>15. ASSUME NEW c \in Client, NEW g \in GameId, NEW reported \in SUBSET Player,
              StatsResults(c, g, reported)
       PROVE  TypeOK'
  <2>1. g \in DOMAIN games /\ IsStagedGame(games[g])
    BY <1>15 DEF StatsResults, TypeOK, IsGames
  <2>2. IsStagedGame([games[g] EXCEPT !.resultsReported = TRUE])
    BY <2>1 DEF IsStagedGame
  <2>3. IsGames(games')
    BY <1>15, <2>1, <2>2, ExceptGames DEF StatsResults, TypeOK
  <2> QED BY <1>15, <2>3 DEF StatsResults, TypeOK, IsGames, IsRelay, IsMap
<1>16. ASSUME NEW c \in Client, NEW k \in MatchKey, QuickmatchEnqueue(c, k)
       PROVE  TypeOK'
  <2>1. IsMap(Purged, Player, MatchEntry)
    BY WithoutMap DEF Purged, TypeOK
  <2>2. UserOf[c] \in Player BY ActiveUser
  <2>3. CASE matchQueue' = Put(Purged, UserOf[c], [client |-> c, key |-> k])
             /\ UNCHANGED stageVars
    <3>1. [client |-> c, key |-> k] \in MatchEntry BY DEF MatchEntry
    <3>2. IsMap(matchQueue', Player, MatchEntry)
      BY <2>1, <2>2, <2>3, <3>1, PutMap
    <3> QED BY <1>16, <2>3, <3>2 DEF QuickmatchEnqueue, TypeOK, IsGames, IsRelay, IsMap
  <2>4. CASE matchQueue' = Purged /\ UNCHANGED stageVars
    BY <1>16, <2>1, <2>4 DEF QuickmatchEnqueue, TypeOK, IsGames, IsRelay, IsMap
  <2>5. ASSUME NEW p \in Opponents(k), NEW g \in GameId,
               CanAllocate(g, MatchedGame(c, p, 1).members),
               matchQueue' = Without(Purged, {p}),
               games' = Put(games, g, MatchedGame(c, p, 1)),
               userGame' = [q \in Player |->
                  IF q \in {p, UserOf[c]} THEN g ELSE userGame[q]],
               relay' = Put(relay, g, Seats(MatchedGame(c, p, 1).members)),
               timers' = ArmTimer(g, 1)
        PROVE  TypeOK'
    <3> DEFINE game == MatchedGame(c, p, 1)
    <3>1. p \in Player /\ matchQueue[p].client \in Client
      BY <2>1 DEF Opponents, IsMap, MatchEntry, TypeOK
    <3>2. /\ NewMember(matchQueue[p].client, TRUE, 0) \in Member
          /\ NewMember(c, TRUE, 1) \in Member
      BY <3>1, SlotCountAssumption DEF NewMember, Member
    <3>3. IsMap(game.members, Player, Member)
      BY <3>1, <3>2, <2>2 DEF MatchedGame, IsMap
    <3>4. IsStagedGame(game)
      <4> DEFINE m == game.members
      <4>1. game = [state |-> "starting", listed |-> FALSE, hostID |-> p,
              maxPlayers |-> 2, useStats |-> FALSE, readyKey |-> EmptyKey,
              members |-> m, startedRoster |-> {},
              resultsReported |-> FALSE, startGeneration |-> 1]
        BY DEF MatchedGame
      <4>2. IsMap(m, Player, Member) BY <3>3
      <4> HIDE DEF game, m
      <4> QED
        BY <3>1, <4>1, <4>2, SlotCountAssumption, EmptyKeyAssumption
        DEF IsStagedGame, IsMap, GameState
    <3>5. IsGames(games')
      BY <2>5, <3>4, PutGames DEF TypeOK
    <3>6. IsMap(Seats(game.members), Player, Slot)
      BY <2>5, <3>3 DEF CanAllocate, Seats, IsMap
    <3>7. IsRelay(relay')
      BY <2>5, <3>6, PutRelay DEF TypeOK
    <3>8. timers' \subseteq Timer
      BY <2>5, ArmTimerType DEF TypeOK
    <3>9. IsMap(matchQueue', Player, MatchEntry)
      BY <2>1, <2>5, WithoutMap
    <3>10. userGame' \in [Player -> GameId \union {NoGame}]
      BY <2>5 DEF TypeOK
    <3> QED
      BY <1>16, <3>5, <3>7, <3>8, <3>9, <3>10
      DEF QuickmatchEnqueue, TypeOK, IsGames, IsRelay, IsMap
  <2> QED BY <1>16, <2>3, <2>4, <2>5 DEF QuickmatchEnqueue
<1>17. ASSUME NEW c \in Client, QuickmatchCancel(c) PROVE TypeOK'
  <2>1. IsMap(matchQueue', Player, MatchEntry)
    BY <1>17, WithoutMap DEF QuickmatchCancel, TypeOK
  <2> QED BY <1>17, <2>1 DEF QuickmatchCancel, TypeOK, IsGames, IsRelay, IsMap
<1>18. ASSUME NEW expired \in SUBSET GameId, RelayExpires(expired)
       PROVE  TypeOK'
  <2>1. IsRelay(relay') BY <1>18, WithoutRelay DEF RelayExpires, TypeOK
  <2> QED BY <1>18, <2>1 DEF RelayExpires, TypeOK, IsGames, IsRelay, IsMap
<1>19. ASSUME NEW g \in GameId, HandleRelayGameExpired(g) PROVE TypeOK'
  <2>1. CASE UNCHANGED stageVars
    BY <1>19, <2>1 DEF HandleRelayGameExpired, TypeOK, IsGames, IsRelay, IsMap
  <2>2. CASE Dissolve(g, {}, {})
    BY <1>19, <2>2, <1>4 DEF HandleRelayGameExpired
  <2> QED BY <1>19, <2>1, <2>2 DEF HandleRelayGameExpired
<1>20. ASSUME RelayClose PROVE TypeOK'
  <2>1. IsRelay(relay') BY <1>20, WithoutRelay DEF RelayClose, TypeOK
  <2> QED BY <1>20, <2>1 DEF RelayClose, TypeOK, IsGames, IsRelay, IsMap
<1>21. ASSUME NEW c \in Client, Disconnect(c) PROVE TypeOK'
  BY <1>21, <1>2, ActiveUser DEF Disconnect
<1>22. ASSUME NEW p \in Player, AdminDisconnect(p) PROVE TypeOK'
  BY <1>22, <1>2 DEF AdminDisconnect
<1>23. ASSUME NEW c \in Client, NEW g \in GameId, NEW target \in Player,
              KickGameMember(c, g, target)
       PROVE  TypeOK'
  BY <1>23, <1>3 DEF KickGameMember
<1>24. ASSUME NEW c \in Client, LeaveGameCommand(c) PROVE TypeOK'
  BY <1>24, <1>3, ActiveUser DEF LeaveGameCommand
<1>25. ASSUME UNCHANGED vars PROVE TypeOK'
  BY <1>25 DEF vars, TypeOK, IsGames, IsRelay, IsMap
<1>26. ASSUME NEW c \in Client, Command(c) PROVE TypeOK'
  BY <1>26, <1>5, <1>6, <1>7, <1>8, <1>9, <1>10, <1>13, <1>15, <1>16, <1>17,
     <1>23, <1>24 DEF Command
<1> QED
  BY <1>1, <1>11, <1>12, <1>14, <1>18, <1>19, <1>20, <1>21, <1>22, <1>25, <1>26
  DEF Next

\* TypeOK holds in every reachable state.
THEOREM TypeCorrect == Spec => []TypeOK
<1>1. Init => TypeOK
  BY DEF Init, EmptyMap, TypeOK, IsGames, IsRelay, IsMap
<1>2. TypeOK /\ [Next]_vars => TypeOK'
  BY TypeStep
<1> QED BY <1>1, <1>2, PTL DEF Spec
=============================================================================
