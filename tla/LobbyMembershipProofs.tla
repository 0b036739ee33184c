----------------------- MODULE LobbyMembershipProofs -----------------------
(***************************************************************************)
(* Proofs that h.userGame, the members of the games, the live connections  *)
(* and the match queue agree, for any number of users, connections and     *)
(* games.                                                                  *)
(***************************************************************************)
EXTENDS LobbyProofs

\* The four facts need each other: a departure clears the right game only
\* because userGame names it, and a replacing connection is noted in the
\* right game for the same reason; a queued user is matched with the
\* connection the queue holds, which must be the live one.
LinkInv ==
    /\ TypeOK
    /\ MembershipAgrees
    /\ MembersAreConnected
    /\ QueuedUsersAreFree

\* p is a member of the game g.
IsMember(p, g) == g \in DOMAIN games /\ p \in DOMAIN games[g].members

-----------------------------------------------------------------------------
(* Steps that change nobody's game.                                        *)

\* The games keep their members and the members their connections.
SameMembers ==
    /\ DOMAIN games' = DOMAIN games
    /\ \A g \in DOMAIN games :
          /\ DOMAIN games'[g].members = DOMAIN games[g].members
          /\ \A p \in DOMAIN games[g].members :
                games'[g].members[p].client = games[g].members[p].client

\* Such a step keeps the links, if it adds nobody to the queue.
LEMMA SameMembersStep ==
    ASSUME LinkInv, TypeOK', SameMembers,
           clients' = clients, userGame' = userGame,
           DOMAIN matchQueue' \subseteq DOMAIN matchQueue
    PROVE  LinkInv'
<1>1. MembershipAgrees'
  BY DEF LinkInv, MembershipAgrees, SameMembers
<1>2. MembersAreConnected'
  BY DEF LinkInv, MembersAreConnected, SameMembers
<1>3. QueuedUsersAreFree'
  BY DEF LinkInv, QueuedUsersAreFree
<1> QED BY <1>1, <1>2, <1>3 DEF LinkInv

\* Replacing the members of one game by others with the same connections.
LEMMA SetMembersSame ==
    ASSUME TypeOK, NEW g \in DOMAIN games, NEW game,
           games' = [games EXCEPT ![g] = game],
           DOMAIN game.members = DOMAIN games[g].members,
           \A p \in DOMAIN games[g].members :
              game.members[p].client = games[g].members[p].client
    PROVE  SameMembers
BY DEF SameMembers, TypeOK, IsGames

-----------------------------------------------------------------------------
(* Departures.                                                             *)

\* Exactly the users of F are taken out of the games they were in.
Released(F) ==
    /\ userGame' = [p \in Player |-> IF p \in F THEN NoGame ELSE userGame[p]]
    /\ \A g \in GameId, p \in Player :
          IsMember(p, g)' <=> IsMember(p, g) /\ p \notin F
    /\ \A g \in DOMAIN games' : \A p \in DOMAIN games'[g].members :
          games'[g].members[p].client = games[g].members[p].client

\* dissolveGameLocked releases the members, and p who was one of them.
LEMMA DissolveReleases ==
    ASSUME LinkInv, NEW g \in GameId, NEW gone,
           \A p \in gone : userGame[p] = g, g \in DOMAIN games,
           NEW handled, Dissolve(g, gone, handled)
    PROVE  Released(DOMAIN games[g].members \union gone)
<1> DEFINE F == DOMAIN games[g].members \union gone
<1>1. \A h \in DOMAIN games' : h # g /\ h \in DOMAIN games /\ games'[h] = games[h]
  BY DEF Dissolve, Without
<1>2. DOMAIN games' = DOMAIN games \ {g}
  BY DEF Dissolve, Without
<1>3. ASSUME NEW h \in GameId, NEW p \in Player
      PROVE  IsMember(p, h)' <=> IsMember(p, h) /\ p \notin F
  <2>1. CASE h = g
    BY <1>2, <2>1 DEF IsMember
  <2>2. CASE h # g
    <3>1. IsMember(p, h) => userGame[p] = h
      BY DEF IsMember, LinkInv, MembershipAgrees
    <3>2. p \in F => userGame[p] = g
      BY DEF LinkInv, MembershipAgrees
    <3>3. IsMember(p, h)' <=> IsMember(p, h)
      BY <1>1, <1>2, <2>2 DEF IsMember
    <3> QED BY <2>2, <3>1, <3>2, <3>3
  <2> QED BY <2>1, <2>2
<1>4. userGame' = [p \in Player |-> IF p \in F THEN NoGame ELSE userGame[p]]
  BY DEF Dissolve
<1> QED BY <1>1, <1>3, <1>4 DEF Released

\* leaveGameLocked releases its user, alone or with everyone in the game.
LEMMA LeaveReleases ==
    ASSUME LinkInv, NEW p \in Player, LeaveGame(p)
    PROVE  \E F \in SUBSET Player : p \in F /\ Released(F)
<1> DEFINE g == userGame[p]
           stay == Without(games[g].members, {p})
<1> USE DEF LinkInv
<1>1. CASE /\ g \notin DOMAIN games
           /\ userGame' = [userGame EXCEPT ![p] = NoGame]
           /\ UNCHANGED <<games, timers, relay>>
  <2>1. ASSUME NEW h \in GameId PROVE ~ IsMember(p, h)
    BY <1>1 DEF MembershipAgrees, IsMember
  <2>2. Released({p})
    BY <1>1, <2>1 DEF Released, IsMember, TypeOK
  <2> QED BY <2>2
<1>2. CASE g \in DOMAIN games /\ Dissolve(g, {p}, {})
  <2>1. g \in GameId /\ DOMAIN games[g].members \subseteq Player
    BY <1>2 DEF TypeOK, IsGames, IsStagedGame
  <2>2. Released(DOMAIN games[g].members \union {p})
    BY <1>2, <2>1, DissolveReleases
  <2> QED BY <2>1, <2>2
<1>3. CASE /\ g \in DOMAIN games
           /\ userGame' = [userGame EXCEPT ![p] = NoGame]
           /\ games' = [games EXCEPT ![g].members = stay]
  <2>1. g \in GameId /\ IsStagedGame(games[g])
    BY <1>3 DEF TypeOK, IsGames
  <2>2. DOMAIN games' = DOMAIN games
    BY <1>3
  <2>3. games'[g].members = stay
    BY <1>3, <2>1 DEF IsStagedGame
  <2>4. \A h \in DOMAIN games : h # g => games'[h] = games[h]
    BY <1>3
  <2>5. DOMAIN stay = DOMAIN games[g].members \ {p}
    BY DEF Without
  <2>6. \A q \in DOMAIN stay : stay[q] = games[g].members[q]
    BY DEF Without
  <2>7. ASSUME NEW h \in GameId, NEW q \in Player
        PROVE  IsMember(q, h)' <=> IsMember(q, h) /\ q \notin {p}
    <3>1. CASE h = g
      BY <2>2, <2>3, <2>5, <3>1 DEF IsMember
    <3>2. CASE h # g
      BY <2>2, <2>4, <3>2 DEF IsMember, MembershipAgrees
    <3> QED BY <3>1, <3>2
  <2>8. \A h \in DOMAIN games' : \A q \in DOMAIN games'[h].members :
           games'[h].members[q].client = games[h].members[q].client
    BY <2>2, <2>3, <2>4, <2>5, <2>6
  <2>9. Released({p})
    BY <1>3, <2>7, <2>8 DEF Released, TypeOK
  <2> QED BY <2>9
<1> QED BY <1>1, <1>2, <1>3 DEF LeaveGame

\* Users who are released may also have been cut off; if nobody else was,
\* and the queue lost whoever was, the links hold.
LEMMA ReleasedStep ==
    ASSUME LinkInv, TypeOK', NEW F, Released(F),
           \A p \in Player \ F : clients'[p] = clients[p],
           DOMAIN matchQueue' \subseteq DOMAIN matchQueue,
           \A p \in DOMAIN matchQueue' : clients'[p] = clients[p]
    PROVE  LinkInv'
<1> USE DEF LinkInv
<1>1. ASSUME NEW p \in Player, NEW g \in GameId
      PROVE  userGame'[p] = g <=> IsMember(p, g)'
  <2>1. userGame[p] = g <=> IsMember(p, g)
    BY DEF MembershipAgrees, IsMember
  <2>2. userGame'[p] = IF p \in F THEN NoGame ELSE userGame[p]
    BY DEF Released
  <2> QED BY <2>1, <2>2, NoGameAssumption DEF Released
<1>2. MembershipAgrees'
  BY <1>1 DEF MembershipAgrees, IsMember
<1>3. ASSUME NEW g \in DOMAIN games', NEW p \in DOMAIN games'[g].members
      PROVE  /\ clients'[p] # NoClient
             /\ games'[g].members[p].client = clients'[p]
  <2>1. g \in GameId /\ p \in Player
    BY <1>3 DEF TypeOK, IsGames, IsStagedGame
  <2>2. IsMember(p, g) /\ p \notin F
    BY <1>3, <2>1 DEF Released, IsMember
  <2> QED BY <2>1, <2>2 DEF Released, MembersAreConnected, IsMember
<1>4. MembersAreConnected'
  BY <1>3 DEF MembersAreConnected
<1>5. QueuedUsersAreFree'
  BY DEF QueuedUsersAreFree, Released, TypeOK, IsMap
<1> QED BY <1>2, <1>4, <1>5

-----------------------------------------------------------------------------
(* Arrivals.                                                               *)

\* The users of F, who were in no game, become the members of g, beside
\* those it already has.
Entered(F, g) ==
    /\ userGame' = [p \in Player |-> IF p \in F THEN g ELSE userGame[p]]
    /\ DOMAIN games' = DOMAIN games \union {g}
    /\ \A h \in DOMAIN games \ {g} : games'[h] = games[h]
    /\ \A p \in Player : IsMember(p, g)' <=> IsMember(p, g) \/ p \in F
    /\ \A p \in DOMAIN games'[g].members :
          games'[g].members[p].client =
             IF p \in F THEN clients[p] ELSE games[g].members[p].client

\* If they are connected and leave the queue, the links hold.
LEMMA EnteredStep ==
    ASSUME LinkInv, TypeOK', NEW g \in GameId, NEW F \in SUBSET Player,
           \A p \in F : userGame[p] = NoGame /\ clients[p] # NoClient,
           Entered(F, g), clients' = clients,
           DOMAIN matchQueue' \subseteq DOMAIN matchQueue \ F
    PROVE  LinkInv'
<1> USE DEF LinkInv
<1>1. ASSUME NEW p \in Player, NEW h \in GameId
      PROVE  userGame'[p] = h <=> IsMember(p, h)'
  <2>1. userGame[p] = h <=> IsMember(p, h)
    BY DEF MembershipAgrees, IsMember
  <2>2. userGame'[p] = IF p \in F THEN g ELSE userGame[p]
    BY DEF Entered
  <2>3. CASE h = g
    BY <2>1, <2>2, <2>3 DEF Entered
  <2>4. CASE h # g
    <3>1. IsMember(p, h)' <=> IsMember(p, h)
      BY <2>4 DEF Entered, IsMember
    <3> QED BY <2>1, <2>2, <2>4, <3>1, NoGameAssumption
  <2> QED BY <2>3, <2>4
<1>2. MembershipAgrees'
  BY <1>1 DEF MembershipAgrees, IsMember
<1>3. ASSUME NEW h \in DOMAIN games', NEW p \in DOMAIN games'[h].members
      PROVE  /\ clients'[p] # NoClient
             /\ games'[h].members[p].client = clients'[p]
  <2>1. h \in GameId /\ p \in Player
    BY <1>3 DEF TypeOK, IsGames, IsStagedGame
  <2>2. CASE h # g
    BY <1>3, <2>2 DEF Entered, MembersAreConnected
  <2>3. CASE h = g /\ p \in F
    BY <1>3, <2>3 DEF Entered
  <2>4. CASE h = g /\ p \notin F
    BY <1>3, <2>1, <2>4 DEF Entered, MembersAreConnected, IsMember
  <2> QED BY <2>2, <2>3, <2>4
<1>4. MembersAreConnected'
  BY <1>3 DEF MembersAreConnected
<1>5. QueuedUsersAreFree'
  BY DEF QueuedUsersAreFree, Entered, TypeOK, IsMap
<1> QED BY <1>2, <1>4, <1>5

-----------------------------------------------------------------------------
(* Every step.                                                             *)

\* The user of a live connection.
LEMMA ActiveConnected ==
    ASSUME NEW c \in Client, Active(c)
    PROVE  UserOf[c] \in Player /\ clients[UserOf[c]] = c /\ c # NoClient
BY UserOfAssumption, NoClientAssumption DEF Active

\* No handler, timer, callback or administrator breaks a link.
LEMMA LinkStep ==
    ASSUME LinkInv, [Next]_vars
    PROVE  LinkInv'
<1> USE DEF stageVars, relayVars
<1>0. TypeOK /\ TypeOK'
  BY TypeStep DEF LinkInv
<1>1. ASSUME NEW c \in Client, Connect(c) PROVE LinkInv'
  <2> DEFINE u == UserOf[c]
             g == userGame[u]
  <2>1. u \in Player /\ c # NoClient
    BY UserOfAssumption, NoClientAssumption
  <2>2. /\ clients' = [clients EXCEPT ![u] = c]
        /\ userGame' = userGame
        /\ matchQueue' = matchQueue
    BY <1>1 DEF Connect
  <2>3. DOMAIN games' = DOMAIN games
    BY <1>1 DEF Connect
  <2>4. ASSUME NEW h \in DOMAIN games
        PROVE  /\ DOMAIN games'[h].members = DOMAIN games[h].members
               /\ \A p \in DOMAIN games[h].members :
                     games'[h].members[p].client =
                        IF p = u THEN c ELSE games[h].members[p].client
    <3>1. h \in GameId /\ IsStagedGame(games[h])
      BY <2>4, <1>0 DEF TypeOK, IsGames
    <3>2. \A p \in DOMAIN games[h].members :
             /\ p \in Player
             /\ games[h].members[p] \in Member
      BY <3>1 DEF IsStagedGame
    <3>3. u \in DOMAIN games[h].members => h = g
      BY <2>1, <2>4, <3>1 DEF LinkInv, MembershipAgrees
    <3>4. CASE h = g /\ u \in DOMAIN games[h].members
      <4>1. games' = [games EXCEPT ![h].members[u].client = c]
        BY <1>1, <3>4 DEF Connect
      <4>2. games'[h].members = [games[h].members EXCEPT ![u].client = c]
        BY <2>4, <3>1, <4>1 DEF IsStagedGame
      <4> QED BY <3>2, <3>4, <4>2 DEF Member
    <3>5. CASE ~ (h = g /\ u \in DOMAIN games[h].members)
      BY <1>1, <2>4, <3>3, <3>5 DEF Connect
    <3> QED BY <3>4, <3>5
  <2>5. MembershipAgrees'
    BY <2>2, <2>3, <2>4 DEF LinkInv, MembershipAgrees
  <2>6. MembersAreConnected'
    <3> SUFFICES ASSUME NEW h \in DOMAIN games', NEW p \in DOMAIN games'[h].members
                 PROVE  /\ clients'[p] # NoClient
                        /\ games'[h].members[p].client = clients'[p]
      BY DEF MembersAreConnected
    <3>1. h \in DOMAIN games /\ p \in DOMAIN games[h].members /\ p \in Player
      BY <2>3, <2>4, <1>0 DEF TypeOK, IsGames, IsStagedGame
    <3>2. clients'[p] = IF p = u THEN c ELSE clients[p]
      BY <2>2, <3>1, <1>0 DEF TypeOK
    <3> QED BY <2>1, <2>4, <3>1, <3>2 DEF LinkInv, MembersAreConnected
  <2>7. QueuedUsersAreFree'
    BY <2>1, <2>2, <1>0 DEF LinkInv, QueuedUsersAreFree, TypeOK, IsMap
  <2> QED BY <1>0, <2>5, <2>6, <2>7 DEF LinkInv
<1>2. ASSUME NEW p \in Player, DisconnectLocked(p) PROVE LinkInv'
  <2>1. PICK F \in SUBSET Player : p \in F /\ Released(F)
    BY <1>2, LeaveReleases DEF DisconnectLocked
  <2>2. /\ clients' = [clients EXCEPT ![p] = NoClient]
        /\ matchQueue' = Without(matchQueue, {p})
    BY <1>2 DEF DisconnectLocked
  <2>3. DOMAIN matchQueue' = DOMAIN matchQueue \ {p}
    BY <2>2 DEF Without
  <2>4. \A q \in Player \ {p} : clients'[q] = clients[q]
    BY <2>2, <1>0 DEF TypeOK
  <2>5. DOMAIN matchQueue \subseteq Player
    BY <1>0 DEF TypeOK, IsMap
  <2> QED BY <1>0, <2>1, <2>3, <2>4, <2>5, ReleasedStep
<1>3. ASSUME NEW p \in Player, LeaveGame(p), clients' = clients,
             matchQueue' = matchQueue
      PROVE  LinkInv'
  BY <1>0, <1>3, LeaveReleases, ReleasedStep
<1>4. ASSUME NEW g \in DOMAIN games, NEW handled, Dissolve(g, {}, handled),
             clients' = clients, matchQueue' = matchQueue
      PROVE  LinkInv'
  <2>1. g \in GameId BY <1>0 DEF TypeOK, IsGames
  <2>2. Released(DOMAIN games[g].members \union {})
    BY <1>4, <2>1, DissolveReleases
  <2> QED BY <1>0, <1>4, <2>2, ReleasedStep
<1>5. ASSUME NEW c \in Client, NEW g \in GameId, NEW max \in 2 .. SlotCount,
             NEW stats \in BOOLEAN, NEW key \in ReadyKey,
             CreateGame(c, g, max, stats, key)
      PROVE  LinkInv'
  <2> DEFINE u == UserOf[c]
  <2>1. u \in Player /\ clients[u] = c /\ c # NoClient
    BY <1>5, ActiveConnected DEF CreateGame
  <2>2. /\ g \notin DOMAIN games /\ userGame[u] = NoGame
        /\ u \notin DOMAIN matchQueue
        /\ clients' = clients /\ matchQueue' = matchQueue
    BY <1>5 DEF CreateGame, NewGameID
  <2>3. userGame' = [p \in Player |-> IF p \in {u} THEN g ELSE userGame[p]]
    BY <1>5, <1>0 DEF CreateGame, TypeOK
  <2>4. /\ DOMAIN games' = DOMAIN games \union {g}
        /\ \A h \in DOMAIN games \ {g} : games'[h] = games[h]
        /\ games'[g].members = [p \in {u} |-> NewMember(c, FALSE, 0)]
    BY <1>5 DEF CreateGame, Put
  <2>5. \A p \in Player : IsMember(p, g)' <=> IsMember(p, g) \/ p \in {u}
    BY <2>1, <2>2, <2>4 DEF IsMember
  <2>6. Entered({u}, g)
    BY <2>1, <2>3, <2>4, <2>5 DEF Entered, NewMember
  <2> QED BY <1>0, <2>1, <2>2, <2>6, EnteredStep
<1>6. ASSUME NEW c \in Client, NEW g \in GameId, JoinGame(c, g)
      PROVE  LinkInv'
  <2> DEFINE u == UserOf[c]
             seat == NewMember(c, FALSE, FirstOpenSlot(games[g].members))
  <2>1. u \in Player /\ clients[u] = c /\ c # NoClient
    BY <1>6, ActiveConnected DEF JoinGame
  <2>2. /\ g \in DOMAIN games /\ userGame[u] = NoGame
        /\ u \notin DOMAIN matchQueue
        /\ clients' = clients /\ matchQueue' = matchQueue
    BY <1>6 DEF JoinGame
  <2>3. userGame' = [p \in Player |-> IF p \in {u} THEN g ELSE userGame[p]]
    BY <1>6, <1>0 DEF JoinGame, TypeOK
  <2>4. games' = [games EXCEPT ![g].members = Put(games[g].members, u, seat)]
    BY <1>6 DEF JoinGame
  <2>5. IsStagedGame(games[g])
    BY <1>0, <2>2 DEF TypeOK, IsGames
  <2>6. games'[g].members = Put(games[g].members, u, seat)
    BY <2>2, <2>4, <2>5 DEF IsStagedGame
  <2>7. /\ DOMAIN games' = DOMAIN games \union {g}
        /\ \A h \in DOMAIN games \ {g} : games'[h] = games[h]
    BY <2>2, <2>4
  <2>8. /\ DOMAIN games'[g].members = DOMAIN games[g].members \union {u}
        /\ \A p \in DOMAIN games'[g].members : games'[g].members[p].client =
              IF p \in {u} THEN clients[p] ELSE games[g].members[p].client
    BY <2>1, <2>6 DEF Put, NewMember
  <2>9. Entered({u}, g)
    BY <2>2, <2>3, <2>7, <2>8 DEF Entered, IsMember
  <2> QED BY <1>0, <2>1, <2>2, <2>9, EnteredStep
<1>7. ASSUME NEW c \in Client, NEW g \in GameId, NEW max \in 2 .. SlotCount,
             NEW stats \in BOOLEAN, NEW key \in ReadyKey,
             UpdateGameOptions(c, g, max, stats, key)
      PROVE  LinkInv'
  <2> DEFINE game == games[g]
             new == [game EXCEPT !.maxPlayers = max, !.useStats = stats,
                           !.readyKey = key,
                           !.members = IF key = game.readyKey THEN @
                                       ELSE Unready(@, game.hostID)]
  <2>1. g \in DOMAIN games /\ IsStagedGame(games[g])
    BY <1>7, <1>0 DEF UpdateGameOptions, InGame, TypeOK, IsGames
  <2>2. games' = [games EXCEPT ![g] = new]
    BY <1>7 DEF UpdateGameOptions
  <2>3. new.members = IF key = game.readyKey THEN game.members
                      ELSE Unready(game.members, game.hostID)
    BY <2>1 DEF IsStagedGame
  <2>4. SameMembers
    <3>1. \A p \in DOMAIN game.members : game.members[p] \in Member
      BY <2>1 DEF IsStagedGame
    <3>2. /\ DOMAIN new.members = DOMAIN game.members
          /\ \A p \in DOMAIN game.members :
                new.members[p].client = game.members[p].client
      BY <2>3, <3>1 DEF Unready, Member
    <3> HIDE DEF new
    <3> QED BY <1>0, <2>1, <2>2, <3>2, SetMembersSame
  <2> QED BY <1>0, <1>7, <2>4, SameMembersStep DEF UpdateGameOptions
<1>8. ASSUME NEW c \in Client, NEW g \in GameId, NEW ready \in BOOLEAN,
             MarkGameReady(c, g, ready)
      PROVE  LinkInv'
  <2> DEFINE members == [games[g].members EXCEPT ![UserOf[c]].ready = ready]
             new == [games[g] EXCEPT !.members = members]
  <2>1. g \in DOMAIN games /\ IsStagedGame(games[g])
    BY <1>8, <1>0 DEF MarkGameReady, InGame, TypeOK, IsGames
  <2>2. games' = [games EXCEPT ![g] = new]
    BY <1>8 DEF MarkGameReady
  <2>3. new.members = members
    BY <2>1 DEF IsStagedGame
  <2>4. /\ DOMAIN members = DOMAIN games[g].members
        /\ \A p \in DOMAIN games[g].members :
              members[p].client = games[g].members[p].client
    BY <2>1 DEF IsStagedGame, Member
  <2>5. SameMembers
    <3> HIDE DEF new, members
    <3> QED BY <1>0, <2>1, <2>2, <2>3, <2>4, SetMembersSame
  <2> QED BY <1>0, <1>8, <2>5, SameMembersStep DEF MarkGameReady
<1>9. ASSUME NEW c \in Client, NEW g \in GameId, StartGame(c, g)
      PROVE  LinkInv'
  <2> DEFINE game == games[g]
             new == [game EXCEPT !.state = "starting", !.resultsReported = FALSE,
                           !.members = NoneStartReady(@),
                           !.startGeneration = game.startGeneration + 1]
  <2>1. g \in DOMAIN games /\ IsStagedGame(games[g])
    BY <1>9, <1>0 DEF StartGame, InGame, TypeOK, IsGames
  <2>2. games' = [games EXCEPT ![g] = new]
    BY <1>9 DEF StartGame
  <2>3. new.members = NoneStartReady(game.members)
    BY <2>1 DEF IsStagedGame
  <2>4. /\ DOMAIN new.members = DOMAIN game.members
        /\ \A p \in DOMAIN game.members :
              new.members[p].client = game.members[p].client
    BY <2>1, <2>3 DEF NoneStartReady, IsStagedGame, Member
  <2>5. SameMembers
    <3> HIDE DEF new
    <3> QED BY <1>0, <2>1, <2>2, <2>4, SetMembersSame
  <2> QED BY <1>0, <1>9, <2>5, SameMembersStep DEF StartGame
<1>10. ASSUME NEW c \in Client, NEW g \in GameId, MarkGameStartReady(c, g)
       PROVE  LinkInv'
  <2> DEFINE game == games[g]
             members == [game.members EXCEPT ![UserOf[c]].startReady = TRUE]
             started == [game EXCEPT !.state = "started", !.members = members,
                                 !.startedRoster = DOMAIN members,
                                 !.startGeneration = @ + 1]
             confirmed == [game EXCEPT !.members = members]
  <2>1. g \in DOMAIN games /\ IsStagedGame(games[g])
    BY <1>10, <1>0 DEF MarkGameStartReady, InGame, TypeOK, IsGames
  <2>2. \/ games' = [games EXCEPT ![g] = started]
        \/ games' = [games EXCEPT ![g] = confirmed]
    BY <1>10 DEF MarkGameStartReady
  <2>3. started.members = members /\ confirmed.members = members
    BY <2>1 DEF IsStagedGame
  <2>4. /\ DOMAIN members = DOMAIN game.members
        /\ \A p \in DOMAIN game.members :
              members[p].client = game.members[p].client
    BY <2>1 DEF IsStagedGame, Member
  <2>5. SameMembers
    <3> HIDE DEF started, confirmed, members
    <3> QED BY <1>0, <2>1, <2>2, <2>3, <2>4, SetMembersSame
  <2> QED BY <1>0, <1>10, <2>5, SameMembersStep DEF MarkGameStartReady
<1>11. ASSUME games' = games, clients' = clients, userGame' = userGame,
              DOMAIN matchQueue' \subseteq DOMAIN matchQueue
       PROVE  LinkInv'
  BY <1>0, <1>11, SameMembersStep DEF SameMembers
<1>12. ASSUME NEW t \in timers, HandleStartReadyTimeout(t) PROVE LinkInv'
  BY <1>12, <1>4, <1>11 DEF HandleStartReadyTimeout, Awaited
<1>13. ASSUME NEW c \in Client, NEW g \in GameId, EndGame(c, g) PROVE LinkInv'
  BY <1>13, <1>4 DEF EndGame, InGame
<1>14. ASSUME NEW g \in GameId, AdminCloseGame(g) PROVE LinkInv'
  BY <1>14, <1>4 DEF AdminCloseGame
<1>15. ASSUME NEW c \in Client, NEW g \in GameId, NEW reported \in SUBSET Player,
              StatsResults(c, g, reported)
       PROVE  LinkInv'
  <2> DEFINE new == [games[g] EXCEPT !.resultsReported = TRUE]
  <2>1. g \in DOMAIN games /\ IsStagedGame(games[g])
    BY <1>15, <1>0 DEF StatsResults, TypeOK, IsGames
  <2>2. games' = [games EXCEPT ![g] = new]
    BY <1>15 DEF StatsResults
  <2>3. new.members = games[g].members
    BY <2>1 DEF IsStagedGame
  <2>4. SameMembers
    <3> HIDE DEF new
    <3> QED BY <1>0, <2>1, <2>2, <2>3, SetMembersSame
  <2> QED BY <1>0, <1>15, <2>4, SameMembersStep DEF StatsResults
<1>16. ASSUME NEW c \in Client, NEW k \in MatchKey, QuickmatchEnqueue(c, k)
       PROVE  LinkInv'
  <2> DEFINE u == UserOf[c]
  <2>1. u \in Player /\ clients[u] = c /\ c # NoClient
    BY <1>16, ActiveConnected DEF QuickmatchEnqueue
  <2>2. userGame[u] = NoGame /\ u \notin DOMAIN matchQueue /\ clients' = clients
    BY <1>16 DEF QuickmatchEnqueue
  <2>3. DOMAIN Purged \subseteq DOMAIN matchQueue
    BY DEF Purged, Without
  <2>4. CASE matchQueue' = Purged /\ UNCHANGED stageVars
    BY <1>11, <2>2, <2>3, <2>4
  <2>5. CASE matchQueue' = Put(Purged, u, [client |-> c, key |-> k])
             /\ UNCHANGED stageVars
    <3>1. DOMAIN matchQueue' \subseteq DOMAIN matchQueue \union {u}
      BY <2>3, <2>5 DEF Put
    <3>2. QueuedUsersAreFree'
      BY <2>1, <2>2, <2>5, <3>1 DEF QueuedUsersAreFree, LinkInv
    <3> QED
      BY <1>0, <2>2, <2>5, <3>2 DEF LinkInv, MembershipAgrees, MembersAreConnected
  <2>6. ASSUME NEW p \in Opponents(k), NEW g \in GameId, NewGameID(g),
               matchQueue' = Without(Purged, {p}),
               games' = Put(games, g, MatchedGame(c, p, 1)),
               userGame' = [q \in Player |->
                  IF q \in {p, u} THEN g ELSE userGame[q]]
        PROVE  LinkInv'
    <3>1. /\ p \in DOMAIN matchQueue /\ p \in Player
          /\ clients[p] = matchQueue[p].client
          /\ userGame[p] = NoGame
      BY <1>0 DEF Opponents, Stale, TypeOK, IsMap
    <3>2. clients[p] # NoClient
      BY <3>1 DEF LinkInv, QueuedUsersAreFree
    <3>3. g \notin DOMAIN games
      BY <2>6 DEF NewGameID
    <3>4. /\ DOMAIN games' = DOMAIN games \union {g}
          /\ \A h \in DOMAIN games \ {g} : games'[h] = games[h]
          /\ games'[g].members = MatchedGame(c, p, 1).members
      BY <2>6 DEF Put
    <3>5. MatchedGame(c, p, 1).members = [q \in {p, u} |->
             IF q = p THEN NewMember(matchQueue[p].client, TRUE, 0)
                      ELSE NewMember(c, TRUE, 1)]
      BY DEF MatchedGame
    <3>6. /\ DOMAIN games'[g].members = {p, u}
          /\ \A q \in {p, u} : games'[g].members[q].client = clients[q]
      BY <2>1, <3>1, <3>4, <3>5 DEF NewMember
    <3>7. \A q \in Player : IsMember(q, g)' <=> IsMember(q, g) \/ q \in {p, u}
      BY <3>3, <3>4, <3>6 DEF IsMember
    <3>8. Entered({p, u}, g)
      BY <2>6, <3>4, <3>6, <3>7 DEF Entered
    <3>9. DOMAIN matchQueue' \subseteq DOMAIN matchQueue \ {p, u}
      BY <2>2, <2>3, <2>6 DEF Without
    <3> QED BY <1>0, <2>1, <2>2, <3>1, <3>2, <3>8, <3>9, EnteredStep
  <2> QED BY <1>16, <2>4, <2>5, <2>6 DEF QuickmatchEnqueue
<1>17. ASSUME NEW c \in Client, QuickmatchCancel(c) PROVE LinkInv'
  BY <1>17, <1>11 DEF QuickmatchCancel, Without
<1>18. ASSUME NEW expired \in SUBSET GameId, RelayExpires(expired)
       PROVE  LinkInv'
  BY <1>18, <1>11 DEF RelayExpires
<1>19. ASSUME NEW g \in GameId, HandleRelayGameExpired(g) PROVE LinkInv'
  BY <1>19, <1>4, <1>11 DEF HandleRelayGameExpired, Running
<1>20. ASSUME RelayClose PROVE LinkInv'
  BY <1>20, <1>11 DEF RelayClose
<1>21. ASSUME NEW c \in Client, Disconnect(c) PROVE LinkInv'
  BY <1>21, <1>2, UserOfAssumption DEF Disconnect
<1>22. ASSUME NEW p \in Player, AdminDisconnect(p) PROVE LinkInv'
  BY <1>22, <1>2 DEF AdminDisconnect
<1>23. ASSUME NEW c \in Client, NEW g \in GameId, NEW target \in Player,
              KickGameMember(c, g, target)
       PROVE  LinkInv'
  BY <1>23, <1>3 DEF KickGameMember
<1>24. ASSUME NEW c \in Client, LeaveGameCommand(c) PROVE LinkInv'
  BY <1>24, <1>3, UserOfAssumption DEF LeaveGameCommand
<1>25. ASSUME NEW t \in timers, TimerFires(t) PROVE LinkInv'
  BY <1>25, <1>11 DEF TimerFires
<1>26. ASSUME UNCHANGED vars PROVE LinkInv'
  BY <1>26, <1>11 DEF vars
<1>27. ASSUME NEW c \in Client, Command(c) PROVE LinkInv'
  BY <1>27, <1>5, <1>6, <1>7, <1>8, <1>9, <1>10, <1>13, <1>15, <1>16, <1>17,
     <1>23, <1>24 DEF Command
<1> QED
  BY <1>1, <1>12, <1>14, <1>18, <1>19, <1>20, <1>21, <1>22, <1>25, <1>26, <1>27
  DEF Next

\* The links hold in every reachable state.
LEMMA LinksHold == Spec => []LinkInv
<1>1. Init => LinkInv
  <2>1. Init => TypeOK
    BY DEF Init, EmptyMap, TypeOK, IsGames, IsRelay, IsMap
  <2> QED
    BY <2>1, NoGameAssumption
    DEF Init, EmptyMap, LinkInv, MembershipAgrees, MembersAreConnected, QueuedUsersAreFree
<1>2. LinkInv /\ [Next]_vars => LinkInv'
  BY LinkStep
<1> QED BY <1>1, <1>2, PTL DEF Spec

\* userGame and the members of the games are one relation, whatever leaves,
\* kicks, disconnects, timeouts and expiries came before.
THEOREM MembershipCorrect == Spec => []MembershipAgrees
<1>1. LinkInv => MembershipAgrees BY DEF LinkInv
<1> QED BY <1>1, LinksHold, PTL

\* Games hold the live connections of their members.
THEOREM ConnectionsCorrect == Spec => []MembersAreConnected
<1>1. LinkInv => MembersAreConnected BY DEF LinkInv
<1> QED BY <1>1, LinksHold, PTL

\* Whoever waits for a quick match is online and in no game.
THEOREM QueueCorrect == Spec => []QueuedUsersAreFree
<1>1. LinkInv => QueuedUsersAreFree BY DEF LinkInv
<1> QED BY <1>1, LinksHold, PTL

-----------------------------------------------------------------------------
(* The match queue.                                                        *)

\* Taking entries out of the queue leaves the keys distinct.
LEMMA ShorterQueue ==
    ASSUME QueueKeysDistinct, DOMAIN matchQueue' \subseteq DOMAIN matchQueue,
           \A p \in DOMAIN matchQueue' : matchQueue'[p] = matchQueue[p]
    PROVE  QueueKeysDistinct'
BY DEF QueueKeysDistinct

\* Two users who could be paired never wait side by side: whoever finds an
\* opponent does not join the queue.
THEOREM QueueKeysCorrect == Spec => []QueueKeysDistinct
<1> USE DEF stageVars, relayVars
<1>1. Init => QueueKeysDistinct
  BY DEF Init, EmptyMap, QueueKeysDistinct
<1>2. QueueKeysDistinct /\ [Next]_vars => QueueKeysDistinct'
  <2> SUFFICES ASSUME QueueKeysDistinct, [Next]_vars
               PROVE  QueueKeysDistinct'
    OBVIOUS
  <2>1. ASSUME matchQueue' = matchQueue PROVE QueueKeysDistinct'
    BY <2>1 DEF QueueKeysDistinct
  <2>2. ASSUME NEW p, DisconnectLocked(p) PROVE QueueKeysDistinct'
    BY <2>2, ShorterQueue DEF DisconnectLocked, Without
  <2>3. ASSUME NEW c \in Client, NEW k \in MatchKey, QuickmatchEnqueue(c, k)
        PROVE  QueueKeysDistinct'
    <3> DEFINE u == UserOf[c]
    <3>1. /\ DOMAIN Purged = {p \in DOMAIN matchQueue : ~ Stale(p)}
          /\ \A p \in DOMAIN Purged : Purged[p] = matchQueue[p]
      BY DEF Purged, Without
    <3>2. CASE Opponents(k) = {} /\ matchQueue' = Put(Purged, u, [client |-> c, key |-> k])
      <4>1. \A p \in DOMAIN Purged : Purged[p].key # k
        BY <3>1, <3>2 DEF Opponents
      <4>2. /\ DOMAIN matchQueue' = DOMAIN Purged \union {u}
            /\ \A p \in DOMAIN Purged \ {u} : matchQueue'[p] = matchQueue[p]
            /\ matchQueue'[u].key = k
        BY <3>1, <3>2 DEF Put
      <4> QED BY <3>1, <4>1, <4>2 DEF QueueKeysDistinct
    <3>3. CASE \E p : matchQueue' = Without(Purged, {p})
      BY <3>1, <3>3, ShorterQueue DEF Without
    <3>4. CASE matchQueue' = Purged
      BY <3>1, <3>4, ShorterQueue
    <3> QED BY <2>3, <3>2, <3>3, <3>4 DEF QuickmatchEnqueue
  <2>4. ASSUME NEW c \in Client, QuickmatchCancel(c) PROVE QueueKeysDistinct'
    BY <2>4, ShorterQueue DEF QuickmatchCancel, Without
  <2>5. ASSUME NEW c \in Client, Command(c) PROVE QueueKeysDistinct'
    BY <2>1, <2>3, <2>4, <2>5
    DEF Command, CreateGame, UpdateGameOptions, JoinGame, StartGame,
        MarkGameStartReady, EndGame, MarkGameReady, KickGameMember,
        StatsResults, LeaveGameCommand
  <2> QED
    BY <2>1, <2>2, <2>5
    DEF Next, vars, Connect, Disconnect, AdminDisconnect, AdminCloseGame,
        TimerFires, HandleStartReadyTimeout, RelayExpires,
        HandleRelayGameExpired, RelayClose
<1> QED BY <1>1, <1>2, PTL DEF Spec

\* The queue holds free users who are online, no two of whom could be paired.
THEOREM QueueSound == Spec => []QueueIsSound
<1>1. QueuedUsersAreFree /\ QueueKeysDistinct => QueueIsSound
  BY DEF QueueIsSound
<1> QED BY <1>1, QueueCorrect, QueueKeysCorrect, PTL
=============================================================================
