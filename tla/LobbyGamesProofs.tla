-------------------------- MODULE LobbyGamesProofs --------------------------
(***************************************************************************)
(* Proofs about the games of Lobby, for any number of users, connections,  *)
(* games and slots: what handlers may do to a game, and that a game, its   *)
(* start timer and its allocation in the relay stay in one stage.          *)
(*                                                                         *)
(* The argument has three parts.                                           *)
(*  - Every handler does one of a few things to a game: a departure, an    *)
(*    arrival, a new connection, new options, a ready flag, the start, a   *)
(*    confirmation, the go, the report.  A lemma says of each that a sound *)
(*    game stays sound and how it may differ (Moved).  StepMoves says that *)
(*    a step does nothing else; soundness, the terms of running games and  *)
(*    the meaning of a ready flag are read off it.                         *)
(*  - Timers and allocations are compared with the games by two views of   *)
(*    them, Starting and Running.  Their invariant needs one fact that no  *)
(*    run checks: games whose expiry is on its way to the hub are running  *)
(*    or gone (ExpiringAwaited), which is why the callback never meets a   *)
(*    game that started after the sweep.                                   *)
(*  - With that, what the hub asks of the relay is what RelaySeats allows. *)
(***************************************************************************)
EXTENDS LobbyMembershipProofs, FiniteSetTheorems

-----------------------------------------------------------------------------
(* One game.                                                               *)

\* What GamesAreSound says of a game.
SoundGame(game) ==
    /\ \A p, q \in DOMAIN game.members :
          /\ game.members[p].slot \in Slot
          /\ game.members[p].slot = game.members[q].slot => p = q
    /\ DOMAIN game.members # {}
    /\ Cardinality(DOMAIN game.members) <= game.maxPlayers
    /\ game.state # "started" => /\ game.hostID \in DOMAIN game.members
                                 /\ game.members[game.hostID].slot = 0
    /\ game.state = "starting" => Cardinality(DOMAIN game.members) >= 2
    /\ IF game.state = "started"
       THEN DOMAIN game.members \subseteq game.startedRoster
       ELSE game.startedRoster = {} /\ ~ game.resultsReported

\* It says that of each.
LEMMA SoundGames == GamesAreSound <=> \A g \in DOMAIN games : SoundGame(games[g])
BY DEF GamesAreSound, SlotsAreDistinct, GamesAreManned, RosterCoversMembers,
       SoundGame

\* How a game that stays may change: once a start is under way nobody enters
\* it, and after game.go it keeps its terms.
OnlyShrinks(old, new) ==
    /\ new.hostID = old.hostID
    /\ old.state # "open" =>
          /\ new.state # "open"
          /\ DOMAIN new.members \subseteq DOMAIN old.members
          /\ \A p \in DOMAIN new.members :
                new.members[p].slot = old.members[p].slot
    /\ old.state = "started" =>
          /\ new.state = "started"
          /\ new.startedRoster = old.startedRoster
          /\ old.resultsReported => new.resultsReported

\* And whose ready flags may stand: those that stood before, under the same
\* key, and those of the users of U.
KeepsConsent(old, new, U) ==
    \A p \in DOMAIN new.members \ {old.hostID} :
        new.members[p].ready =>
           /\ p \in DOMAIN old.members
           /\ old.members[p].ready \/ p \in U
           /\ new.readyKey = old.readyKey

Moved(old, new, U) ==
    SoundGame(new) /\ OnlyShrinks(old, new) /\ KeepsConsent(old, new, U)

\* Slots are few, so members of a sound game are.
LEMMA FewMembers ==
    ASSUME NEW game, SoundGame(game)
    PROVE  /\ IsFiniteSet(DOMAIN game.members)
           /\ Cardinality(DOMAIN game.members) \in Nat
<1> DEFINE P == DOMAIN game.members
           f == [p \in P |-> game.members[p].slot]
<1>1. f \in Injection(P, Slot)
  BY DEF SoundGame, Injection, IsInjective
<1>2. IsFiniteSet(Slot)
  BY FS_Interval, SlotCountAssumption DEF Slot
<1>3. IsFiniteSet(P)
  BY <1>1, <1>2, FS_Injection
<1> QED BY <1>3, FS_CardinalityType

\* The pigeonhole argument: a game that is not full has a free slot.
LEMMA FreeSlot ==
    ASSUME NEW game, IsStagedGame(game), SoundGame(game),
           Cardinality(DOMAIN game.members) < game.maxPlayers
    PROVE  FirstOpenSlot(game.members) # -1
<1> DEFINE P == DOMAIN game.members
           T == {game.members[p].slot : p \in P}
           f == [p \in P |-> game.members[p].slot]
<1>1. IsFiniteSet(P) /\ Cardinality(P) \in Nat
  BY FewMembers
<1>2. Cardinality(P) < SlotCount
  BY <1>1, SlotCountAssumption DEF IsStagedGame
<1>3. f \in Surjection(P, T)
  BY DEF Surjection
<1>4. IsFiniteSet(T) /\ Cardinality(T) <= Cardinality(P)
  BY <1>1, <1>3, FS_Surjection
<1>5. IsFiniteSet(Slot) /\ Cardinality(Slot) = SlotCount
  BY FS_Interval, SlotCountAssumption DEF Slot
<1>6. Cardinality(T) \in Nat
  BY <1>4, FS_CardinalityType
<1>7. Slot \ T # {}
  <2> SUFFICES ASSUME Slot \subseteq T PROVE FALSE
    OBVIOUS
  <2>1. Cardinality(Slot) <= Cardinality(T)
    BY <1>4, FS_Subset
  <2> QED BY <1>1, <1>2, <1>4, <1>5, <1>6, <2>1, SlotCountAssumption
<1>8. PICK s \in Slot : s \notin T
  BY <1>7
<1>9. FirstOpenSlot(game.members) = Min(Slot \ T)
  BY <1>7 DEF FirstOpenSlot
<1>10. FirstOpenSlot(game.members) \in Slot
  <2> DEFINE free == Slot \ T
  <2>1. free \subseteq Nat
    BY SlotCountAssumption DEF Slot
  <2> HIDE DEF T
  <2>2. PICK x \in free : \A y \in free : ~ (<<y, x>> \in OpToRel(<, Nat))
    BY <1>7, <2>1, NatLessThanWellFounded, WFMin, Zenon
  <2>3. ASSUME NEW y \in free PROVE x =< y
    <3>1. x \in Nat /\ y \in Nat BY <2>1
    <3>2. ~ (y < x) BY <2>2, <3>1, Zenon DEF OpToRel
    <3> QED BY <3>1, <3>2
  <2>4. Min(free) \in free
    BY <2>3 DEF Min
  <2> QED BY <1>9, <2>4
<1> QED BY <1>10, SlotCountAssumption DEF Slot

-----------------------------------------------------------------------------
(* What handlers do to one game.                                           *)

\* The members and their seats are the ones they were, and the state is the
\* one it was or the next.
SameSeats(old, new) ==
    /\ new.hostID = old.hostID
    /\ DOMAIN new.members = DOMAIN old.members
    /\ \A p \in DOMAIN old.members : new.members[p].slot = old.members[p].slot
    /\ Cardinality(DOMAIN old.members) <= new.maxPlayers
    /\ \/ /\ new.state = old.state
          /\ new.startedRoster = old.startedRoster
          /\ \/ new.resultsReported = old.resultsReported
             \/ old.state = "started" /\ new.resultsReported
       \/ /\ old.state = "open"
          /\ new.state = "starting"
          /\ Cardinality(DOMAIN old.members) >= 2
          /\ new.startedRoster = old.startedRoster
          /\ ~ new.resultsReported
       \/ /\ old.state = "starting"
          /\ new.state = "started"
          /\ new.startedRoster = DOMAIN old.members

\* Such a change keeps a game sound and does not reopen it.
LEMMA SameSeatsMove ==
    ASSUME NEW old, NEW new, SoundGame(old), SameSeats(old, new)
    PROVE  SoundGame(new) /\ OnlyShrinks(old, new)
<1>1. OnlyShrinks(old, new)
  BY DEF SameSeats, OnlyShrinks
<1>2. \A p, q \in DOMAIN new.members :
         /\ new.members[p].slot \in Slot
         /\ new.members[p].slot = new.members[q].slot => p = q
  BY DEF SameSeats, SoundGame
<1>3. /\ DOMAIN new.members # {}
      /\ Cardinality(DOMAIN new.members) <= new.maxPlayers
      /\ new.state # "started" => /\ new.hostID \in DOMAIN new.members
                                  /\ new.members[new.hostID].slot = 0
  BY DEF SameSeats, SoundGame
<1>4. new.state = "starting" => Cardinality(DOMAIN new.members) >= 2
  BY DEF SameSeats, SoundGame
<1>5. IF new.state = "started"
      THEN DOMAIN new.members \subseteq new.startedRoster
      ELSE new.startedRoster = {} /\ ~ new.resultsReported
  BY DEF SameSeats, SoundGame
<1> QED BY <1>1, <1>2, <1>3, <1>4, <1>5 DEF SoundGame

\* A departure that does not dissolve the game.
LEMMA LeftMoves ==
    ASSUME NEW game, IsStagedGame(game), SoundGame(game), NEW p,
           game.state # "starting",
           ~ (game.state = "open" /\ game.hostID = p),
           ~ (DOMAIN game.members \subseteq {p})
    PROVE  Moved(game, [game EXCEPT !.members = Without(@, {p})], {})
<1> DEFINE stay == Without(game.members, {p})
           new == [game EXCEPT !.members = stay]
<1>1. /\ new.members = stay
      /\ new.state = game.state
      /\ new.hostID = game.hostID
      /\ new.maxPlayers = game.maxPlayers
      /\ new.readyKey = game.readyKey
      /\ new.startedRoster = game.startedRoster
      /\ new.resultsReported = game.resultsReported
  BY DEF IsStagedGame
<1>2. /\ DOMAIN stay = DOMAIN game.members \ {p}
      /\ \A q \in DOMAIN stay : stay[q] = game.members[q]
  BY DEF Without
<1> HIDE DEF stay, new
<1>3. Cardinality(DOMAIN stay) <= game.maxPlayers
  <2>1. IsFiniteSet(DOMAIN game.members)
        /\ Cardinality(DOMAIN game.members) \in Nat
    BY FewMembers
  <2>2. /\ Cardinality(DOMAIN stay) <= Cardinality(DOMAIN game.members)
        /\ IsFiniteSet(DOMAIN stay)
    BY <1>2, <2>1, FS_Subset
  <2>3. Cardinality(DOMAIN stay) \in Nat
    BY <2>2, FS_CardinalityType
  <2>4. game.maxPlayers \in Nat
    BY SlotCountAssumption DEF IsStagedGame
  <2> QED BY <2>1, <2>2, <2>3, <2>4 DEF SoundGame
<1>4. SoundGame(new)
  <2>1. \A q, r \in DOMAIN new.members :
           /\ new.members[q].slot \in Slot
           /\ new.members[q].slot = new.members[r].slot => q = r
    BY <1>1, <1>2 DEF SoundGame
  <2>2. DOMAIN new.members # {}
    BY <1>1, <1>2
  <2>3. new.state # "started" => /\ new.hostID \in DOMAIN new.members
                                 /\ new.members[new.hostID].slot = 0
    <3>1. new.state # "started" => game.state = "open"
      BY <1>1 DEF IsStagedGame, GameState
    <3> QED BY <1>1, <1>2, <3>1 DEF SoundGame
  <2>4. IF new.state = "started"
        THEN DOMAIN new.members \subseteq new.startedRoster
        ELSE new.startedRoster = {} /\ ~ new.resultsReported
    BY <1>1, <1>2 DEF SoundGame
  <2> QED BY <1>1, <1>3, <2>1, <2>2, <2>3, <2>4 DEF SoundGame
<1>5. OnlyShrinks(game, new)
  BY <1>1, <1>2 DEF OnlyShrinks
<1>6. KeepsConsent(game, new, {})
  BY <1>1, <1>2 DEF KeepsConsent
<1>7. Moved(game, new, {})
  BY <1>4, <1>5, <1>6 DEF Moved
<1> QED BY <1>7 DEF new, stay

\* A new player takes the lowest free slot of an open lobby.
LEMMA JoinedMoves ==
    ASSUME NEW game, IsStagedGame(game), SoundGame(game), NEW u, NEW c,
           game.state = "open", u \notin DOMAIN game.members,
           Cardinality(DOMAIN game.members) < game.maxPlayers
    PROVE  Moved(game, [game EXCEPT !.members =
              Put(@, u, NewMember(c, FALSE, FirstOpenSlot(game.members)))], {})
<1> DEFINE slot == FirstOpenSlot(game.members)
           m == Put(game.members, u, NewMember(c, FALSE, slot))
           new == [game EXCEPT !.members = m]
<1>1. /\ new.members = m
      /\ new.state = game.state
      /\ new.hostID = game.hostID
      /\ new.maxPlayers = game.maxPlayers
      /\ new.readyKey = game.readyKey
      /\ new.startedRoster = game.startedRoster
      /\ new.resultsReported = game.resultsReported
  BY DEF IsStagedGame
<1>2. /\ DOMAIN m = DOMAIN game.members \union {u}
      /\ \A q \in DOMAIN game.members : m[q] = game.members[q]
      /\ m[u].slot = slot
      /\ m[u].ready = FALSE
  BY DEF Put, NewMember
<1>3. slot \in Slot /\ \A q \in DOMAIN game.members : game.members[q].slot # slot
  BY FreeSlot, FirstOpenSlotType
<1> HIDE DEF slot, m, new
<1>4. Cardinality(DOMAIN m) <= game.maxPlayers
  <2>1. IsFiniteSet(DOMAIN game.members)
        /\ Cardinality(DOMAIN game.members) \in Nat
    BY FewMembers
  <2>2. Cardinality(DOMAIN game.members \union {u}) =
           Cardinality(DOMAIN game.members) + 1
    BY <2>1, FS_AddElement
  <2>3. game.maxPlayers \in Nat
    BY SlotCountAssumption DEF IsStagedGame
  <2> QED BY <1>2, <2>1, <2>2, <2>3
<1>5. \A p, q \in DOMAIN m : /\ m[p].slot \in Slot
                             /\ m[p].slot = m[q].slot => p = q
  BY <1>2, <1>3 DEF SoundGame
<1>6. SoundGame(new)
  BY <1>1, <1>2, <1>4, <1>5 DEF SoundGame
<1>7. OnlyShrinks(game, new)
  BY <1>1 DEF OnlyShrinks
<1>8. KeepsConsent(game, new, {})
  BY <1>1, <1>2 DEF KeepsConsent
<1>9. Moved(game, new, {})
  BY <1>6, <1>7, <1>8 DEF Moved
<1> QED BY <1>9 DEF new, m, slot

\* A member's new connection.
LEMMA ReconnectedMoves ==
    ASSUME NEW game, IsStagedGame(game), SoundGame(game),
           NEW u \in DOMAIN game.members, NEW c
    PROVE  Moved(game, [game EXCEPT !.members[u].client = c], {})
<1> DEFINE m == [game.members EXCEPT ![u].client = c]
           new == [game EXCEPT !.members = m]
<1>1. /\ new.members = m
      /\ new.state = game.state
      /\ new.hostID = game.hostID
      /\ new.maxPlayers = game.maxPlayers
      /\ new.readyKey = game.readyKey
      /\ new.startedRoster = game.startedRoster
      /\ new.resultsReported = game.resultsReported
  BY DEF IsStagedGame
<1>2. /\ DOMAIN m = DOMAIN game.members
      /\ \A q \in DOMAIN m : /\ m[q].slot = game.members[q].slot
                             /\ m[q].ready = game.members[q].ready
  BY DEF IsStagedGame, Member
<1> HIDE DEF m, new
<1>3. SameSeats(game, new)
  BY <1>1, <1>2 DEF SameSeats, SoundGame
<1>4. KeepsConsent(game, new, {})
  BY <1>1, <1>2 DEF KeepsConsent
<1>5. Moved(game, new, {})
  BY <1>3, <1>4, SameSeatsMove DEF Moved
<1> QED BY <1>5 DEF new, m

\* New options: another ready key leaves only the host's flag standing.
LEMMA OptionsMove ==
    ASSUME NEW game, IsStagedGame(game), SoundGame(game), NEW max, NEW stats,
           NEW key, game.state = "open",
           max >= Cardinality(DOMAIN game.members), max \in Nat
    PROVE  Moved(game,
              [game EXCEPT !.maxPlayers = max, !.useStats = stats,
                           !.readyKey = key,
                           !.members = IF key = game.readyKey THEN @
                                       ELSE Unready(@, game.hostID)], {})
<1> DEFINE m == IF key = game.readyKey THEN game.members
                ELSE Unready(game.members, game.hostID)
           new == [game EXCEPT !.maxPlayers = max, !.useStats = stats,
                               !.readyKey = key, !.members = m]
<1>1. /\ new.members = m
      /\ new.state = game.state
      /\ new.hostID = game.hostID
      /\ new.maxPlayers = max
      /\ new.readyKey = key
      /\ new.startedRoster = game.startedRoster
      /\ new.resultsReported = game.resultsReported
  BY DEF IsStagedGame
<1>2. /\ DOMAIN m = DOMAIN game.members
      /\ \A q \in DOMAIN m : m[q].slot = game.members[q].slot
  BY DEF IsStagedGame, Member, Unready
<1>3. \A q \in DOMAIN m \ {game.hostID} :
         m[q].ready => key = game.readyKey /\ game.members[q].ready
  BY DEF IsStagedGame, Member, Unready
<1> HIDE DEF m, new
<1>4. Cardinality(DOMAIN game.members) <= new.maxPlayers
  BY <1>1, FewMembers
<1>5. SameSeats(game, new)
  BY <1>1, <1>2, <1>4 DEF SameSeats
<1>6. KeepsConsent(game, new, {})
  BY <1>1, <1>2, <1>3 DEF KeepsConsent
<1>7. Moved(game, new, {})
  BY <1>5, <1>6, SameSeatsMove DEF Moved
<1> QED BY <1>7 DEF new, m

\* A member's own ready flag.
LEMMA ReadiedMoves ==
    ASSUME NEW game, IsStagedGame(game), SoundGame(game),
           NEW u \in DOMAIN game.members, NEW ready \in BOOLEAN, NEW U,
           ready => u \in U
    PROVE  Moved(game, [game EXCEPT !.members[u].ready = ready], U)
<1> DEFINE m == [game.members EXCEPT ![u].ready = ready]
           new == [game EXCEPT !.members = m]
<1>1. /\ new.members = m
      /\ new.state = game.state
      /\ new.hostID = game.hostID
      /\ new.maxPlayers = game.maxPlayers
      /\ new.readyKey = game.readyKey
      /\ new.startedRoster = game.startedRoster
      /\ new.resultsReported = game.resultsReported
  BY DEF IsStagedGame
<1>2. /\ DOMAIN m = DOMAIN game.members
      /\ \A q \in DOMAIN m : m[q].slot = game.members[q].slot
  BY DEF IsStagedGame, Member
<1>3. \A q \in DOMAIN m : m[q].ready => game.members[q].ready \/ q \in U
  BY DEF IsStagedGame, Member
<1> HIDE DEF m, new
<1>4. SameSeats(game, new)
  BY <1>1, <1>2 DEF SameSeats, SoundGame
<1>5. KeepsConsent(game, new, U)
  BY <1>1, <1>2, <1>3 DEF KeepsConsent
<1>6. Moved(game, new, U)
  BY <1>4, <1>5, SameSeatsMove DEF Moved
<1> QED BY <1>6 DEF new, m

\* The host starts the lobby.
LEMMA StartingMoves ==
    ASSUME NEW game, IsStagedGame(game), SoundGame(game), NEW generation,
           game.state = "open", Cardinality(DOMAIN game.members) >= 2
    PROVE  Moved(game,
              [game EXCEPT !.state = "starting", !.resultsReported = FALSE,
                           !.members = NoneStartReady(@),
                           !.startGeneration = generation], {})
<1> DEFINE m == NoneStartReady(game.members)
           new == [game EXCEPT !.state = "starting", !.resultsReported = FALSE,
                               !.members = m, !.startGeneration = generation]
<1>1. /\ new.members = m
      /\ new.state = "starting"
      /\ new.hostID = game.hostID
      /\ new.maxPlayers = game.maxPlayers
      /\ new.readyKey = game.readyKey
      /\ new.startedRoster = game.startedRoster
      /\ new.resultsReported = FALSE
  BY DEF IsStagedGame
<1>2. /\ DOMAIN m = DOMAIN game.members
      /\ \A q \in DOMAIN m : /\ m[q].slot = game.members[q].slot
                             /\ m[q].ready = game.members[q].ready
  BY DEF IsStagedGame, Member, NoneStartReady
<1> HIDE DEF m, new
<1>3. SameSeats(game, new)
  BY <1>1, <1>2 DEF SameSeats, SoundGame
<1>4. KeepsConsent(game, new, {})
  BY <1>1, <1>2 DEF KeepsConsent
<1>5. Moved(game, new, {})
  BY <1>3, <1>4, SameSeatsMove DEF Moved
<1> QED BY <1>5 DEF new, m

\* A member confirms the start.
LEMMA ConfirmedMoves ==
    ASSUME NEW game, IsStagedGame(game), SoundGame(game),
           NEW u \in DOMAIN game.members
    PROVE  LET m == [game.members EXCEPT ![u].startReady = TRUE]
           IN  Moved(game, [game EXCEPT !.members = m], {})
<1> DEFINE m == [game.members EXCEPT ![u].startReady = TRUE]
           new == [game EXCEPT !.members = m]
<1>1. /\ new.members = m
      /\ new.state = game.state
      /\ new.hostID = game.hostID
      /\ new.maxPlayers = game.maxPlayers
      /\ new.readyKey = game.readyKey
      /\ new.startedRoster = game.startedRoster
      /\ new.resultsReported = game.resultsReported
  BY DEF IsStagedGame
<1>2. /\ DOMAIN m = DOMAIN game.members
      /\ \A q \in DOMAIN m : /\ m[q].slot = game.members[q].slot
                             /\ m[q].ready = game.members[q].ready
  BY DEF IsStagedGame, Member
<1> HIDE DEF m, new
<1>3. SameSeats(game, new)
  BY <1>1, <1>2 DEF SameSeats, SoundGame
<1>4. KeepsConsent(game, new, {})
  BY <1>1, <1>2 DEF KeepsConsent
<1>5. Moved(game, new, {})
  BY <1>3, <1>4, SameSeatsMove DEF Moved
<1> QED BY <1>5 DEF new, m

\* And the last one: the game goes, its roster is who is in it.
LEMMA GoneMoves ==
    ASSUME NEW game, IsStagedGame(game), SoundGame(game),
           NEW u \in DOMAIN game.members, game.state = "starting"
    PROVE  LET m == [game.members EXCEPT ![u].startReady = TRUE]
           IN  Moved(game,
                  [game EXCEPT !.state = "started", !.members = m,
                               !.startedRoster = DOMAIN m,
                               !.startGeneration = @ + 1], {})
<1> DEFINE m == [game.members EXCEPT ![u].startReady = TRUE]
           new == [game EXCEPT !.state = "started", !.members = m,
                               !.startedRoster = DOMAIN m,
                               !.startGeneration = @ + 1]
<1>1. /\ new.members = m
      /\ new.state = "started"
      /\ new.hostID = game.hostID
      /\ new.maxPlayers = game.maxPlayers
      /\ new.readyKey = game.readyKey
      /\ new.startedRoster = DOMAIN m
  BY DEF IsStagedGame
<1>2. /\ DOMAIN m = DOMAIN game.members
      /\ \A q \in DOMAIN m : /\ m[q].slot = game.members[q].slot
                             /\ m[q].ready = game.members[q].ready
  BY DEF IsStagedGame, Member
<1> HIDE DEF m, new
<1>3. SameSeats(game, new)
  BY <1>1, <1>2 DEF SameSeats, SoundGame
<1>4. KeepsConsent(game, new, {})
  BY <1>1, <1>2 DEF KeepsConsent
<1>5. Moved(game, new, {})
  BY <1>3, <1>4, SameSeatsMove DEF Moved
<1> QED BY <1>5 DEF new, m

\* The report of a started game.
LEMMA ReportedMoves ==
    ASSUME NEW game, IsStagedGame(game), SoundGame(game),
           game.state = "started"
    PROVE  Moved(game, [game EXCEPT !.resultsReported = TRUE], {})
<1> DEFINE new == [game EXCEPT !.resultsReported = TRUE]
<1>1. /\ new.members = game.members
      /\ new.state = game.state
      /\ new.hostID = game.hostID
      /\ new.maxPlayers = game.maxPlayers
      /\ new.readyKey = game.readyKey
      /\ new.startedRoster = game.startedRoster
      /\ new.resultsReported
  BY DEF IsStagedGame
<1> HIDE DEF new
<1>2. SameSeats(game, new)
  BY <1>1 DEF SameSeats, SoundGame
<1>3. KeepsConsent(game, new, {})
  BY <1>1 DEF KeepsConsent
<1>4. Moved(game, new, {})
  BY <1>2, <1>3, SameSeatsMove DEF Moved
<1> QED BY <1>4 DEF new

\* A lobby is created with its host in slot 0,
LEMMA CreatedSound ==
    ASSUME NEW game, NEW u, game.state = "open", game.hostID = u,
           game.maxPlayers \in 2 .. SlotCount,
           DOMAIN game.members = {u}, game.members[u].slot = 0,
           game.startedRoster = {}, game.resultsReported = FALSE
    PROVE  SoundGame(game)
<1>1. Cardinality({u}) = 1
  BY FS_Singleton
<1>2. Cardinality(DOMAIN game.members) <= game.maxPlayers
  BY <1>1, SlotCountAssumption
<1>3. \A p, q \in DOMAIN game.members :
         /\ game.members[p].slot \in Slot
         /\ game.members[p].slot = game.members[q].slot => p = q
  BY SlotCountAssumption DEF Slot
<1> QED BY <1>2, <1>3 DEF SoundGame

\* and a match with its two players side by side.
LEMMA MatchedSound ==
    ASSUME NEW c, NEW p, NEW n, p # UserOf[c]
    PROVE  SoundGame(MatchedGame(c, p, n))
<1> DEFINE u == UserOf[c]
           game == MatchedGame(c, p, n)
<1>1. /\ game.state = "starting"
      /\ game.hostID = p
      /\ game.maxPlayers = 2
      /\ game.startedRoster = {}
      /\ game.resultsReported = FALSE
      /\ DOMAIN game.members = {p, u}
      /\ game.members[p].slot = 0
      /\ game.members[u].slot = 1
  BY DEF MatchedGame, NewMember
<1>2. Cardinality({p, u}) = 2
  <2>1. IsFiniteSet({p}) /\ Cardinality({p}) = 1
    BY FS_Singleton
  <2>2. Cardinality({p} \union {u}) = Cardinality({p}) + 1
    BY <2>1, FS_AddElement
  <2>3. {p} \union {u} = {p, u}
    OBVIOUS
  <2> QED BY <2>1, <2>2, <2>3
<1> HIDE DEF game
<1>3. SoundGame(game)
  BY <1>1, <1>2, SlotCountAssumption DEF SoundGame, Slot
<1> QED BY <1>3 DEF game

-----------------------------------------------------------------------------
(* What a step does to the games.                                          *)

\* The users who ready up in g in this step.
Readying(g) ==
    {p \in Player : \E c \in Client : UserOf[c] = p /\ MarkGameReady(c, g, TRUE)}

\* Games that stay move as a game may, and games that come are sound.
GamesMove ==
    \A g \in DOMAIN games' :
        IF g \in DOMAIN games
        THEN Moved(games[g], games'[g], Readying(g))
        ELSE SoundGame(games'[g])

\* A game may also stand still.
LEMMA StillMoves ==
    ASSUME NEW game, SoundGame(game), NEW U
    PROVE  Moved(game, game, U)
BY DEF Moved, OnlyShrinks, KeepsConsent

\* A step that only ends games.
LEMMA FewerGames ==
    ASSUME GamesAreSound, DOMAIN games' \subseteq DOMAIN games,
           \A g \in DOMAIN games' : games'[g] = games[g]
    PROVE  GamesMove
BY SoundGames, StillMoves DEF GamesMove

\* A step that brings a game.
LEMMA OneGameMore ==
    ASSUME GamesAreSound, NEW g, g \notin DOMAIN games, NEW game,
           SoundGame(game), games' = Put(games, g, game)
    PROVE  GamesMove
<1>1. /\ DOMAIN games' = DOMAIN games \union {g}
      /\ games'[g] = game
      /\ \A h \in DOMAIN games : games'[h] = games[h]
  BY DEF Put
<1> QED BY <1>1, SoundGames, StillMoves DEF GamesMove

\* A step that changes one game.
LEMMA OneGameReadies ==
    ASSUME GamesAreSound, NEW g \in DOMAIN games, NEW game, NEW U,
           U \subseteq Readying(g), Moved(games[g], game, U),
           games' = [games EXCEPT ![g] = game]
    PROVE  GamesMove
<1>1. Moved(games[g], game, Readying(g))
  BY DEF Moved, KeepsConsent
<1>2. /\ DOMAIN games' = DOMAIN games
      /\ games'[g] = game
      /\ \A h \in DOMAIN games \ {g} : games'[h] = games[h]
  OBVIOUS
<1>3. ASSUME NEW h \in DOMAIN games
      PROVE  Moved(games[h], games'[h], Readying(h))
  <2>1. CASE h = g
    BY <1>1, <1>2, <2>1
  <2>2. CASE h # g
    <3>1. games'[h] = games[h] /\ SoundGame(games[h])
      BY <1>2, <2>2, SoundGames
    <3> QED BY <3>1, StillMoves
  <2> QED BY <2>1, <2>2
<1> QED BY <1>2, <1>3 DEF GamesMove

\* A step that changes one game and no ready flag.
LEMMA OneGameMoves ==
    ASSUME GamesAreSound, NEW g \in DOMAIN games, NEW game,
           Moved(games[g], game, {}), games' = [games EXCEPT ![g] = game]
    PROVE  GamesMove
<1> DEFINE U == {}
<1>1. U \subseteq Readying(g) /\ Moved(games[g], game, U)
  OBVIOUS
<1> HIDE DEF U
<1> QED BY <1>1, OneGameReadies

\* Whoever leaves: the game goes on without him, or ends.
LEMMA LeaveMoves ==
    ASSUME LinkInv, GamesAreSound, NEW p \in Player, LeaveGame(p)
    PROVE  GamesMove
<1> DEFINE g == userGame[p]
           stay == Without(games[g].members, {p})
<1>1. CASE UNCHANGED games
  BY <1>1, FewerGames
<1>2. CASE Dissolve(g, {p}, {})
  <2>1. games' = Without(games, {g})
    BY <1>2 DEF Dissolve
  <2> QED BY <2>1, FewerGames DEF Without
<1>3. CASE /\ g \in DOMAIN games
           /\ ~ LeavingDissolves(g, p)
           /\ games' = [games EXCEPT ![g].members = stay]
  <2> DEFINE new == [games[g] EXCEPT !.members = Without(@, {p})]
  <2>1. IsStagedGame(games[g]) /\ SoundGame(games[g])
    BY <1>3, SoundGames DEF LinkInv, TypeOK, IsGames
  <2>2. Moved(games[g], new, {})
    BY <1>3, <2>1, LeftMoves DEF LeavingDissolves
  <2>3. games' = [games EXCEPT ![g] = new]
    BY <1>3
  <2> HIDE DEF new
  <2> QED BY <1>3, <2>2, <2>3, OneGameMoves
<1> QED BY <1>1, <1>2, <1>3 DEF LeaveGame

\* Every step of the hub moves games as they may move.
LEMMA StepMoves ==
    ASSUME LinkInv, GamesAreSound, [Next]_vars
    PROVE  GamesMove
<1> USE DEF stageVars, relayVars
<1>0. \A g \in DOMAIN games : IsStagedGame(games[g]) /\ SoundGame(games[g])
  BY SoundGames DEF LinkInv, TypeOK, IsGames
<1>1. ASSUME games' = games PROVE GamesMove
  BY <1>1, FewerGames
<1>2. ASSUME NEW g, NEW gone, NEW handled, Dissolve(g, gone, handled)
      PROVE  GamesMove
  <2>1. games' = Without(games, {g})
    BY <1>2 DEF Dissolve
  <2> QED BY <2>1, FewerGames DEF Without
<1>3. ASSUME NEW p \in Player, DisconnectLocked(p) PROVE GamesMove
  BY <1>3, LeaveMoves DEF DisconnectLocked
<1>4. ASSUME NEW c \in Client, Connect(c) PROVE GamesMove
  <2> DEFINE u == UserOf[c]
             g == userGame[u]
             new == [games[g] EXCEPT !.members[u].client = c]
  <2>1. CASE g \in DOMAIN games /\ u \in DOMAIN games[g].members
    <3>1. games' = [games EXCEPT ![g] = new]
      BY <1>4, <2>1 DEF Connect
    <3>2. Moved(games[g], new, {})
      BY <1>0, <2>1, ReconnectedMoves
    <3> HIDE DEF new
    <3> QED BY <2>1, <3>1, <3>2, OneGameMoves
  <2>2. CASE ~ (g \in DOMAIN games /\ u \in DOMAIN games[g].members)
    BY <1>1, <1>4, <2>2 DEF Connect
  <2> QED BY <2>1, <2>2
<1>5. ASSUME NEW c \in Client, NEW g \in GameId, NEW max \in 2 .. SlotCount,
             NEW stats \in BOOLEAN, NEW key \in ReadyKey,
             CreateGame(c, g, max, stats, key)
      PROVE  GamesMove
  <2> DEFINE u == UserOf[c]
             new == [state |-> "open", listed |-> TRUE, hostID |-> u,
               maxPlayers |-> max, useStats |-> stats, readyKey |-> key,
               members |-> [p \in {u} |-> NewMember(c, FALSE, 0)],
               startedRoster |-> {}, resultsReported |-> FALSE,
               startGeneration |-> 0]
  <2>1. games' = Put(games, g, new) /\ g \notin DOMAIN games
    BY <1>5 DEF CreateGame, NewGameID
  <2>2. /\ new.state = "open" /\ new.hostID = u /\ new.maxPlayers \in 2 .. SlotCount
        /\ DOMAIN new.members = {u} /\ new.members[u].slot = 0
        /\ new.startedRoster = {} /\ new.resultsReported = FALSE
    BY DEF NewMember
  <2> HIDE DEF new, u
  <2>3. SoundGame(new)
    BY <2>2, CreatedSound
  <2> QED BY <2>1, <2>3, OneGameMore
<1>6. ASSUME NEW c \in Client, NEW g \in GameId, JoinGame(c, g)
      PROVE  GamesMove
  <2> DEFINE u == UserOf[c]
             game == games[g]
             new == [game EXCEPT !.members =
                Put(@, u, NewMember(c, FALSE, FirstOpenSlot(game.members)))]
  <2>1. /\ g \in DOMAIN games /\ userGame[u] = NoGame
        /\ game.state = "open"
        /\ Cardinality(DOMAIN game.members) < game.maxPlayers
        /\ games' = [games EXCEPT ![g] = new]
    BY <1>6 DEF JoinGame, Joinable
  <2>2. u \notin DOMAIN game.members
    BY <2>1, NoGameAssumption, UserOfAssumption DEF LinkInv, MembershipAgrees
  <2>3. Moved(game, new, {})
    BY <1>0, <2>1, <2>2, JoinedMoves
  <2> HIDE DEF new
  <2> QED BY <2>1, <2>3, OneGameMoves
<1>7. ASSUME NEW c \in Client, NEW g \in GameId, NEW max \in 2 .. SlotCount,
             NEW stats \in BOOLEAN, NEW key \in ReadyKey,
             UpdateGameOptions(c, g, max, stats, key)
      PROVE  GamesMove
  <2> DEFINE game == games[g]
             new == [game EXCEPT !.maxPlayers = max, !.useStats = stats,
                           !.readyKey = key,
                           !.members = IF key = game.readyKey THEN @
                                       ELSE Unready(@, game.hostID)]
  <2>1. /\ g \in DOMAIN games /\ game.state = "open"
        /\ max >= Cardinality(DOMAIN game.members)
        /\ games' = [games EXCEPT ![g] = new]
    BY <1>7 DEF UpdateGameOptions, InGame
  <2>2. max \in Nat
    BY SlotCountAssumption
  <2>3. Moved(game, new, {})
    BY <1>0, <2>1, <2>2, OptionsMove
  <2> HIDE DEF new
  <2> QED BY <2>1, <2>3, OneGameMoves
<1>8. ASSUME NEW c \in Client, NEW g \in GameId, NEW ready \in BOOLEAN,
             MarkGameReady(c, g, ready)
      PROVE  GamesMove
  <2> DEFINE u == UserOf[c]
             game == games[g]
             U == IF ready THEN {u} ELSE {}
             new == [game EXCEPT !.members[u].ready = ready]
  <2>1. /\ g \in DOMAIN games /\ userGame[u] = g /\ u \in Player
        /\ games' = [games EXCEPT ![g] = new]
    BY <1>8, UserOfAssumption DEF MarkGameReady, InGame
  <2>2. u \in DOMAIN game.members
    BY <2>1 DEF LinkInv, MembershipAgrees
  <2>3. U \subseteq Readying(g)
    <3>1. CASE ready
      BY <1>8, <2>1, <3>1 DEF Readying
    <3>2. CASE ~ ready
      BY <3>2
    <3> QED BY <3>1, <3>2
  <2>4. ready => u \in U
    OBVIOUS
  <2>5. IsStagedGame(game) /\ SoundGame(game)
    BY <1>0, <2>1
  <2> HIDE DEF U, u, game
  <2>6. Moved(game, new, U)
    BY <2>2, <2>4, <2>5, ReadiedMoves
  <2> USE DEF game
  <2> HIDE DEF new
  <2> QED BY <2>1, <2>3, <2>6, OneGameReadies
<1>9. ASSUME NEW c \in Client, NEW g \in GameId, StartGame(c, g)
      PROVE  GamesMove
  <2> DEFINE game == games[g]
             n == game.startGeneration + 1
             new == [game EXCEPT !.state = "starting", !.resultsReported = FALSE,
                           !.members = NoneStartReady(@),
                           !.startGeneration = n]
  <2>1. /\ g \in DOMAIN games /\ game.state = "open"
        /\ Cardinality(DOMAIN game.members) >= 2
        /\ games' = [games EXCEPT ![g] = new]
    BY <1>9 DEF StartGame, InGame
  <2> HIDE DEF n
  <2>2. Moved(game, new, {})
    BY <1>0, <2>1, StartingMoves
  <2> HIDE DEF new
  <2> QED BY <2>1, <2>2, OneGameMoves
<1>10. ASSUME NEW c \in Client, NEW g \in GameId, MarkGameStartReady(c, g)
       PROVE  GamesMove
  <2> DEFINE u == UserOf[c]
             game == games[g]
             m == [game.members EXCEPT ![u].startReady = TRUE]
             started == [game EXCEPT !.state = "started", !.members = m,
                                 !.startedRoster = DOMAIN m,
                                 !.startGeneration = @ + 1]
             confirmed == [game EXCEPT !.members = m]
  <2>1. g \in DOMAIN games /\ u \in DOMAIN game.members /\ game.state = "starting"
    BY <1>10 DEF MarkGameStartReady, InGame
  <2>2. \/ games' = [games EXCEPT ![g] = started]
        \/ games' = [games EXCEPT ![g] = confirmed]
    BY <1>10 DEF MarkGameStartReady
  <2>3. Moved(game, started, {})
    BY <1>0, <2>1, GoneMoves
  <2>4. Moved(game, confirmed, {})
    BY <1>0, <2>1, ConfirmedMoves
  <2> HIDE DEF started, confirmed
  <2> QED BY <2>1, <2>2, <2>3, <2>4, OneGameMoves
<1>11. ASSUME NEW t \in timers, HandleStartReadyTimeout(t) PROVE GamesMove
  BY <1>1, <1>2, <1>11 DEF HandleStartReadyTimeout
<1>12. ASSUME NEW c \in Client, NEW g \in GameId, EndGame(c, g) PROVE GamesMove
  BY <1>2, <1>12 DEF EndGame
<1>13. ASSUME NEW g \in GameId, AdminCloseGame(g) PROVE GamesMove
  BY <1>2, <1>13 DEF AdminCloseGame
<1>14. ASSUME NEW c \in Client, NEW g \in GameId, NEW reported \in SUBSET Player,
              StatsResults(c, g, reported)
       PROVE  GamesMove
  <2> DEFINE new == [games[g] EXCEPT !.resultsReported = TRUE]
  <2>1. /\ g \in DOMAIN games /\ games[g].state = "started"
        /\ games' = [games EXCEPT ![g] = new]
    BY <1>14 DEF StatsResults
  <2>2. Moved(games[g], new, {})
    BY <1>0, <2>1, ReportedMoves
  <2> HIDE DEF new
  <2> QED BY <2>1, <2>2, OneGameMoves
<1>15. ASSUME NEW c \in Client, NEW k \in MatchKey, QuickmatchEnqueue(c, k)
       PROVE  GamesMove
  <2>1. CASE UNCHANGED stageVars
    BY <1>1, <2>1
  <2>2. ASSUME NEW p \in Opponents(k), NEW g \in GameId, NewGameID(g),
               games' = Put(games, g, MatchedGame(c, p, 1)),
               UserOf[c] \notin DOMAIN matchQueue
        PROVE  GamesMove
    <3>1. p # UserOf[c]
      BY <2>2 DEF Opponents
    <3>2. SoundGame(MatchedGame(c, p, 1))
      BY <3>1, MatchedSound
    <3> QED BY <2>2, <3>2, OneGameMore DEF NewGameID
  <2> QED BY <1>15, <2>1, <2>2 DEF QuickmatchEnqueue
<1>16. ASSUME NEW g \in GameId, HandleRelayGameExpired(g) PROVE GamesMove
  BY <1>1, <1>2, <1>16 DEF HandleRelayGameExpired
<1>17. ASSUME NEW c \in Client, Command(c) PROVE GamesMove
  <2>1. ASSUME NEW g \in GameId, NEW target \in Player,
               KickGameMember(c, g, target)
        PROVE  GamesMove
    BY <2>1, LeaveMoves DEF KickGameMember
  <2>2. ASSUME LeaveGameCommand(c) PROVE GamesMove
    BY <2>2, LeaveMoves, UserOfAssumption DEF LeaveGameCommand
  <2>3. ASSUME QuickmatchCancel(c) PROVE GamesMove
    BY <1>1, <2>3 DEF QuickmatchCancel
  <2> QED
    BY <1>5, <1>6, <1>7, <1>8, <1>9, <1>10, <1>12, <1>14, <1>15, <1>17, <2>1,
       <2>2, <2>3
    DEF Command
<1>18. ASSUME NEW c \in Client, Disconnect(c) PROVE GamesMove
  BY <1>3, <1>18, UserOfAssumption DEF Disconnect
<1>19. ASSUME NEW p \in Player, AdminDisconnect(p) PROVE GamesMove
  BY <1>3, <1>19 DEF AdminDisconnect
<1>20. CASE \/ UNCHANGED vars
            \/ \E t \in timers : TimerFires(t)
            \/ \E expired \in SUBSET GameId : RelayExpires(expired)
            \/ RelayClose
  BY <1>1, <1>20 DEF vars, TimerFires, RelayExpires, RelayClose
<1> QED
  BY <1>4, <1>11, <1>13, <1>16, <1>17, <1>18, <1>19, <1>20 DEF Next

-----------------------------------------------------------------------------
(* Games.                                                                  *)

\* Sound games stay sound.
LEMMA SoundStep ==
    ASSUME LinkInv, GamesAreSound, [Next]_vars
    PROVE  GamesAreSound'
<1>1. \A g \in DOMAIN games' : SoundGame(games'[g])
  BY StepMoves DEF GamesMove, Moved
<1>2. (GamesAreSound <=> \A g \in DOMAIN games : SoundGame(games[g]))'
  BY SoundGames, PTL
<1>3. (\A g \in DOMAIN games : SoundGame(games[g]))'
      <=> \A g \in DOMAIN games' : SoundGame(games'[g])
  BY DEF SoundGame, Slot
<1> QED BY <1>1, <1>2, <1>3

\* In whatever order players join, leave, start, report and are thrown out,
\* slots are distinct, hosts are where they belong, and rosters fit.
THEOREM GamesCorrect == Spec => []GamesAreSound
<1>1. Init => GamesAreSound
  <2>1. Init => DOMAIN games = {}
    BY DEF Init, EmptyMap
  <2> QED BY <2>1, SoundGames
<1>2. LinkInv /\ GamesAreSound /\ [Next]_vars => GamesAreSound'
  BY SoundStep
<1> QED BY <1>1, <1>2, LinksHold, PTL DEF Spec

\* After a start is under way nobody enters; after game.go the terms stand.
THEOREM RunningGamesOnlyShrinkCorrect == Spec => RunningGamesOnlyShrink
<1> DEFINE Terms(old, new) ==
              old.state # "open" =>
                 /\ new.state # "open"
                 /\ DOMAIN new.members \subseteq DOMAIN old.members
                 /\ \A p \in DOMAIN new.members :
                       new.members[p].slot = old.members[p].slot
                 /\ new.hostID = old.hostID
                 /\ old.state = "started" =>
                       /\ new.state = "started"
                       /\ new.startedRoster = old.startedRoster
                       /\ old.resultsReported => new.resultsReported
<1>1. LinkInv /\ GamesAreSound /\ [Next]_vars
      => \A g \in DOMAIN games \intersect DOMAIN games' :
            Terms(games[g], games'[g])
  BY StepMoves DEF GamesMove, Moved, OnlyShrinks
<1> QED BY <1>1, LinksHold, GamesCorrect, PTL DEF Spec, RunningGamesOnlyShrink

\* A ready flag is an agreement to the current key, given by its owner.
THEOREM ConsentCorrect == Spec => ReadinessIsConsent
<1>1. LinkInv /\ GamesAreSound /\ [Next]_vars
      => \A g \in DOMAIN games \intersect DOMAIN games' :
          \A p \in DOMAIN games'[g].members \ {games[g].hostID} :
             games'[g].members[p].ready =>
                /\ p \in DOMAIN games[g].members
                /\ \/ games[g].members[p].ready
                   \/ \E c \in Client : UserOf[c] = p /\ MarkGameReady(c, g, TRUE)
                /\ games'[g].readyKey = games[g].readyKey
  BY StepMoves DEF GamesMove, Moved, KeepsConsent, Readying
<1> QED BY <1>1, LinksHold, GamesCorrect, PTL DEF Spec, ReadinessIsConsent

-----------------------------------------------------------------------------
(* The start timers.                                                       *)

\* The start of g is under way, and it is the n-th thing to be timed.
Starting(g, n) ==
    /\ g \in DOMAIN games
    /\ games[g].state = "starting"
    /\ games[g].startGeneration = n

\* StartTimerMatches, said of starts.
LEMMA TimersMatch ==
    StartTimerMatches <=>
        /\ \A g, n : Starting(g, n) =>
              \E t \in timers : t.game = g /\ t.generation = n
        /\ \A t \in timers : ~ t.fired => Starting(t.game, t.generation)
BY DEF StartTimerMatches, Starting

\* The same after a step.
LEMMA TimersMatchNext ==
    ASSUME \A g, n : Starting(g, n)' =>
              \E t \in timers' : t.game = g /\ t.generation = n,
           \A t \in timers' : ~ t.fired => Starting(t.game, t.generation)'
    PROVE  StartTimerMatches'
<1>1. (StartTimerMatches <=>
        /\ \A g, n : Starting(g, n) =>
              \E t \in timers : t.game = g /\ t.generation = n
        /\ \A t \in timers : ~ t.fired => Starting(t.game, t.generation))'
  BY TimersMatch, PTL
<1> QED BY <1>1

\* Nothing starts or stops.
LEMMA TimersRest ==
    ASSUME StartTimerMatches, timers' = timers,
           \A h, n : Starting(h, n)' <=> Starting(h, n)
    PROVE  StartTimerMatches'
BY TimersMatch, TimersMatchNext

\* The start of g is over, one way or the other, and so is its timer.
LEMMA TimersStop ==
    ASSUME StartTimerMatches, NEW g, NEW handled,
           \A t \in handled : t.game = g,
           timers' = StopTimer(g) \ handled,
           \A n : ~ Starting(g, n)',
           \A h, n : h # g => (Starting(h, n)' <=> Starting(h, n))
    PROVE  StartTimerMatches'
<1>1. ASSUME NEW h, NEW n, Starting(h, n)'
      PROVE  \E t \in timers' : t.game = h /\ t.generation = n
  <2>1. h # g /\ Starting(h, n)
    BY <1>1
  <2>2. PICK t \in timers : t.game = h /\ t.generation = n
    BY <2>1, TimersMatch
  <2> QED BY <2>1, <2>2 DEF StopTimer
<1>2. ASSUME NEW t \in timers', ~ t.fired
      PROVE  Starting(t.game, t.generation)'
  <2>1. t \in timers /\ t.game # g
    BY <1>2 DEF StopTimer
  <2> QED BY <1>2, <2>1, TimersMatch
<1> QED BY <1>1, <1>2, TimersMatchNext

\* The start of g begins, with a timer of its own.
LEMMA TimersArm ==
    ASSUME StartTimerMatches, NEW g, NEW n, timers' = ArmTimer(g, n),
           \A m : Starting(g, m)' <=> m = n,
           \A h, m : h # g => (Starting(h, m)' <=> Starting(h, m))
    PROVE  StartTimerMatches'
<1> DEFINE new == [game |-> g, generation |-> n, fired |-> FALSE]
<1>1. new \in timers' /\ StopTimer(g) \subseteq timers'
  BY DEF ArmTimer
<1>2. ASSUME NEW h, NEW m, Starting(h, m)'
      PROVE  \E t \in timers' : t.game = h /\ t.generation = m
  <2>1. CASE h = g
    BY <1>1, <1>2, <2>1
  <2>2. CASE h # g
    <3>1. PICK t \in timers : t.game = h /\ t.generation = m
      BY <1>2, <2>2, TimersMatch
    <3> QED BY <1>1, <2>2, <3>1 DEF StopTimer
  <2> QED BY <2>1, <2>2
<1>3. ASSUME NEW t \in timers', ~ t.fired
      PROVE  Starting(t.game, t.generation)'
  <2>1. CASE t = new
    BY <2>1
  <2>2. CASE t \in timers /\ t.game # g
    BY <1>3, <2>2, TimersMatch
  <2> QED BY <1>3, <2>1, <2>2 DEF ArmTimer, StopTimer
<1> QED BY <1>2, <1>3, TimersMatchNext

\* A timer fires: its callback waits for h.mu.
LEMMA TimersFire ==
    ASSUME TypeOK, StartTimerMatches, NEW t \in timers, TimerFires(t)
    PROVE  StartTimerMatches'
<1> DEFINE new == [t EXCEPT !.fired = TRUE]
<1>1. timers' = (timers \ {t}) \union {new} /\ games' = games
  BY DEF TimerFires
<1>2. new.game = t.game /\ new.generation = t.generation /\ new.fired
  BY DEF TypeOK, Timer
<1> HIDE DEF new
<1>3. \A h, n : Starting(h, n)' <=> Starting(h, n)
  BY <1>1 DEF Starting
<1>4. ASSUME NEW h, NEW n, Starting(h, n)'
      PROVE  \E s \in timers' : s.game = h /\ s.generation = n
  <2>1. PICK s \in timers : s.game = h /\ s.generation = n
    BY <1>3, <1>4, TimersMatch
  <2> QED BY <1>1, <1>2, <2>1
<1>5. ASSUME NEW s \in timers', ~ s.fired
      PROVE  Starting(s.game, s.generation)'
  BY <1>1, <1>2, <1>3, <1>5, TimersMatch
<1> QED BY <1>4, <1>5, TimersMatchNext

\* A callback that comes too late for its start is only forgotten.
LEMMA TimersForget ==
    ASSUME StartTimerMatches, NEW t \in timers, ~ Awaited(t),
           timers' = timers \ {t}, games' = games
    PROVE  StartTimerMatches'
<1>1. \A h, n : Starting(h, n)' <=> Starting(h, n)
  BY DEF Starting
<1>2. ~ Starting(t.game, t.generation)
  BY DEF Awaited, Starting
<1>3. ASSUME NEW h, NEW n, Starting(h, n)'
      PROVE  \E s \in timers' : s.game = h /\ s.generation = n
  <2>1. PICK s \in timers : s.game = h /\ s.generation = n
    BY <1>1, <1>3, TimersMatch
  <2> QED BY <1>1, <1>2, <1>3, <2>1
<1> QED BY <1>1, <1>3, TimersMatch, TimersMatchNext

-----------------------------------------------------------------------------
(* The allocations.                                                        *)

\* A game whose callback is on the way has lost its allocation already, and
\* if it is still there it is one that was running: nothing else ends up
\* among them, and no game that starts later can be mistaken for it.
ExpiringAwaited ==
    \A g \in expiring :
        g \notin DOMAIN relay /\ (g \in DOMAIN games => Running(g))

\* What the allocations need to stay right.
AllocationInv == RelayServesMembers /\ RunningGamesHaveRelay /\ ExpiringAwaited

\* The runs and the seats of running games are what they were.
SameRunning(h) ==
    /\ Running(h)' <=> Running(h)
    /\ Running(h) => Seats(games'[h].members) = Seats(games[h].members)

\* Then the allocations may stay what they were.
LEMMA RelayRests ==
    ASSUME AllocationInv, \A h : SameRunning(h),
           relay' = relay, relayOpen' = relayOpen,
           expiring' \subseteq expiring,
           \A h \in expiring \ expiring' : ~ Running(h),
           \A h \in DOMAIN games' : h \in expiring => h \in DOMAIN games
    PROVE  AllocationInv'
<1>1. \A h : Running(h) => h \in DOMAIN games
  BY DEF Running
<1>2. \A h : Running(h)' => h \in DOMAIN games'
  BY DEF Running
<1>3. RelayServesMembers'
  BY <1>2 DEF RelayServesMembers, SameRunning, AllocationInv
<1>4. RunningGamesHaveRelay'
  <2> SUFFICES ASSUME NEW g \in DOMAIN games', Running(g)'
               PROVE  g \in DOMAIN relay' \/ g \in expiring' \/ ~ relayOpen'
    BY DEF RunningGamesHaveRelay
  <2>1. Running(g)
    BY DEF SameRunning
  <2> QED BY <1>1, <2>1 DEF RunningGamesHaveRelay, AllocationInv
<1>5. ExpiringAwaited'
  BY DEF ExpiringAwaited, SameRunning, AllocationInv
<1> QED BY <1>3, <1>4, <1>5 DEF AllocationInv

\* A game goes with its allocation.
LEMMA RelayEnds ==
    ASSUME AllocationInv, NEW g,
           games' = Without(games, {g}), relay' = Without(relay, {g}),
           relayOpen' = relayOpen, expiring' \subseteq expiring,
           \A h \in expiring \ expiring' : h = g
    PROVE  AllocationInv'
<1>1. /\ DOMAIN games' = DOMAIN games \ {g}
      /\ \A h \in DOMAIN games' : games'[h] = games[h]
      /\ DOMAIN relay' = DOMAIN relay \ {g}
      /\ \A h \in DOMAIN relay' : relay'[h] = relay[h]
  BY DEF Without
<1>2. \A h \in DOMAIN games' : Running(h)' <=> Running(h)
  BY <1>1 DEF Running
<1>3. RelayServesMembers'
  BY <1>1, <1>2 DEF RelayServesMembers, AllocationInv
<1>4. RunningGamesHaveRelay'
  BY <1>1, <1>2 DEF RunningGamesHaveRelay, AllocationInv
<1>5. ExpiringAwaited'
  BY <1>1, <1>2 DEF ExpiringAwaited, AllocationInv
<1> QED BY <1>3, <1>4, <1>5 DEF AllocationInv

\* A game starts with the seats of its members.
LEMMA RelayBegins ==
    ASSUME AllocationInv, NEW g, g \notin expiring \/ g \in DOMAIN games,
           ~ Running(g), Running(g)',
           relay' = Put(relay, g, Seats(games'[g].members)),
           \A h : h # g => /\ h \in DOMAIN games' <=> h \in DOMAIN games
                           /\ h \in DOMAIN games => games'[h] = games[h],
           relayOpen' = relayOpen, expiring' = expiring
    PROVE  AllocationInv'
<1>1. g \in DOMAIN games' /\ g \notin expiring
  BY DEF Running, AllocationInv, ExpiringAwaited
<1>2. /\ DOMAIN relay' = DOMAIN relay \union {g}
      /\ relay'[g] = Seats(games'[g].members)
      /\ \A h \in DOMAIN relay \ {g} : relay'[h] = relay[h]
  BY DEF Put
<1>3. \A h : h # g => (Running(h)' <=> Running(h))
  BY DEF Running
<1>4. RelayServesMembers'
  BY <1>1, <1>2, <1>3 DEF RelayServesMembers, AllocationInv
<1>5. RunningGamesHaveRelay'
  BY <1>2, <1>3 DEF RunningGamesHaveRelay, AllocationInv
<1>6. ExpiringAwaited'
  BY <1>1, <1>2, <1>3 DEF ExpiringAwaited, AllocationInv
<1> QED BY <1>4, <1>5, <1>6 DEF AllocationInv

\* A member leaves a game and with it his seat.
LEMMA RelayUnseats ==
    ASSUME AllocationInv, NEW g \in DOMAIN games, NEW p \in DOMAIN games[g].members,
           IsStagedGame(games[g]), games[g].state # "starting",
           games' = [games EXCEPT ![g].members = Without(games[g].members, {p})],
           relay' = IF games[g].state = "started"
                    THEN RemoveParticipant(g, p, games[g].members[p].slot)
                    ELSE relay,
           relayOpen' = relayOpen, expiring' = expiring
    PROVE  AllocationInv'
<1> DEFINE stay == Without(games[g].members, {p})
<1>1. /\ DOMAIN games' = DOMAIN games
      /\ games'[g].members = stay
      /\ games'[g].state = games[g].state
      /\ \A h \in DOMAIN games \ {g} : games'[h] = games[h]
  BY DEF IsStagedGame
<1>2. \A h : Running(h)' <=> Running(h)
  BY <1>1 DEF Running
<1>3. Seats(stay) = Without(Seats(games[g].members), {p})
  BY DEF Seats, Without
<1>4. /\ DOMAIN relay' = DOMAIN relay
      /\ \A h \in DOMAIN relay \ {g} : relay'[h] = relay[h]
      /\ g \in DOMAIN relay => relay'[g] = Without(relay[g], {p})
  <2>1. CASE g \in DOMAIN relay
    <3>1. relay[g] = Seats(games[g].members) /\ games[g].state = "started"
      BY <2>1 DEF AllocationInv, RelayServesMembers, Running
    <3>2. p \in DOMAIN relay[g] /\ relay[g][p] = games[g].members[p].slot
      BY <3>1 DEF Seats
    <3>3. relay' = [relay EXCEPT ![g] = Without(@, {p})]
      BY <2>1, <3>1, <3>2 DEF RemoveParticipant
    <3> QED BY <2>1, <3>3
  <2>2. CASE g \notin DOMAIN relay
    BY <2>2 DEF RemoveParticipant
  <2> QED BY <2>1, <2>2
<1>5. RelayServesMembers'
  BY <1>1, <1>2, <1>3, <1>4 DEF RelayServesMembers, AllocationInv
<1>6. RunningGamesHaveRelay'
  BY <1>1, <1>2, <1>4 DEF RunningGamesHaveRelay, AllocationInv
<1>7. ExpiringAwaited'
  BY <1>1, <1>2, <1>4 DEF ExpiringAwaited, AllocationInv
<1> QED BY <1>5, <1>6, <1>7 DEF AllocationInv

\* The relay drops idle games by itself,
LEMMA RelaySweeps ==
    ASSUME AllocationInv, NEW expired, RelayExpires(expired)
    PROVE  AllocationInv'
<1>1. /\ DOMAIN relay' = DOMAIN relay \ expired
      /\ \A h \in DOMAIN relay' : relay'[h] = relay[h]
      /\ games' = games /\ relayOpen' = relayOpen
      /\ expiring = {} /\ expiring' = expired /\ expired \subseteq DOMAIN relay
  BY DEF RelayExpires, Without
<1>2. \A h : Running(h)' <=> Running(h)
  BY <1>1 DEF Running
<1>3. RelayServesMembers'
  BY <1>1, <1>2 DEF RelayServesMembers, AllocationInv
<1>4. RunningGamesHaveRelay'
  BY <1>1, <1>2 DEF RunningGamesHaveRelay, AllocationInv
<1>5. ExpiringAwaited'
  BY <1>1, <1>2 DEF ExpiringAwaited, RelayServesMembers, AllocationInv
<1> QED BY <1>3, <1>4, <1>5 DEF AllocationInv

\* and all of them when it closes.
LEMMA RelayCloses ==
    ASSUME AllocationInv, RelayClose
    PROVE  AllocationInv'
<1>1. /\ DOMAIN relay' = {} /\ ~ relayOpen'
      /\ games' = games /\ expiring' = expiring
  BY DEF RelayClose, Without
<1>2. \A h : Running(h)' <=> Running(h)
  BY <1>1 DEF Running
<1>3. RelayServesMembers'
  BY <1>1 DEF RelayServesMembers
<1>4. RunningGamesHaveRelay'
  BY <1>1 DEF RunningGamesHaveRelay
<1>5. ExpiringAwaited'
  BY <1>1, <1>2 DEF ExpiringAwaited, AllocationInv
<1> QED BY <1>3, <1>4, <1>5 DEF AllocationInv

-----------------------------------------------------------------------------
(* Every step.                                                             *)

\* StagesAgree, with what it needs to be kept.
StageInv == AllocationInv /\ StartTimerMatches

\* Nothing the stages are made of changes.
LEMMA StagesSame ==
    ASSUME StageInv, games' = games, timers' = timers, relay' = relay,
           relayOpen' = relayOpen, expiring' = expiring
    PROVE  StageInv'
BY DEF StageInv, AllocationInv, RelayServesMembers, RunningGamesHaveRelay,
       ExpiringAwaited, StartTimerMatches, Running

\* One game changes, and neither its stage nor, if it runs, its seats.
LEMMA StagesRest ==
    ASSUME StageInv, NEW g \in DOMAIN games, NEW game,
           games' = [games EXCEPT ![g] = game],
           game.state = games[g].state,
           game.startGeneration = games[g].startGeneration,
           game.state # "open" =>
              Seats(game.members) = Seats(games[g].members),
           timers' = timers, relay' = relay, relayOpen' = relayOpen,
           expiring' = expiring
    PROVE  StageInv'
<1>1. /\ DOMAIN games' = DOMAIN games
      /\ games'[g] = game
      /\ \A h \in DOMAIN games \ {g} : games'[h] = games[h]
  OBVIOUS
<1>2. \A h, n : Starting(h, n)' <=> Starting(h, n)
  BY <1>1 DEF Starting
<1>3. \A h : Running(h)' <=> Running(h)
  BY <1>1 DEF Running
<1>4. ASSUME NEW h, Running(h)
      PROVE  Seats(games'[h].members) = Seats(games[h].members)
  <2>1. CASE h = g
    BY <1>1, <1>4, <2>1 DEF Running
  <2>2. CASE h # g
    BY <1>1, <1>4, <2>2 DEF Running
  <2> QED BY <2>1, <2>2
<1>5. \A h : SameRunning(h)
  BY <1>3, <1>4 DEF SameRunning
<1>6. AllocationInv'
  BY <1>1, <1>5, RelayRests DEF StageInv
<1>7. StartTimerMatches'
  BY <1>2, TimersRest DEF StageInv
<1> QED BY <1>6, <1>7 DEF StageInv

\* A game is dissolved.
LEMMA StagesEndTogether ==
    ASSUME StageInv, NEW g, NEW gone, NEW handled, Dissolve(g, gone, handled),
           \A t \in handled : t.game = g,
           relayOpen' = relayOpen, expiring' \subseteq expiring,
           \A h \in expiring \ expiring' : h = g
    PROVE  StageInv'
<1>1. AllocationInv'
  BY RelayEnds DEF Dissolve, StageInv
<1>2. /\ DOMAIN games' = DOMAIN games \ {g}
      /\ \A h \in DOMAIN games' : games'[h] = games[h]
  BY DEF Dissolve, Without
<1>3. /\ \A n : ~ Starting(g, n)'
      /\ \A h, n : h # g => (Starting(h, n)' <=> Starting(h, n))
  BY <1>2 DEF Starting
<1>4. timers' = StopTimer(g) \ handled
  BY DEF Dissolve
<1>5. StartTimerMatches'
  BY <1>3, <1>4, TimersStop DEF StageInv
<1> QED BY <1>1, <1>5 DEF StageInv

\* Somebody leaves.
LEMMA StagesLeft ==
    ASSUME LinkInv, StageInv, NEW p \in Player, LeaveGame(p),
           relayOpen' = relayOpen, expiring' = expiring
    PROVE  StageInv'
<1> DEFINE g == userGame[p]
           stay == Without(games[g].members, {p})
<1>1. CASE UNCHANGED <<games, timers, relay>>
  BY <1>1, StagesSame
<1>2. CASE Dissolve(g, {p}, {})
  BY <1>2, StagesEndTogether
<1>3. CASE /\ g \in DOMAIN games
           /\ ~ LeavingDissolves(g, p)
           /\ games' = [games EXCEPT ![g].members = stay]
           /\ relay' = IF games[g].state = "started"
                       THEN RemoveParticipant(g, p, games[g].members[p].slot)
                       ELSE relay
           /\ UNCHANGED timers
  <2>1. g \in GameId /\ IsStagedGame(games[g])
    BY <1>3 DEF LinkInv, TypeOK, IsGames
  <2>2. p \in DOMAIN games[g].members
    BY <2>1 DEF LinkInv, MembershipAgrees
  <2>3. games[g].state # "starting"
    BY <1>3 DEF LeavingDissolves
  <2>4. AllocationInv'
    BY <1>3, <2>1, <2>2, <2>3, RelayUnseats DEF StageInv
  <2>5. /\ DOMAIN games' = DOMAIN games
        /\ games'[g].state = games[g].state
        /\ games'[g].startGeneration = games[g].startGeneration
        /\ \A h \in DOMAIN games \ {g} : games'[h] = games[h]
    BY <1>3, <2>1 DEF IsStagedGame
  <2>6. \A h, n : Starting(h, n)' <=> Starting(h, n)
    BY <2>5 DEF Starting
  <2>7. StartTimerMatches'
    BY <1>3, <2>6, TimersRest DEF StageInv
  <2> QED BY <2>4, <2>7 DEF StageInv
<1> QED BY <1>1, <1>2, <1>3 DEF LeaveGame

\* A game gets its allocation and its timer, whether it was a lobby or
\* is new.
LEMMA StagesBegin ==
    ASSUME StageInv, NEW g, g \notin expiring \/ g \in DOMAIN games,
           g \in DOMAIN games => games[g].state = "open",
           NEW game, game.state = "starting",
           DOMAIN games' = DOMAIN games \union {g}, games'[g] = game,
           \A h \in DOMAIN games \ {g} : games'[h] = games[h],
           relay' = Put(relay, g, Seats(game.members)),
           timers' = ArmTimer(g, game.startGeneration),
           relayOpen' = relayOpen, expiring' = expiring
    PROVE  StageInv'
<1>1. ~ Running(g) /\ Running(g)'
  BY DEF Running
<1>2. \A h : h # g => /\ h \in DOMAIN games' <=> h \in DOMAIN games
                      /\ h \in DOMAIN games => games'[h] = games[h]
  OBVIOUS
<1>3. AllocationInv'
  BY <1>1, <1>2, RelayBegins DEF StageInv
<1>4. /\ \A m : Starting(g, m)' <=> m = game.startGeneration
      /\ \A h, m : h # g => (Starting(h, m)' <=> Starting(h, m))
  BY <1>2 DEF Starting
<1> DEFINE n == game.startGeneration
<1>5. timers' = ArmTimer(g, n) /\ \A m : Starting(g, m)' <=> m = n
  BY <1>4
<1> HIDE DEF n
<1>6. StartTimerMatches'
  BY <1>4, <1>5, TimersArm DEF StageInv
<1> QED BY <1>3, <1>6 DEF StageInv

\* A lobby is created: it has no stage yet.
LEMMA StagesCreated ==
    ASSUME StageInv, NEW g, NewGameID(g), NEW game, game.state = "open",
           games' = Put(games, g, game), timers' = timers, relay' = relay,
           relayOpen' = relayOpen, expiring' = expiring
    PROVE  StageInv'
<1>1. /\ DOMAIN games' = DOMAIN games \union {g}
      /\ games'[g] = game
      /\ \A h \in DOMAIN games : games'[h] = games[h]
      /\ g \notin DOMAIN games /\ g \notin expiring
  BY DEF Put, NewGameID
<1>2. \A h, n : Starting(h, n)' <=> Starting(h, n)
  BY <1>1 DEF Starting
<1>3. \A h : SameRunning(h)
  BY <1>1 DEF SameRunning, Running
<1>4. AllocationInv'
  BY <1>1, <1>3, RelayRests DEF StageInv
<1>5. StartTimerMatches'
  BY <1>2, TimersRest DEF StageInv
<1> QED BY <1>4, <1>5 DEF StageInv

\* The last confirmation: the game runs on, without its timer.
LEMMA StagesGo ==
    ASSUME StageInv, NEW g \in DOMAIN games, games[g].state = "starting",
           NEW game, game.state = "started",
           Seats(game.members) = Seats(games[g].members),
           games' = [games EXCEPT ![g] = game], timers' = StopTimer(g),
           relay' = relay, relayOpen' = relayOpen, expiring' = expiring
    PROVE  StageInv'
<1>1. /\ DOMAIN games' = DOMAIN games
      /\ games'[g] = game
      /\ \A h \in DOMAIN games \ {g} : games'[h] = games[h]
  OBVIOUS
<1>2. /\ \A n : ~ Starting(g, n)'
      /\ \A h, n : h # g => (Starting(h, n)' <=> Starting(h, n))
  BY <1>1 DEF Starting
<1>3. \A h : Running(h)' <=> Running(h)
  BY <1>1 DEF Running
<1>4. ASSUME NEW h, Running(h)
      PROVE  Seats(games'[h].members) = Seats(games[h].members)
  <2>1. CASE h = g
    BY <1>1, <2>1
  <2>2. CASE h # g
    BY <1>1, <1>4, <2>2 DEF Running
  <2> QED BY <2>1, <2>2
<1>5. \A h : SameRunning(h)
  BY <1>3, <1>4 DEF SameRunning
<1>6. AllocationInv'
  BY <1>1, <1>5, RelayRests DEF StageInv
<1> DEFINE handled == {}
<1>7. timers' = StopTimer(g) \ handled /\ \A t \in handled : t.game = g
  OBVIOUS
<1> HIDE DEF handled
<1>8. StartTimerMatches'
  BY <1>2, <1>7, TimersStop DEF StageInv
<1> QED BY <1>6, <1>8 DEF StageInv

\* Every step keeps games, timers and allocations in one stage.
LEMMA StageStep ==
    ASSUME LinkInv, StageInv, [Next]_vars
    PROVE  StageInv'
<1> USE DEF stageVars, relayVars
<1>0. \A g \in DOMAIN games : g \in GameId /\ IsStagedGame(games[g])
  BY DEF LinkInv, TypeOK, IsGames
<1>1. ASSUME games' = games, timers' = timers, relay' = relay,
             relayOpen' = relayOpen, expiring' = expiring
      PROVE  StageInv'
  BY <1>1, StagesSame
<1>2. ASSUME NEW g, NEW handled, Dissolve(g, {}, handled),
             \A t \in handled : t.game = g,
             relayOpen' = relayOpen, expiring' \subseteq expiring,
             \A h \in expiring \ expiring' : h = g
      PROVE  StageInv'
  BY <1>2, StagesEndTogether
<1>3. ASSUME NEW p \in Player, DisconnectLocked(p) PROVE StageInv'
  BY <1>3, StagesLeft DEF DisconnectLocked
<1>4. ASSUME NEW c \in Client, Connect(c) PROVE StageInv'
  <2> DEFINE u == UserOf[c]
             g == userGame[u]
             m == [games[g].members EXCEPT ![u].client = c]
             new == [games[g] EXCEPT !.members = m]
  <2>1. CASE g \in DOMAIN games /\ u \in DOMAIN games[g].members
    <3>1. games' = [games EXCEPT ![g] = new]
      BY <1>4, <2>1 DEF Connect
    <3>2. /\ new.state = games[g].state
          /\ new.startGeneration = games[g].startGeneration
          /\ new.members = m
      BY <1>0, <2>1 DEF IsStagedGame
    <3>3. Seats(m) = Seats(games[g].members)
      BY <1>0, <2>1 DEF Seats, IsStagedGame, Member
    <3>4. /\ timers' = timers /\ relay' = relay
          /\ relayOpen' = relayOpen /\ expiring' = expiring
      BY <1>4 DEF Connect
    <3> HIDE DEF new, m
    <3> QED BY <2>1, <3>1, <3>2, <3>3, <3>4, StagesRest
  <2>2. CASE ~ (g \in DOMAIN games /\ u \in DOMAIN games[g].members)
    BY <1>1, <1>4, <2>2 DEF Connect
  <2> QED BY <2>1, <2>2
<1>5. ASSUME NEW c \in Client, NEW g \in GameId, NEW max \in 2 .. SlotCount,
             NEW stats \in BOOLEAN, NEW key \in ReadyKey,
             CreateGame(c, g, max, stats, key)
      PROVE  StageInv'
  <2> DEFINE new == [state |-> "open", listed |-> TRUE, hostID |-> UserOf[c],
               maxPlayers |-> max, useStats |-> stats, readyKey |-> key,
               members |-> [p \in {UserOf[c]} |-> NewMember(c, FALSE, 0)],
               startedRoster |-> {}, resultsReported |-> FALSE,
               startGeneration |-> 0]
  <2>1. /\ games' = Put(games, g, new) /\ NewGameID(g)
        /\ timers' = timers /\ relay' = relay
        /\ relayOpen' = relayOpen /\ expiring' = expiring
    BY <1>5 DEF CreateGame
  <2>2. new.state = "open"
    OBVIOUS
  <2> HIDE DEF new
  <2> QED BY <2>1, <2>2, StagesCreated
<1>6. ASSUME NEW c \in Client, NEW g \in GameId, JoinGame(c, g)
      PROVE  StageInv'
  <2> DEFINE game == games[g]
             m == Put(game.members, UserOf[c],
                      NewMember(c, FALSE, FirstOpenSlot(game.members)))
             new == [game EXCEPT !.members = m]
  <2>1. /\ g \in DOMAIN games /\ game.state = "open"
        /\ games' = [games EXCEPT ![g] = new]
        /\ timers' = timers /\ relay' = relay
        /\ relayOpen' = relayOpen /\ expiring' = expiring
    BY <1>6 DEF JoinGame, Joinable
  <2>2. /\ new.state = "open" /\ new.state = games[g].state
        /\ new.startGeneration = games[g].startGeneration
    BY <1>0, <2>1 DEF IsStagedGame
  <2> HIDE DEF new
  <2> QED BY <2>1, <2>2, StagesRest
<1>7. ASSUME NEW c \in Client, NEW g \in GameId, NEW max \in 2 .. SlotCount,
             NEW stats \in BOOLEAN, NEW key \in ReadyKey,
             UpdateGameOptions(c, g, max, stats, key)
      PROVE  StageInv'
  <2> DEFINE game == games[g]
             new == [game EXCEPT !.maxPlayers = max, !.useStats = stats,
                           !.readyKey = key,
                           !.members = IF key = game.readyKey THEN @
                                       ELSE Unready(@, game.hostID)]
  <2>1. /\ g \in DOMAIN games /\ game.state = "open"
        /\ games' = [games EXCEPT ![g] = new]
        /\ timers' = timers /\ relay' = relay
        /\ relayOpen' = relayOpen /\ expiring' = expiring
    BY <1>7 DEF UpdateGameOptions, InGame
  <2>2. /\ new.state = "open" /\ new.state = games[g].state
        /\ new.startGeneration = games[g].startGeneration
    BY <1>0, <2>1 DEF IsStagedGame
  <2> HIDE DEF new
  <2> QED BY <2>1, <2>2, StagesRest
<1>8. ASSUME NEW c \in Client, NEW g \in GameId, NEW ready \in BOOLEAN,
             MarkGameReady(c, g, ready)
      PROVE  StageInv'
  <2> DEFINE game == games[g]
             new == [game EXCEPT !.members[UserOf[c]].ready = ready]
  <2>1. /\ g \in DOMAIN games /\ game.state = "open"
        /\ games' = [games EXCEPT ![g] = new]
        /\ timers' = timers /\ relay' = relay
        /\ relayOpen' = relayOpen /\ expiring' = expiring
    BY <1>8 DEF MarkGameReady, InGame
  <2>2. /\ new.state = "open" /\ new.state = games[g].state
        /\ new.startGeneration = games[g].startGeneration
    BY <1>0, <2>1 DEF IsStagedGame
  <2> HIDE DEF new
  <2> QED BY <2>1, <2>2, StagesRest
<1>9. ASSUME NEW c \in Client, NEW g \in GameId, StartGame(c, g)
      PROVE  StageInv'
  <2> DEFINE game == games[g]
             n == game.startGeneration + 1
             m == NoneStartReady(game.members)
             new == [game EXCEPT !.state = "starting", !.resultsReported = FALSE,
                           !.members = m, !.startGeneration = n]
  <2>1. /\ g \in DOMAIN games /\ game.state = "open"
        /\ relay' = Put(relay, g, Seats(game.members))
        /\ timers' = ArmTimer(g, n)
        /\ games' = [games EXCEPT ![g] = new]
        /\ relayOpen' = relayOpen /\ expiring' = expiring
    BY <1>9 DEF StartGame, InGame
  <2>2. /\ new.state = "starting" /\ new.startGeneration = n
        /\ new.members = m
    BY <1>0, <2>1 DEF IsStagedGame
  <2>3. Seats(m) = Seats(game.members)
    BY <1>0, <2>1 DEF Seats, NoneStartReady, IsStagedGame, Member
  <2>4. /\ DOMAIN games' = DOMAIN games \union {g}
        /\ games'[g] = new
        /\ \A h \in DOMAIN games \ {g} : games'[h] = games[h]
    BY <2>1
  <2> HIDE DEF new, n, m
  <2> QED BY <2>1, <2>2, <2>3, <2>4, StagesBegin
<1>10. ASSUME NEW c \in Client, NEW g \in GameId, MarkGameStartReady(c, g)
       PROVE  StageInv'
  <2> DEFINE u == UserOf[c]
             game == games[g]
             m == [game.members EXCEPT ![u].startReady = TRUE]
             started == [game EXCEPT !.state = "started", !.members = m,
                                 !.startedRoster = DOMAIN m,
                                 !.startGeneration = @ + 1]
             confirmed == [game EXCEPT !.members = m]
  <2>1. /\ g \in DOMAIN games /\ game.state = "starting"
        /\ relay' = relay /\ relayOpen' = relayOpen /\ expiring' = expiring
    BY <1>10 DEF MarkGameStartReady, InGame
  <2>2. \/ games' = [games EXCEPT ![g] = started] /\ timers' = StopTimer(g)
        \/ games' = [games EXCEPT ![g] = confirmed] /\ timers' = timers
    BY <1>10 DEF MarkGameStartReady
  <2>3. /\ started.state = "started" /\ started.members = m
        /\ confirmed.state = game.state /\ confirmed.members = m
        /\ confirmed.startGeneration = game.startGeneration
    BY <1>0, <2>1 DEF IsStagedGame
  <2>4. Seats(m) = Seats(game.members)
    BY <1>0, <2>1 DEF Seats, IsStagedGame, Member
  <2> HIDE DEF started, confirmed, m
  <2>5. CASE games' = [games EXCEPT ![g] = started] /\ timers' = StopTimer(g)
    BY <2>1, <2>3, <2>4, <2>5, StagesGo
  <2>6. CASE games' = [games EXCEPT ![g] = confirmed] /\ timers' = timers
    BY <2>1, <2>3, <2>4, <2>6, StagesRest
  <2> QED BY <2>2, <2>5, <2>6
<1>11. ASSUME NEW t \in timers, TimerFires(t) PROVE StageInv'
  <2>1. StartTimerMatches'
    BY <1>11, TimersFire DEF LinkInv, StageInv
  <2>2. AllocationInv'
    <3>1. /\ games' = games /\ relay' = relay
          /\ relayOpen' = relayOpen /\ expiring' = expiring
      BY <1>11 DEF TimerFires
    <3>2. \A h : SameRunning(h)
      BY <3>1 DEF SameRunning, Running
    <3> QED BY <3>1, <3>2, RelayRests DEF StageInv
  <2> QED BY <2>1, <2>2 DEF StageInv
<1>12. ASSUME NEW t \in timers, HandleStartReadyTimeout(t) PROVE StageInv'
  <2>1. relayOpen' = relayOpen /\ expiring' = expiring
    BY <1>12 DEF HandleStartReadyTimeout
  <2>2. CASE /\ ~ Awaited(t)
             /\ timers' = timers \ {t}
             /\ UNCHANGED <<games, userGame, relay>>
    <3>1. StartTimerMatches'
      BY <2>2, TimersForget DEF StageInv
    <3>2. \A h : SameRunning(h)
      BY <2>2 DEF SameRunning, Running
    <3>3. AllocationInv'
      BY <2>1, <2>2, <3>2, RelayRests DEF StageInv
    <3> QED BY <3>1, <3>3 DEF StageInv
  <2>3. CASE Dissolve(t.game, {}, {t})
    BY <1>2, <2>1, <2>3
  <2> QED BY <1>12, <2>2, <2>3 DEF HandleStartReadyTimeout
<1>13. ASSUME NEW c \in Client, NEW g \in GameId, EndGame(c, g) PROVE StageInv'
  BY <1>2, <1>13 DEF EndGame
<1>14. ASSUME NEW g \in GameId, AdminCloseGame(g) PROVE StageInv'
  BY <1>2, <1>14 DEF AdminCloseGame
<1>15. ASSUME NEW c \in Client, NEW g \in GameId, NEW reported \in SUBSET Player,
              StatsResults(c, g, reported)
       PROVE  StageInv'
  <2> DEFINE new == [games[g] EXCEPT !.resultsReported = TRUE]
  <2>1. /\ g \in DOMAIN games
        /\ games' = [games EXCEPT ![g] = new]
        /\ timers' = timers /\ relay' = relay
        /\ relayOpen' = relayOpen /\ expiring' = expiring
    BY <1>15 DEF StatsResults
  <2>2. /\ new.state = games[g].state
        /\ new.startGeneration = games[g].startGeneration
        /\ new.members = games[g].members
    BY <1>0, <2>1 DEF IsStagedGame
  <2> HIDE DEF new
  <2> QED BY <2>1, <2>2, StagesRest
<1>16. ASSUME NEW c \in Client, NEW k \in MatchKey, QuickmatchEnqueue(c, k)
       PROVE  StageInv'
  <2>1. relayOpen' = relayOpen /\ expiring' = expiring
    BY <1>16 DEF QuickmatchEnqueue
  <2>2. CASE UNCHANGED stageVars
    BY <1>1, <2>1, <2>2
  <2>3. ASSUME NEW p \in Opponents(k), NEW g \in GameId, NewGameID(g),
               games' = Put(games, g, MatchedGame(c, p, 1)),
               relay' = Put(relay, g, Seats(MatchedGame(c, p, 1).members)),
               timers' = ArmTimer(g, 1)
        PROVE  StageInv'
    <3> DEFINE game == MatchedGame(c, p, 1)
    <3>1. game.state = "starting" /\ game.startGeneration = 1
      BY DEF MatchedGame
    <3> HIDE DEF game
    <3>2. /\ games' = Put(games, g, game)
          /\ relay' = Put(relay, g, Seats(game.members))
          /\ timers' = ArmTimer(g, game.startGeneration)
          /\ g \notin DOMAIN games /\ g \notin expiring
      BY <2>3, <3>1 DEF game, NewGameID
    <3>3. /\ DOMAIN games' = DOMAIN games \union {g}
          /\ games'[g] = game
          /\ \A h \in DOMAIN games \ {g} : games'[h] = games[h]
      BY <3>2 DEF Put
    <3> QED BY <2>1, <3>1, <3>2, <3>3, StagesBegin
  <2> QED BY <1>16, <2>2, <2>3 DEF QuickmatchEnqueue
<1>17. ASSUME NEW g \in GameId, HandleRelayGameExpired(g) PROVE StageInv'
  <2>1. relayOpen' = relayOpen /\ expiring' = expiring \ {g}
    BY <1>17 DEF HandleRelayGameExpired
  <2>2. CASE Dissolve(g, {}, {})
    BY <1>2, <2>1, <2>2
  <2>3. CASE ~ Running(g) /\ UNCHANGED stageVars
    <3>1. StartTimerMatches'
      <4>1. \A h, n : Starting(h, n)' <=> Starting(h, n)
        BY <2>3 DEF Starting
      <4> QED BY <2>3, <4>1, TimersRest DEF StageInv
    <3>2. \A h : SameRunning(h)
      BY <2>3 DEF SameRunning, Running
    <3>3. AllocationInv'
      BY <2>1, <2>3, <3>2, RelayRests DEF StageInv
    <3> QED BY <3>1, <3>3 DEF StageInv
  <2> QED BY <1>17, <2>2, <2>3 DEF HandleRelayGameExpired
<1>18. ASSUME NEW c \in Client, Command(c) PROVE StageInv'
  <2>1. ASSUME NEW g \in GameId, NEW target \in Player,
               KickGameMember(c, g, target)
        PROVE  StageInv'
    BY <2>1, StagesLeft DEF KickGameMember
  <2>2. ASSUME LeaveGameCommand(c) PROVE StageInv'
    BY <2>2, StagesLeft, UserOfAssumption DEF LeaveGameCommand
  <2>3. ASSUME QuickmatchCancel(c) PROVE StageInv'
    BY <1>1, <2>3 DEF QuickmatchCancel
  <2> QED
    BY <1>5, <1>6, <1>7, <1>8, <1>9, <1>10, <1>13, <1>15, <1>16, <1>18, <2>1,
       <2>2, <2>3
    DEF Command
<1>19. ASSUME NEW c \in Client, Disconnect(c) PROVE StageInv'
  BY <1>3, <1>19, UserOfAssumption DEF Disconnect
<1>20. ASSUME NEW p \in Player, AdminDisconnect(p) PROVE StageInv'
  BY <1>3, <1>20 DEF AdminDisconnect
<1>21. ASSUME UNCHANGED vars PROVE StageInv'
  BY <1>1, <1>21 DEF vars
<1>22. ASSUME NEW expired \in SUBSET GameId, RelayExpires(expired)
       PROVE  StageInv'
  <2>1. AllocationInv'
    BY <1>22, RelaySweeps DEF StageInv
  <2>2. \A h, n : Starting(h, n)' <=> Starting(h, n)
    BY <1>22 DEF Starting, RelayExpires
  <2>3. StartTimerMatches'
    BY <1>22, <2>2, TimersRest DEF RelayExpires, StageInv
  <2> QED BY <2>1, <2>3 DEF StageInv
<1>23. ASSUME RelayClose PROVE StageInv'
  <2>1. AllocationInv'
    BY <1>23, RelayCloses DEF StageInv
  <2>2. \A h, n : Starting(h, n)' <=> Starting(h, n)
    BY <1>23 DEF Starting, RelayClose
  <2>3. StartTimerMatches'
    BY <1>23, <2>2, TimersRest DEF RelayClose, StageInv
  <2> QED BY <2>1, <2>3 DEF StageInv
<1> QED
  BY <1>4, <1>11, <1>12, <1>14, <1>17, <1>18, <1>19, <1>20, <1>21, <1>22, <1>23
  DEF Next

\* The stages agree from the start.
LEMMA StagesHold == Spec => []StageInv
<1>1. Init => StageInv
  BY DEF Init, EmptyMap, StageInv, AllocationInv, RelayServesMembers,
         RunningGamesHaveRelay, ExpiringAwaited, StartTimerMatches
<1>2. LinkInv /\ StageInv /\ [Next]_vars => StageInv'
  BY StageStep
<1> QED BY <1>1, <1>2, LinksHold, PTL DEF Spec

\* A game, its start timer and its allocation are in the same stage, in
\* whatever order timers fire, games expire and players come and go.
THEOREM StagesCorrect == Spec => []StagesAgree
<1>1. StageInv => StagesAgree
  BY DEF StageInv, AllocationInv, StagesAgree
<1> QED BY <1>1, StagesHold, PTL

-----------------------------------------------------------------------------
(* Started games.                                                          *)

\* A callback that comes too late ends nothing: it dissolves a game whose
\* start it was armed for, and no other.
THEOREM LateTimeoutsCorrect == Spec => LateTimeoutsAreHarmless
<1>1. [Next]_vars =>
        \A t \in timers :
          /\ HandleStartReadyTimeout(t)
          /\ \E g \in DOMAIN games : games[g].state = "started"
          => \A g \in DOMAIN games :
                games[g].state = "started" =>
                   g \in DOMAIN games' /\ games'[g] = games[g]
  <2> SUFFICES ASSUME NEW t \in timers, HandleStartReadyTimeout(t),
                      NEW g \in DOMAIN games, games[g].state = "started"
               PROVE  g \in DOMAIN games' /\ games'[g] = games[g]
    OBVIOUS
  <2>1. CASE games' = games
    BY <2>1
  <2>2. CASE Awaited(t) /\ games' = Without(games, {t.game})
    BY <2>2 DEF Awaited, Without
  <2> QED BY <2>1, <2>2 DEF HandleStartReadyTimeout, Dissolve
<1> QED BY <1>1, PTL DEF Spec, LateTimeoutsAreHarmless

\* What the relay loses when p leaves.
LEMMA LeaveUnseats ==
    ASSUME LinkInv, NEW p \in Player, LeaveGame(p)
    PROVE  \/ \E g \in GameId : relay' = Without(relay, {g})
           \/ relay' = relay
           \/ /\ userGame[p] \in DOMAIN relay
              /\ relay' = [relay EXCEPT ![userGame[p]] = Without(@, {p})]
<1> DEFINE g == userGame[p]
<1>1. CASE UNCHANGED <<games, timers, relay>>
  BY <1>1
<1>2. CASE g \in DOMAIN games /\ Dissolve(g, {p}, {})
  BY <1>2 DEF Dissolve, LinkInv, TypeOK, IsGames
<1>3. CASE /\ g \in DOMAIN games
           /\ relay' = IF games[g].state = "started"
                       THEN RemoveParticipant(g, p, games[g].members[p].slot)
                       ELSE relay
  BY <1>3 DEF RemoveParticipant
<1> QED BY <1>1, <1>2, <1>3 DEF LeaveGame

\* A started game goes on without those who leave, who lose only their seat.
THEOREM DeparturesCorrect == Spec => StartedGamesSurviveDepartures
<1>1. LinkInv /\ StageInv /\ [Next]_vars =>
       \A g \in DOMAIN games, p \in Player :
          /\ games[g].listed
          /\ games[g].state = "started"
          /\ p \in DOMAIN games[g].members
          /\ DOMAIN games[g].members # {p}
          /\ \E c \in Client : UserOf[c] = p /\ (LeaveGameCommand(c) \/ Disconnect(c))
          => /\ g \in DOMAIN games'
             /\ games'[g].members = Without(games[g].members, {p})
             /\ g \in DOMAIN relay => relay'[g] = Without(relay[g], {p})
  <2> SUFFICES ASSUME LinkInv, StageInv,
                      NEW g \in DOMAIN games, NEW p \in Player,
                      games[g].listed, games[g].state = "started",
                      p \in DOMAIN games[g].members,
                      DOMAIN games[g].members # {p}, LeaveGame(p)
               PROVE  /\ g \in DOMAIN games'
                      /\ games'[g].members = Without(games[g].members, {p})
                      /\ g \in DOMAIN relay =>
                            relay'[g] = Without(relay[g], {p})
    BY DEF LeaveGameCommand, Disconnect, DisconnectLocked
  <2>1. g \in GameId /\ IsStagedGame(games[g])
    BY DEF LinkInv, TypeOK, IsGames
  <2>2. userGame[p] = g
    BY <2>1 DEF LinkInv, MembershipAgrees
  <2>3. ~ LeavingDissolves(g, p)
    BY <2>1 DEF LeavingDissolves
  <2>4. /\ games' = [games EXCEPT ![g].members = Without(games[g].members, {p})]
        /\ relay' = RemoveParticipant(g, p, games[g].members[p].slot)
    BY <2>2, <2>3 DEF LeaveGame
  <2>5. games'[g].members = Without(games[g].members, {p})
    BY <2>1, <2>4 DEF IsStagedGame
  <2>6. ASSUME g \in DOMAIN relay PROVE relay'[g] = Without(relay[g], {p})
    <3>1. relay[g] = Seats(games[g].members)
      BY <2>6 DEF StageInv, AllocationInv, RelayServesMembers
    <3>2. p \in DOMAIN relay[g] /\ relay[g][p] = games[g].members[p].slot
      BY <3>1 DEF Seats
    <3> QED BY <2>4, <2>6, <3>2 DEF RemoveParticipant
  <2> QED BY <2>4, <2>5, <2>6
<1> QED BY <1>1, LinksHold, StagesHold, PTL DEF Spec, StartedGamesSurviveDepartures

\* What has started goes on as it began, for those who stay.
THEOREM TermsCorrect == Spec => StartedGamesKeepTheirTerms
BY RunningGamesOnlyShrinkCorrect, DeparturesCorrect DEF StartedGamesKeepTheirTerms

-----------------------------------------------------------------------------
(* The relay, as the hub uses it.                                          *)

\* The hub allocates for a free id and distinct seats.
LEMMA HubAllocates ==
    ASSUME NEW g \in GameId, g \notin expiring, NEW members,
           DOMAIN members \subseteq Player, DOMAIN members # {},
           CanAllocate(g, members), relay' = Put(relay, g, Seats(members)),
           relayOpen' = relayOpen, expiring' = expiring
    PROVE  RelayOfTheHub!Next
<1> DEFINE s == Seats(members)
           users == DOMAIN members
<1>1. users \in (SUBSET Player) \ {{}} /\ s \in [users -> RelayOfTheHub!Slot]
  BY DEF Seats, CanAllocate, Slot, RelayOfTheHub!Slot
<1>2. \A u, v \in DOMAIN s : s[u] = s[v] => u = v
  BY DEF Seats, CanAllocate
<1>3. relayOpen /\ g \notin DOMAIN relay \union expiring
  BY DEF CanAllocate
<1>4. relay' = Put(relay, g, s)
  OBVIOUS
<1> HIDE DEF s, users
<1>5. RelayOfTheHub!Allocate(g, s)
  BY <1>2, <1>3, <1>4
  DEF RelayOfTheHub!Allocate, RelayOfTheHub!Put, Put
<1> QED BY <1>1, <1>5 DEF RelayOfTheHub!Next

\* The end of a game is the end of its allocation.
LEMMA HubEnds ==
    ASSUME NEW g \in GameId, relay' = Without(relay, {g}),
           relayOpen' = relayOpen, expiring' = expiring
    PROVE  RelayOfTheHub!Next
<1>1. RelayOfTheHub!EndGame(g)
  BY DEF RelayOfTheHub!EndGame, RelayOfTheHub!Without, Without
<1> QED BY <1>1 DEF RelayOfTheHub!Next

\* A departure takes a seat, or all of them, or none.
LEMMA HubLeaves ==
    ASSUME LinkInv, NEW p \in Player, LeaveGame(p),
           relayOpen' = relayOpen, expiring' = expiring
    PROVE  RelayOfTheHub!Next \/ UNCHANGED RelayOfTheHub!vars
<1> DEFINE g == userGame[p]
<1>1. CASE \E h \in GameId : relay' = Without(relay, {h})
  BY <1>1, HubEnds
<1>2. CASE relay' = relay
  BY <1>2 DEF RelayOfTheHub!vars
<1>3. CASE /\ g \in DOMAIN relay
           /\ relay' = [relay EXCEPT ![g] = Without(@, {p})]
  <2>1. g \in GameId
    BY <1>3 DEF LinkInv, TypeOK, IsRelay
  <2>2. RelayOfTheHub!RemoveParticipant(g, p)
    BY <1>3
    DEF RelayOfTheHub!RemoveParticipant, RelayOfTheHub!Without, Without
  <2> QED BY <2>1, <2>2 DEF RelayOfTheHub!Next
<1> QED BY <1>1, <1>2, <1>3, LeaveUnseats

\* Whatever the hub does, the relay sees a call it promises to serve, and
\* whatever the relay does by itself the hub takes in.
LEMMA HubStep ==
    ASSUME LinkInv, StageInv, [Next]_vars
    PROVE  RelayOfTheHub!Next \/ UNCHANGED RelayOfTheHub!vars
<1> DEFINE Goal == RelayOfTheHub!Next \/ UNCHANGED RelayOfTheHub!vars
<1> USE DEF stageVars, relayVars
<1>1. ASSUME relay' = relay, relayOpen' = relayOpen, expiring' = expiring
      PROVE  Goal
  BY <1>1 DEF RelayOfTheHub!vars
<1>2. ASSUME NEW g \in GameId, NEW gone, NEW handled,
             Dissolve(g, gone, handled), relayOpen' = relayOpen,
             expiring' = expiring
      PROVE  Goal
  BY <1>2, HubEnds DEF Dissolve
<1>3. ASSUME NEW p \in Player, LeaveGame(p), relayOpen' = relayOpen,
             expiring' = expiring
      PROVE  Goal
  BY <1>3, HubLeaves
<1> HIDE DEF Goal
<1>4. ASSUME NEW c \in Client, NEW g \in GameId, StartGame(c, g) PROVE Goal
  <2> DEFINE members == games[g].members
  <2>1. /\ g \in DOMAIN games /\ IsStagedGame(games[g])
        /\ UserOf[c] \in Player /\ userGame[UserOf[c]] = g
    BY <1>4, UserOfAssumption DEF StartGame, InGame, LinkInv, TypeOK, IsGames
  <2>2. /\ DOMAIN members \subseteq Player
        /\ UserOf[c] \in DOMAIN members
    BY <2>1 DEF IsStagedGame, LinkInv, MembershipAgrees
  <2>3. /\ CanAllocate(g, members) /\ games[g].state = "open"
        /\ relay' = Put(relay, g, Seats(members))
        /\ relayOpen' = relayOpen /\ expiring' = expiring
    BY <1>4 DEF StartGame
  <2>4. g \notin expiring
    BY <2>1, <2>3 DEF StageInv, AllocationInv, ExpiringAwaited, Running
  <2> HIDE DEF members
  <2> QED BY <2>2, <2>3, <2>4, HubAllocates DEF Goal
<1>5. ASSUME NEW c \in Client, NEW k \in MatchKey, QuickmatchEnqueue(c, k)
      PROVE  Goal
  <2>1. relayOpen' = relayOpen /\ expiring' = expiring
    BY <1>5 DEF QuickmatchEnqueue
  <2>2. CASE UNCHANGED stageVars
    BY <1>1, <2>1, <2>2
  <2>3. ASSUME NEW p \in Opponents(k), NEW g \in GameId, NewGameID(g),
               CanAllocate(g, MatchedGame(c, p, 1).members),
               relay' = Put(relay, g, Seats(MatchedGame(c, p, 1).members))
        PROVE  Goal
    <3> DEFINE members == MatchedGame(c, p, 1).members
    <3>1. p \in Player /\ UserOf[c] \in Player
      BY UserOfAssumption DEF Opponents, LinkInv, TypeOK, IsMap
    <3>2. DOMAIN members \subseteq Player /\ DOMAIN members # {}
      BY <3>1 DEF MatchedGame
    <3>3. g \notin expiring
      BY <2>3 DEF NewGameID
    <3> HIDE DEF members
    <3>4. CanAllocate(g, members) /\ relay' = Put(relay, g, Seats(members))
      BY <2>3 DEF members
    <3> QED BY <2>1, <3>2, <3>3, <3>4, HubAllocates DEF Goal
  <2> QED BY <1>5, <2>1, <2>2, <2>3 DEF QuickmatchEnqueue
<1>6. ASSUME NEW t \in timers, HandleStartReadyTimeout(t) PROVE Goal
  <2>1. t.game \in GameId
    BY DEF LinkInv, TypeOK, Timer
  <2> QED BY <1>1, <1>2, <1>6, <2>1 DEF HandleStartReadyTimeout
<1>7. ASSUME NEW expired \in SUBSET GameId, RelayExpires(expired) PROVE Goal
  <2>1. RelayOfTheHub!ExpireIdleGames(expired)
    BY <1>7
    DEF RelayExpires, RelayOfTheHub!ExpireIdleGames, RelayOfTheHub!Without, Without
  <2>2. expired \in (SUBSET DOMAIN relay) \ {{}}
    BY <1>7 DEF RelayExpires
  <2> QED BY <2>1, <2>2 DEF Goal, RelayOfTheHub!Next
<1>8. ASSUME NEW g \in GameId, HandleRelayGameExpired(g) PROVE Goal
  <2>1. /\ g \in expiring /\ expiring' = expiring \ {g}
        /\ relayOpen' = relayOpen
        /\ relay' = relay \/ relay' = Without(relay, {g})
    BY <1>8 DEF HandleRelayGameExpired, Dissolve
  <2>2. g \notin DOMAIN relay
    BY <2>1 DEF StageInv, AllocationInv, ExpiringAwaited
  <2>3. relay = [h \in DOMAIN relay |-> relay[h]]
    BY DEF LinkInv, TypeOK, IsRelay
  <2>4. Without(relay, {g}) = relay
    <3>1. DOMAIN relay \ {g} = DOMAIN relay
      BY <2>2
    <3> QED BY <2>3, <3>1 DEF Without
  <2>5. RelayOfTheHub!GameExpired(g)
    BY <2>1, <2>4 DEF RelayOfTheHub!GameExpired
  <2> QED BY <2>5 DEF Goal, RelayOfTheHub!Next
<1>9. ASSUME RelayClose PROVE Goal
  <2>1. Without(relay, DOMAIN relay) = EmptyMap
    BY DEF Without, EmptyMap
  <2>2. RelayOfTheHub!Close
    BY <1>9, <2>1
    DEF RelayClose, RelayOfTheHub!Close, RelayOfTheHub!EmptyMap, EmptyMap
  <2> QED BY <2>2 DEF Goal, RelayOfTheHub!Next
<1>10. ASSUME NEW c \in Client, Command(c) PROVE Goal
  <2>1. ASSUME NEW g \in GameId PROVE EndGame(c, g) => Goal
    BY <1>2, <2>1 DEF EndGame
  <2>2. ASSUME NEW g \in GameId, NEW target \in Player
        PROVE  KickGameMember(c, g, target) => Goal
    BY <1>3, <2>2 DEF KickGameMember
  <2>3. LeaveGameCommand(c) => Goal
    BY <1>3, UserOfAssumption DEF LeaveGameCommand
  <2>4. QuickmatchCancel(c) => Goal
    BY <1>1 DEF QuickmatchCancel
  <2>5. ASSUME NEW g \in GameId PROVE JoinGame(c, g) => Goal
    BY <1>1 DEF JoinGame
  <2>6. ASSUME NEW g \in GameId PROVE MarkGameStartReady(c, g) => Goal
    BY <1>1 DEF MarkGameStartReady
  <2>7. ASSUME NEW g \in GameId, NEW ready \in BOOLEAN
        PROVE  MarkGameReady(c, g, ready) => Goal
    BY <1>1 DEF MarkGameReady
  <2>8. ASSUME NEW g \in GameId, NEW reported
        PROVE  StatsResults(c, g, reported) => Goal
    BY <1>1 DEF StatsResults
  <2>9. ASSUME NEW g \in GameId, NEW max, NEW stats, NEW key
        PROVE  CreateGame(c, g, max, stats, key) \/
               UpdateGameOptions(c, g, max, stats, key) => Goal
    BY <1>1 DEF CreateGame, UpdateGameOptions
  <2> QED
    BY <1>4, <1>5, <1>10, <2>1, <2>2, <2>3, <2>4, <2>5, <2>6, <2>7, <2>8, <2>9
    DEF Command
<1>11. ASSUME NEW c \in Client, Connect(c) PROVE Goal
  BY <1>1, <1>11 DEF Connect
<1>12. ASSUME NEW c \in Client, Disconnect(c) PROVE Goal
  BY <1>3, <1>12, UserOfAssumption DEF Disconnect, DisconnectLocked
<1>13. ASSUME NEW p \in Player, AdminDisconnect(p) PROVE Goal
  BY <1>3, <1>13 DEF AdminDisconnect, DisconnectLocked
<1>14. ASSUME NEW g \in GameId, AdminCloseGame(g) PROVE Goal
  BY <1>2, <1>14 DEF AdminCloseGame
<1>15. ASSUME NEW t \in timers, TimerFires(t) PROVE Goal
  BY <1>1, <1>15 DEF TimerFires
<1>16. ASSUME UNCHANGED vars PROVE Goal
  BY <1>1, <1>16 DEF vars
<1>17. Goal
  BY <1>6, <1>7, <1>8, <1>9, <1>10, <1>11, <1>12, <1>13, <1>14, <1>15, <1>16
  DEF Next
<1> QED BY <1>17 DEF Goal

\* The hub asks of the relay nothing that RelaySeats does not allow: the
\* safety part of UsesRelaySeats.
THEOREM SafelyUsesRelaySeats ==
    Spec => RelayOfTheHub!Init /\ [][RelayOfTheHub!Next]_(RelayOfTheHub!vars)
<1>1. Init => RelayOfTheHub!Init
  BY DEF Init, RelayOfTheHub!Init, RelayOfTheHub!EmptyMap, EmptyMap
<1>2. LinkInv /\ StageInv /\ [Next]_vars
      => [RelayOfTheHub!Next]_(RelayOfTheHub!vars)
  BY HubStep
<1> QED BY <1>1, <1>2, LinksHold, StagesHold, PTL DEF Spec
=============================================================================
