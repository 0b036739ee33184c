----------------------------- MODULE RelaySeats -----------------------------
(***************************************************************************)
(* What the hub relies on when it uses the relay                           *)
(* (src/internal/app/relay.go): which user of which game has which seat,   *)
(* and that the hub hears of every game the relay drops by itself.  No     *)
(* datagram changes any of it.  Relay.tla implements this specification.   *)
(***************************************************************************)
EXTENDS Integers, GoMaps

CONSTANTS
    GameId,   \* ids of games
    User,     \* user ids of members
    SlotCount \* 8 in the code

VARIABLES
    seats,    \* the slot of every participant of every allocated game
    open,     \* the relay is running
    expiring  \* games dropped for idleness that the hub has not heard of

vars == <<seats, open, expiring>>

Slot == 0 .. SlotCount - 1

\* A game gets its participants once, each in a slot of his own.
Allocate(g, members) ==
    /\ open
    /\ g \notin DOMAIN seats \union expiring
    /\ \A u, v \in DOMAIN members : members[u] = members[v] => u = v
    /\ seats' = Put(seats, g, members)
    /\ UNCHANGED <<open, expiring>>

RemoveParticipant(g, u) ==
    /\ g \in DOMAIN seats
    /\ seats' = [seats EXCEPT ![g] = Without(@, {u})]
    /\ UNCHANGED <<open, expiring>>

EndGame(g) ==
    /\ seats' = Without(seats, {g})
    /\ UNCHANGED <<open, expiring>>

\* Idle games go together, and the hub is told of one after the other.
ExpireIdleGames(expired) ==
    /\ expiring = {}
    /\ seats' = Without(seats, expired)
    /\ expiring' = expired
    /\ UNCHANGED open

\* The hub's handler runs: to it a game that is gone already is no news.
GameExpired(g) ==
    /\ g \in expiring
    /\ expiring' = expiring \ {g}
    /\ UNCHANGED <<seats, open>>

Close ==
    /\ open
    /\ open' = FALSE
    /\ seats' = EmptyMap
    /\ UNCHANGED expiring

Init ==
    /\ seats = EmptyMap
    /\ open = TRUE
    /\ expiring = {}

Next ==
    \/ \E g \in GameId :
          \/ \E users \in (SUBSET User) \ {{}} :
                \E members \in [users -> Slot] : Allocate(g, members)
          \/ \E u \in User : RemoveParticipant(g, u)
          \/ EndGame(g)
          \/ GameExpired(g)
    \/ \E expired \in (SUBSET DOMAIN seats) \ {{}} : ExpireIdleGames(expired)
    \/ Close

\* The goroutine that sweeps reports what it swept.
Fairness == \A g \in GameId : WF_vars(GameExpired(g))

Spec == Init /\ [][Next]_vars /\ Fairness
=============================================================================
