------------------------------ MODULE Profiles ------------------------------
(***************************************************************************)
(* What the hub relies on when it uses the profile store                   *)
(* (src/internal/app/store.go): every call happens at once or not at all,  *)
(* whatever fails in the middle of it and whenever the process ends.       *)
(* ProfileStore.tla implements this specification.                         *)
(***************************************************************************)
EXTENDS Integers, FiniteSets, GoMaps

CONSTANTS
    Username,    \* user names as the unique key holds them
    DisplayName, \* display names as the unique key holds them
    Game,        \* games whose results are reported
    MaxCounter   \* the largest value of a counter

VARIABLES
    profiles, \* the stored profile of each user id
    buddies,  \* pairs of user ids, each a set of two
    requests, \* pending buddy requests, as <<requester, recipient>>
    lastId,   \* the last user id that was given
    counted   \* the users whose counters hold the result of a game

vars == <<profiles, buddies, requests, lastId, counted>>

\* The profile p after a game, whatever it did to the rating.
PlayedAGame(p, q) == q.games = p.games + 1 /\ q.rating \in 0 .. MaxCounter
                     /\ q.username = p.username /\ q.name = p.name

\* A new profile has the next id, and keys that no other profile has.
Register(u, n) ==
    /\ \A id \in DOMAIN profiles :
          profiles[id].username # u /\ profiles[id].name # n
    /\ lastId' = lastId + 1
    /\ profiles' = Put(profiles, lastId',
                       [username |-> u, name |-> n, games |-> 0, rating |-> 0])
    /\ UNCHANGED <<buddies, requests, counted>>

\* A rename leaves everything else of the profile alone.
Rename(id, n) ==
    /\ \A other \in DOMAIN profiles \ {id} : profiles[other].name # n
    /\ profiles' = [profiles EXCEPT ![id].name = n]
    /\ UNCHANGED <<buddies, requests, lastId, counted>>

\* A deletion takes with it whatever refers to the profile.
Delete(id) ==
    /\ profiles' = Without(profiles, {id})
    /\ buddies' = {pair \in buddies : id \notin pair}
    /\ requests' = {r \in requests : id \notin {r[1], r[2]}}
    /\ UNCHANGED <<lastId, counted>>

RequestBuddy(from, target) ==
    /\ from # target
    /\ {from, target} \notin buddies
    /\ requests' = requests \union {<<from, target>>}
    /\ UNCHANGED <<profiles, buddies, lastId, counted>>

\* A request is used up by the friendship it makes.
AcceptBuddy(user, requester) ==
    /\ <<requester, user>> \in requests
    /\ requests' = requests \ {<<requester, user>>}
    /\ buddies' = buddies \union {{user, requester}}
    /\ UNCHANGED <<profiles, lastId, counted>>

RemoveBuddy(user, buddy) ==
    /\ buddies' = buddies \ {{user, buddy}}
    /\ requests' = requests \ {<<user, buddy>>, <<buddy, user>>}
    /\ UNCHANGED <<profiles, lastId, counted>>

\* stats.update changes the rating of one profile.
Rate(id) ==
    /\ \E r \in 0 .. MaxCounter : profiles' = [profiles EXCEPT ![id].rating = r]
    /\ UNCHANGED <<buddies, requests, lastId, counted>>

\* A report counts once, for all of its users together.
Report(g, ids) ==
    /\ g \notin DOMAIN counted
    /\ counted' = Put(counted, g, ids)
    /\ DOMAIN profiles' = DOMAIN profiles
    /\ \A id \in ids : PlayedAGame(profiles[id], profiles'[id])
    /\ \A id \in DOMAIN profiles \ ids : profiles'[id] = profiles[id]
    /\ UNCHANGED <<buddies, requests, lastId>>

Init ==
    /\ profiles = EmptyMap
    /\ buddies = {}
    /\ requests = {}
    /\ lastId = 0
    /\ counted = EmptyMap

Next ==
    \/ \E u \in Username, n \in DisplayName : Register(u, n)
    \/ \E id \in DOMAIN profiles :
          \/ \E n \in DisplayName : Rename(id, n)
          \/ Delete(id)
          \/ Rate(id)
          \/ \E other \in DOMAIN profiles :
                \/ RequestBuddy(id, other)
                \/ AcceptBuddy(id, other)
                \/ RemoveBuddy(id, other)
    \/ \E g \in Game : \E ids \in SUBSET DOMAIN profiles : Report(g, ids)

Spec == Init /\ [][Next]_vars
=============================================================================
