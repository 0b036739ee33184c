---------------------------- MODULE ProfileStore ----------------------------
(***************************************************************************)
(* The profile store (src/internal/app/store.go): profiles, buddies and    *)
(* statistics in SQLite.                                                   *)
(*                                                                         *)
(* Each call that writes is one transaction: it takes the write lock when  *)
(* it begins (_txlock=immediate), checks, executes its statements one by   *)
(* one and commits.  A statement may fail, the commit may fail and the     *)
(* process may end between any two of them.  Others read what was          *)
(* committed last.                                                         *)
(*                                                                         *)
(* Names stand for their normalised keys.  A profile has one counter,      *)
(* games, for the four that every result adds to, and its rating; credentials *)
(* are Admission's.  stats.update may add to the counters as well: here it *)
(* changes the rating alone, so that games says how many results were      *)
(* counted.                                                                *)
(*                                                                         *)
(* An operator whose name ends in Fault is a plausible bug in the          *)
(* definition that follows it.  No specification uses it; README.md says   *)
(* which property each one breaks.                                         *)
(***************************************************************************)
EXTENDS Integers, FiniteSets, GoMaps

CONSTANTS
    Username,    \* keys of user names
    DisplayName, \* keys of display names
    Game,        \* games that use statistics
    MaxId,       \* bound: user ids that are ever given
    Limits,      \* values of --max-profiles
    MaxBuddies,  \* 100 in the code
    MaxCounter,  \* math.MaxInt64 in the code
    Delta        \* what stats.update may change a rating by

ASSUME MaxIdAssumption == MaxId \in Nat
ASSUME LimitsAssumption == Limits \subseteq Nat \ {0}
ASSUME MaxBuddiesAssumption == MaxBuddies \in Nat \ {0}
ASSUME MaxCounterAssumption == MaxCounter \in Nat \ {0}
ASSUME DeltaAssumption == Delta \subseteq Int

VARIABLES
    db,    \* what is committed
    tx,    \* the transaction that holds the write lock
    limit, \* ProfileStore.maxProfiles, 0 while no server runs
    games  \* the started games whose results the hub takes, and their rosters

vars == <<db, tx, limit, games>>

-----------------------------------------------------------------------------
(* Types.                                                                  *)

Id == 1 .. MaxId

Profile == [username: Username, name: DisplayName,
            games: 0 .. MaxCounter, rating: 0 .. MaxCounter]

IsDatabase(d) ==
    /\ d \in [profiles: [DOMAIN d.profiles -> Profile],
              buddies: SUBSET {{i, j} : i, j \in Id},
              requests: SUBSET (Id \X Id), lastId: 0 .. MaxId]
    /\ DOMAIN d.profiles \subseteq Id

\* Statements that write, each with its place in the transaction.
Statement ==
    [kind: {"insert profile"}, at: {1}, username: Username, name: DisplayName]
    \union [kind: {"update name"}, at: {1}, id: Id, name: DisplayName]
    \union [kind: {"delete profile"}, at: {1}, id: Id]
    \union [kind: {"insert request", "delete request"}, at: {1},
            from: Id, target: Id]
    \union [kind: {"insert buddies"}, at: {2}, pair: SUBSET Id]
    \union [kind: {"delete buddies"}, at: {1}, pair: SUBSET Id]
    \union [kind: {"delete requests"}, at: {2}, pair: SUBSET Id]
    \union [kind: {"update stats"}, at: Id, id: Id, games: {0, 1},
            rating: Delta \union {-1, 1}]

NoGame == "no game"

ASSUME NoGameAssumption == NoGame \notin Game

Idle == [open |-> FALSE]

\* game is the one whose results the transaction holds.
IsTransaction(t) ==
    t # Idle =>
        /\ t \in [open: {TRUE}, db: {t.db}, left: SUBSET Statement,
                  game: Game \union {NoGame}, rows: SUBSET Id]
        /\ IsDatabase(t.db)

-----------------------------------------------------------------------------
(* What the statements do.                                                 *)

\* addSQLiteCounter refuses what does not fit, addStats lets no rating fall
\* below zero.
Fits(p, s) ==
    /\ p.games + s.games <= MaxCounter
    /\ p.rating + s.rating <= MaxCounter

AddStatsFault(p, s) ==
    [p EXCEPT !.games = @ + s.games, !.rating = @ + s.rating]

AddStats(p, s) ==
    [p EXCEPT !.games = @ + s.games,
              !.rating = IF @ + s.rating < 0 THEN 0 ELSE @ + s.rating]

\* An id is used again when the latest profile is deleted: a primary key
\* without AUTOINCREMENT.
NextIdFault(d) ==
    IF DOMAIN d.profiles = {} THEN 1
    ELSE 1 + CHOOSE i \in DOMAIN d.profiles :
                \A j \in DOMAIN d.profiles : j <= i

NextId(d) == d.lastId + 1

Inserted(d, s) ==
    [d EXCEPT !.profiles = Put(@, NextId(d),
                               [username |-> s.username, name |-> s.name,
                                games |-> 0, rating |-> 0]),
              !.lastId = NextId(d)]

Deleted(d, id) ==
    [d EXCEPT !.profiles = Without(@, {id}),
              !.buddies = {pair \in @ : id \notin pair},
              !.requests = {r \in @ : id \notin {r[1], r[2]}}]

\* The row exists and the new values fit.
Executable(d, s) ==
    s.kind = "update stats" =>
        s.id \in DOMAIN d.profiles /\ Fits(d.profiles[s.id], s)

Executed(d, s) ==
    CASE s.kind = "insert profile" -> Inserted(d, s)
      [] s.kind = "update name" ->
            [d EXCEPT !.profiles[s.id].name = s.name]
      [] s.kind = "delete profile" -> Deleted(d, s.id)
      [] s.kind = "insert request" ->
            [d EXCEPT !.requests = @ \union {<<s.from, s.target>>}]
      [] s.kind = "delete request" ->
            [d EXCEPT !.requests = @ \ {<<s.from, s.target>>}]
      [] s.kind = "insert buddies" ->
            [d EXCEPT !.buddies = @ \union {s.pair}]
      [] s.kind = "delete buddies" -> [d EXCEPT !.buddies = @ \ {s.pair}]
      [] s.kind = "delete requests" ->
            [d EXCEPT !.requests = {r \in @ : {r[1], r[2]} # s.pair}]
      [] s.kind = "update stats" ->
            [d EXCEPT !.profiles[s.id] = AddStats(@, s)]

-----------------------------------------------------------------------------
(* The calls, each up to its first statement that writes.  What a check    *)
(* refuses begins and rolls back without a trace and is no step.           *)

Exist(ids) == ids \subseteq DOMAIN db.profiles

BuddyCount(id) == Cardinality({pair \in db.buddies : id \in pair})

PendingCount(id) == Cardinality({r \in db.requests : r[2] = id})

Begins(statements, g, rows) ==
    /\ limit > 0
    /\ tx = Idle
    /\ tx' = [open |-> TRUE, db |-> db, left |-> statements, game |-> g,
              rows |-> rows]
    /\ UNCHANGED <<db, limit, games>>

Begin(statements) == Begins(statements, NoGame, {})

HasRoom == Cardinality(DOMAIN db.profiles) < limit

Register(u, n) ==
    /\ HasRoom
    /\ db.lastId < MaxId
    /\ \A id \in DOMAIN db.profiles :
          db.profiles[id].username # u /\ db.profiles[id].name # n
    /\ Begin({[kind |-> "insert profile", at |-> 1, username |-> u,
               name |-> n]})

UpdateDisplayName(id, n) ==
    /\ Exist({id})
    /\ \A other \in DOMAIN db.profiles :
          db.profiles[other].name = n => other = id
    /\ Begin({[kind |-> "update name", at |-> 1, id |-> id, name |-> n]})

DeleteProfile(id) ==
    /\ Exist({id})
    /\ Begin({[kind |-> "delete profile", at |-> 1, id |-> id]})

\* A request that is pending already is answered as if it had been made.
RequestBuddy(from, target) ==
    /\ from # target
    /\ Exist({from, target})
    /\ {from, target} \notin db.buddies
    /\ BuddyCount(from) < MaxBuddies
    /\ BuddyCount(target) < MaxBuddies
    /\ PendingCount(target) < MaxBuddies
    /\ <<from, target>> \notin db.requests
    /\ Begin({[kind |-> "insert request", at |-> 1, from |-> from,
               target |-> target]})

\* The rows that the first statement removes say whether there was a request.
\* No limit is checked.
AcceptBuddy(user, requester) ==
    /\ user # requester
    /\ Exist({user, requester})
    /\ <<requester, user>> \in db.requests
    /\ Begin({[kind |-> "delete request", at |-> 1, from |-> requester,
               target |-> user],
              [kind |-> "insert buddies", at |-> 2,
               pair |-> {user, requester}]})

RemoveBuddy(user, buddy) ==
    /\ Exist({user, buddy})
    /\ Begin({[kind |-> "delete buddies", at |-> 1, pair |-> {user, buddy}],
              [kind |-> "delete requests", at |-> 2,
               pair |-> {user, buddy}]})

\* Hub.statsUpdate.
ApplyStats(id, delta) ==
    Begin({[kind |-> "update stats", at |-> id, id |-> id, games |-> 0,
            rating |-> delta]})

Reportable(g) == games[g].state = "started"

\* Hub.statsResults, from the checks under h.mu on.  Get may fail for anyone,
\* who is then taken for a guest; the updates of the others are written in
\* the order of their ids.
StatsResults(g, readable, winners) ==
    /\ Reportable(g)
    /\ readable \subseteq games[g].roster \intersect DOMAIN db.profiles
    /\ winners \subseteq readable
    /\ Begins({[kind |-> "update stats", at |-> id, id |-> id, games |-> 1,
                rating |-> IF id \in winners THEN 1 ELSE -1] : id \in readable},
              g, readable)

-----------------------------------------------------------------------------
(* The rest of a transaction.                                              *)

\* The statements of a batch are committed one by one.
ExecuteFault ==
    /\ tx # Idle
    /\ \E s \in tx.left :
          /\ \A other \in tx.left : s.at <= other.at
          /\ Executable(tx.db, s)
          /\ tx' = [tx EXCEPT !.db = Executed(@, s), !.left = @ \ {s}]
          /\ db' = Executed(tx.db, s)
    /\ UNCHANGED <<limit, games>>

Execute ==
    /\ tx # Idle
    /\ \E s \in tx.left :
          /\ \A other \in tx.left : s.at <= other.at
          /\ Executable(tx.db, s)
          /\ tx' = [tx EXCEPT !.db = Executed(@, s), !.left = @ \ {s}]
    /\ UNCHANGED <<db, limit, games>>

\* A row is missing, a counter is full, the disk is, or the commit fails.
Rollback ==
    /\ tx # Idle
    /\ tx' = Idle
    /\ UNCHANGED <<db, limit, games>>

\* The hub holds h.mu until it has set resultsReported.
Commit ==
    /\ tx # Idle
    /\ tx.left = {}
    /\ db' = tx.db
    /\ tx' = Idle
    /\ games' = IF tx.game = NoGame THEN games
                ELSE [games EXCEPT ![tx.game].state = "reported",
                                   ![tx.game].counted = tx.rows]
    /\ UNCHANGED limit

-----------------------------------------------------------------------------
(* The process.                                                            *)

\* Whatever the database holds is served.
OpenableFault(l) == TRUE

Openable(l) == Cardinality(DOMAIN db.profiles) <= l

\* OpenProfileStoreWithLimit refuses a limit below what is stored.
Open(l) ==
    /\ limit = 0
    /\ Openable(l)
    /\ limit' = l
    /\ UNCHANGED <<db, tx, games>>

\* The process ends: SQLite rolls back what was not committed when the
\* database is opened again, and the games of the hub are lost.
Crash ==
    /\ limit > 0
    /\ limit' = 0
    /\ tx' = Idle
    /\ games' = [g \in Game |->
                    IF games[g].state = "started"
                    THEN [games[g] EXCEPT !.state = "lost"] ELSE games[g]]
    /\ UNCHANGED db

\* Hub.startGame freezes the roster of a game; guests of it have no profile.
StartGame(g, roster) ==
    /\ limit > 0
    /\ games[g].state = "waiting"
    /\ roster \subseteq DOMAIN db.profiles
    /\ games' = [games EXCEPT ![g].state = "started", ![g].roster = roster]
    /\ UNCHANGED <<db, tx, limit>>

-----------------------------------------------------------------------------

EmptyDatabase ==
    [profiles |-> EmptyMap, buddies |-> {}, requests |-> {}, lastId |-> 0]

Init ==
    /\ db = EmptyDatabase
    /\ tx = Idle
    /\ limit = 0
    /\ games = [g \in Game |->
                   [state |-> "waiting", roster |-> {}, counted |-> {}]]

Call ==
    \/ \E u \in Username, n \in DisplayName : Register(u, n)
    \/ \E id \in Id, n \in DisplayName : UpdateDisplayName(id, n)
    \/ \E id \in Id : DeleteProfile(id)
    \/ \E id, other \in Id :
          \/ RequestBuddy(id, other)
          \/ AcceptBuddy(id, other)
          \/ RemoveBuddy(id, other)
    \/ \E id \in Id, delta \in Delta : ApplyStats(id, delta)
    \/ \E g \in Game : \E readable \in SUBSET Id :
          \E winners \in SUBSET readable : StatsResults(g, readable, winners)

Next ==
    \/ Call
    \/ Execute
    \/ Rollback
    \/ Commit
    \/ \E l \in Limits : Open(l)
    \/ Crash
    \/ \E g \in Game : \E roster \in SUBSET Id : StartGame(g, roster)

Spec == Init /\ [][Next]_vars

-----------------------------------------------------------------------------
(* Properties.                                                             *)

\* The database and the open transaction hold what the schema allows: no
\* counter wraps, no rating is negative.
TypeOK ==
    /\ IsDatabase(db)
    /\ IsTransaction(tx)
    /\ limit \in Limits \union {0}
    /\ games \in [Game -> [state: {"waiting", "started", "reported", "lost"},
                           roster: SUBSET Id, counted: SUBSET Id]]

\* No two profiles share a key.
KeysAreUnique ==
    \A i, j \in DOMAIN db.profiles :
        i # j => /\ db.profiles[i].username # db.profiles[j].username
                 /\ db.profiles[i].name # db.profiles[j].name

\* Buddies and requests are between two different profiles that exist, and
\* nobody has more requests pending than the limit.
BuddiesExist ==
    /\ \A pair \in db.buddies : Cardinality(pair) = 2 /\ Exist(pair)
    /\ \A r \in db.requests : r[1] # r[2] /\ Exist({r[1], r[2]})
    /\ \A id \in DOMAIN db.profiles : PendingCount(id) <= MaxBuddies

\* The number of profiles is within the limit the server was started with,
\* after any restart with another limit.
WithinProfileLimit ==
    limit > 0 => Cardinality(DOMAIN db.profiles) <= limit

\* Whatever was rolled back or interrupted, the database is consistent.
StoreIsSound == KeysAreUnique /\ BuddiesExist /\ WithinProfileLimit

\* games is the number of reports that were counted for the profile: a
\* report that fails in the middle counts for nobody and may be made again,
\* and one that was accepted counts once.
ResultsCountedOnce ==
    \A id \in DOMAIN db.profiles :
        db.profiles[id].games =
            Cardinality({g \in Game : id \in games[g].counted})

Reported == {g \in Game : games[g].state = "reported"}

AbstractProfiles ==
    INSTANCE Profiles WITH
        profiles <- db.profiles, buddies <- db.buddies,
        requests <- db.requests, lastId <- db.lastId,
        counted <- [g \in Reported |-> games[g].counted]

\* Statements, rollbacks and crashes are invisible: every call is one step
\* or none.  An id is given once: what still holds the id of a deleted
\* profile never meets another player.
ImplementsProfiles == AbstractProfiles!Spec
=============================================================================
