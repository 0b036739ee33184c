# Verification of the GeneralsX Online server

TLA+ models of the Go server in `src/internal/app`, the TLC instances that
check them and the TLAPS proofs about them. Paths below are relative to the
repository; `hub.go:1655` means `src/internal/app/hub.go`, line 1655.

## 1. The system

One process serves game clients over a TCP control protocol
(`docs/PROTOCOL.md`), relays their game traffic over UDP, keeps profiles in
SQLite, and has three HTTP listeners (operations, administration, public
status). All state but the database is in memory and guarded by few locks:

* `Hub.commandGate` (RWMutex): commands hold it for reading, `Connect` and the
  administrator's calls for writing, `Disconnect` not at all;
* `Hub.mu`: everything the hub stores; every handler holds it from its first
  read to its last write;
* `Relay.mu`: the relay's allocations. The hub calls the relay while it holds
  `Hub.mu`, so the relay calls the hub only after releasing its own mutex;
* `ControlServer.mu`: the set of served connections and whether the server is
  closing; `adminHandler.eventsMu`: tickets and event connections;
* each call of the store that writes is one SQLite transaction, which takes
  the write lock when it begins.

| Part | State | Operations | Interacts with | What is hard | What makes it correct |
|---|---|---|---|---|---|
| Staged games, quick match (`hub.go`) | `games`, `userGame`, `matchQueue`, start timers | create, join, leave, options, ready, kick, start, start_ready, end, enqueue, cancel, results; timer and relay callbacks | relay (allocate, remove, end), store (results), connections | departures in every state, timers that fire while they are stopped, relay expiry outside `h.mu`, replaced connections | one game per user in both maps, unique seats, relay seats = members, started games only shrink, every start resolves |
| Authentication, sessions, names (`hub.go`, `control.go`) | `clients`, `displayOwners`, `pendingAdmissions`, `pendingRegistrations`, `sessions`, `sessionByUser` | guest, register, login, resume, issue, connect, release, rename, disconnect; reset, delete | store (register, authenticate, stamps) | an attempt is up to five separately locked calls, administrators act between them | capacity, one token per profile, names owned exactly while used, revocation reaches everything |
| Control connections (`control.go`) | outbound queue, rate windows, connection set, `closing` | accept, read, write, enqueue, close, wait | hub | a full queue closes the connection inside a handler of somebody else; shutdown against accept | no session outlives or precedes its connection; every connection is closed at shutdown |
| Rooms, chat, presence (`hub.go`) | `rooms`, `userRoom`, statuses | join, leave, chat, status | connections, buddies | replaced and dismissed connections that end late | members of a room are online; what was last sent of a roster or of a buddy is true |
| Relay (`relay.go`) | `games` with two indexes, endpoints, pending queues, rate windows | allocate, remove, end, close, handle datagram, sweep | hub (expiry callback) | decided under a mutex, written after it; datagrams before the first Bind | payloads once, in order, only to seated participants; bounded loss; idle games end |
| Profile store, buddies, statistics (`store.go`, `hub.go`) | SQLite tables, profile limit, visible revision | register, authenticate, reset, delete, rename; request, accept, remove; update, batch | hub | statements that fail in the middle, crashes, restarts under another limit, saturation | each call happens at once or not at all, keys unique, deletion leaves nothing behind, ids never return, a report counts once |
| Administration (`admin.go`) | event tickets, event connections | tickets, events, actions on users and games | hub, store | tickets raced, handlers that end in five ways, shutdown against new streams | single use, bounded, the count returns to zero |
| Server lifecycle (`server.go`, `cmd/`) | listeners, goroutines | start, shutdown, runtime error, signal | all | one step of several failing; errors reported before anybody listens; the deadline | the database is closed last, and the process ends |
| Public status (`public.go`) | a leaderboard kept for two seconds under one mutex | snapshot | hub, store | nothing beyond the mutex | never older than two seconds |
| Configuration, wire types, embedded assets, web UI, deployment | none at run time | | | | |

Three properties one might expect of the buddies are not the code's: two crossing
requests leave one of them pending when the other is accepted; `buddy.accept`
checks no limit, so a player may have more than 100 buddies; and `buddy.remove`
tells the other side nothing, so what his client shows of the former buddy
stays as it was, also if the two befriend again while that buddy is offline.

## 2. Modules and how they fit together

```
Server ---- AdminEvents          Lobby ---- uses ----> RelaySeats <--- implemented by --- Relay
  |  a control connection is        |                     (UsesRelaySeats, ImplementsRelaySeats)
  v  one goroutine there            |  users, connections
Control --- clients, rooms ---------+--- Admission         Profiles <--- implemented by --- ProfileStore
                                                              (ImplementsProfiles)
```

`GoMaps` has the few operators on Go maps the others share: a map is a function
whose domain is the set of keys it holds. The hub is cut along its state:
`Admission` says who gets in, `Control` what a connection is once it is in,
`Lobby` what its user plays. Each has its own `clients` and its own Connect and
Disconnect, which are the part of the code's that changes its state;
`Lobby!MembersAreConnected` and `Control!NoGhosts` are the two sides of the same
pointer.

The proofs about a component are in modules of their own, which extend it and
TLAPS: `LobbyProofs`, `LobbyMembershipProofs` and `LobbyGamesProofs` (in a
line), `AdmissionProofs`, `ControlProofs`, `RelayProofs`, `ProfileStoreProofs`
and `ServerProofs` (which covers `AdminEvents`). Section 5 says what they show.

`Lobby` and `Relay` meet in `RelaySeats`: the run `relay_frames` shows that the
relay keeps that contract whatever datagrams do, `lobby_reconnect` that the hub
changes seats in no other way than the contract's calls, uses no closed relay
and takes in every expiry. Both include the fairness of the sweep.

### Lobby

| Variable | Code |
|---|---|
| `clients` | `Hub.clients`, the live connection of each user |
| `games` | `Hub.games`; a record has the fields of `stagedGame` handlers read |
| `userGame` | `Hub.userGame`, `NoGame` where the map has no entry |
| `matchQueue` | `Hub.matchQueue` |
| `timers` | the `time.AfterFunc` timers the runtime holds: armed, or fired and waiting for `h.mu` |
| `relay`, `relayOpen` | the relay's allocations, as seats; `Relay.conn != nil` |
| `expiring` | games `expireIdleGames` deleted and whose callback has not run |

Every handler is one action, because it holds `h.mu` throughout. Two things
are not atomic in the code and not here: a timer fires (`TimerFires`) and its
callback gets the lock later (`HandleStartReadyTimeout`), and the relay drops
the idle games (`RelayExpires`) before the hub hears of one after the other
(`HandleRelayGameExpired`). Names, passwords, maps and compatibility tuples only
decide refusals; a refused command changes nothing and is a stuttering step.
`statsResults` is the step in which the store has committed.

### Admission

`conn[c]` is where `dispatchAuth` has got to for connection `c`: between two
calls everything else may happen. One action per call: `NewGuest`,
`ReserveProfile`, `ReserveRegistration`, `Register`, `ReleaseRegistration`,
`CommitRegistration`, `Authenticate`, `ReserveAuthenticated`,
`ResumeAndReserve`, `IssueSession`, `Connect`, `ReleaseProfileReservation`; and
`UpdateProfile`, `Disconnect`, `AdminDisconnect`, `AdminResetPassword`,
`AdminDeleteProfile`, `SessionExpires`. `profiles` and `assigned` are the
profiles table as the hub uses it. A credential stamp is the number of
resets before it. Where the store may fail (`Register`, `CommitRegistration`,
`ReserveAuthenticated`) the action may fail; plain reads (`Get`, `Find`), which
report a database error as "no such profile", are assumed to succeed.
`AccountsOf` says which profiles a peer has the password or token of. The
answer that carries a token is sent after `Connect` has returned
(`control.go:434`), so nobody can present one that an attempt has only been
issued (`Unsent`). `MCAdmissionResume` adds a history variable for finding 3.

### Control

| Variable | Code |
|---|---|
| `stage`, `authed` | where `serveClient` is; `controlClient.authed` |
| `out` | `controlClient.send` and `done`, and what the roster and presence messages put on the queue so far say |
| `clients`, `rooms`, `userRoom` | the maps of the hub |
| `deleted` | users whose profile the store no longer has |
| `buddies` | the table of accepted friendships, which `buddyIDs` reads |
| `accepts`, `shutdown`, `toClose` | the accept loop; how far `CloseAll` and `ControlServer.Close` have come, and whom their loops have not reached |

The reader goroutine reads a line (`Reject`, `Authenticate`, `BeginCommand`),
runs the handler (`Command`: the room commands, chat, status and, as `Quiet` and
`GameListChange`, all others by what they send), and queues the answer
(`Answer`) with no lock held. `BuddyAccept` and `BuddyRemove` change `buddies`
and a deletion removes the friendships of its profile; requests are in
`ProfileStore`. The store commits these outside `h.mu`, but a handler that
reads the buddies under `h.mu` reads them before or after the commit, and the
lookup and event that follow the commit are a note to somebody: one step is
enough. What `out` knows of a buddy's presence is dropped when the friendship
ends (`Unfriended`), because the code stops keeping it current then. A guest is
a user nobody befriends. The writer goroutine writes or fails at any time.
A handler that puts a message on a full queue closes that connection and goes
on; `Leave` is the moment its own goroutine notices. Since queues are first in
first out, what a reader knows when he has read everything is what was queued
last; the properties are about that.

### Relay and RelaySeats

`games[g]` has the two indexes of `relayGame` (`participants` by slot,
`byToken`) as the sets of their keys, and `seat` with the participants they
point to. `outbox` is what `handleDatagram` decided to write and has not
written: it is decided under `r.mu` and written after. One goroutine handles
datagrams, so the next one is handled when `outbox` is empty. `windowOver`
says whether a second has passed since the participant's rate window began.
`owed`, `written` and `accepted` are history for the properties. `DataFirst`
says whether a client may send Data before a Bind of his was accepted;
`docs/PROTOCOL.md:518` tells clients to bind first. `RelaySeats` is the
abstraction the hub uses.

### ProfileStore and Profiles

`db` is what is committed, `tx` the transaction that holds the write lock: its
own view and the statements it has still to execute, in the order of the code
(`at`). `Begin` of a call stands for its checks, `Execute` for one statement,
then `Commit` or, wherever anything fails, `Rollback`. `Crash` ends the process
with the open transaction and the started games; `Open` is the restart, which
refuses a limit below what is stored. `games` are the started games of the hub
as far as results go: the hub holds `h.mu` from its check of `resultsReported`
to the commit, so `Commit` sets both. `statsResults` asks the store for each
player and takes one it cannot read for a guest (`hub.go:1447`): `readable` is
any subset. `Profiles` is the store without transactions, rollbacks and crashes.

### AdminEvents and Server

`AdminEvents` has one action per critical section of `eventsMu`: drawing and
consuming tickets, taking a place, tracking, finishing and `shutdownEvents`.
`Server` extends it with the process: `main` walks through `StartOrder`, waits,
and walks through `ShutdownOrder`; each listener may fail to open (`StartFails`)
or fail later (`ListenerFails`), a signal may come at any time, and each wait
of `Shutdown` ends when what it waits for has ended or the deadline has passed.
An HTTP request that is not for an event stream matters only because
`http.Server.Shutdown` waits for it.

## 3. Checks

| Run | Instance | Shows |
|---|---|---|
| `lobby_staging` | 3 users, 2 ids, 2 games at once, 3 slots | types, both views of membership, slots, hosts, sizes and rosters, timers and relay in the stage of their game, late timeouts harmless, started games keep their terms |
| `lobby_reconnect` | 2 users, 3 connections, 2 games, 2 ready keys, 2 match keys | members and queue follow the live connection; readiness is consent; every start resolves, every expired game ends; the relay is used as `RelaySeats` lets it |
| `lobby_requeue` (violation) | 2 users, 3 connections | finding 1 |
| `admission_shared` | 2 connections sharing a stored profile, a guest, limit 1 | types, capacity, one token, revocation; no reservation outlives the credentials it was made with; every attempt is completed or withdrawn |
| `admission_names` | 2 connections sharing a stored profile, a third that may register one, 2 guests, limit 2, no rename of a profile that is being admitted (action constraint `RenamesAlone`) | names kept for registrations and for whoever is online, live names distinct, names that are taken are in use, only current credentials admitted |
| `admission_duplicate`, `admission_resume` (violations) | one profile on several connections | findings 2, 3 |
| `control_sessions` | 2 users who are buddies, part and befriend again, 3 connections, 2 rooms, queues of 2 | types, no ghosts, commands keep their session, rosters and presence that were sent are true, a shutdown reaches every connection |
| `relay_frames` | 3 participants, a queue of 2, 4 datagrams | types, frames accounted for, order and acknowledgement first, removed participants are silent, idle games end, refinement of `RelaySeats` |
| `relay_reorder` (violation) | Data before Bind | finding 4 |
| `store_calls` | 3 ids, 3 names of each kind, one game, limits 1 and 3, one buddy, counters up to 1 | types with saturation, keys, references and limits through failures and restarts, results counted once, refinement of `Profiles` |
| `server_lifecycle` | 1 control connection, 2 tickets, 2 event requests, one place, the admin listener | types, streams accounted for, the database closes last, the process ends, whatever fails and however many at once |

Why the bounds are enough.

* `Lobby`: two ids and three users give a game that has ended under the same
  id, a join after a gap, and a kick by a host with another member left; two
  games at once keep a user in one game while another runs. In
  `lobby_reconnect` a game of two slots is full at two members, which is what
  quick match makes. Three slots give a gap in the
  middle. `lobby_staging` uses symmetry: game ids, and users with their one
  connection each, are never compared but for equality. Generations are
  bounded by the run: a game can be started once before it starts or dissolves,
  so a generation exceeds 2 only under a re-used id, which starts at 0 again.
* `Admission`: one reset per profile (`MaxResets`) puts a reset between any two
  calls; two connections give every race of two attempts, the third in
  `admission_duplicate` is the user who takes the freed name, and in
  `admission_names` the one who registers. A token is referred to by the maps or by one attempt: with one more
  than there are connections a new one can always be drawn.
* `Control`: the two connections of the first user give every order of a newer
  connection, the end of the older one, and a dismissal; the second user is the
  one who is told. A queue of two is filled by a welcome and overflows at the
  next message, so every handler meets full queues. A connection is dialled
  once; a later one would find the same state as one dialled last. The action constraint
  `ShutdownInLounge` lets a shutdown begin when nobody is in the second room, and nobody go there
  then: a shutdown looks at connections, not at rooms, and the lounge can
  still be left and joined.
* `Relay`: `MaxAccepted` admits an overflow of the queue, and a full queue
  followed by a bind; limits of one packet and two headers let every rate
  decision be taken both ways.
* `ProfileStore`: `MaxId` bounds the profiles ever made: three give a friendship,
  a third profile that meets its limit, and a deletion that is followed by a
  registration. A counter of at most 1 saturates at the second addition; the
  rating reaches both ends. Two limits give a refused and a successful restart.
* `Server`: every loop may fail to open its socket, and any number of them may
  fail later, in any order and also while `Shutdown` runs. One place for two
  requests gives a refused stream and one that takes the place after the other;
  one ticket pending at most, of two drawn, gives a refused and a replaced
  ticket. The admin listener is configured and the public ones are not, so both
  forms of `StartStep` occur; the public ones are started, watched and closed as
  the admin one is, and the proofs are for any set.

Deadlock checking is off only for the relay, where the bound on datagrams and a
closed relay end every behaviour; the control server and the process end in a
state of their own (`Stopped`, `Exited`).

Fairness. `Lobby`: the runtime fires timers nobody stopped, goroutines
waiting for a mutex get it (Go's mutex does not starve waiters), and the sweep
calls the hub for each game. `Admission`: the goroutine of a connection runs
`dispatchAuth` to its end; no call in it waits for a peer. `Relay`: the ticker
ticks and the sweep calls its handler. `Server`: `main` takes its next step when it can, a handler of an HTTP request
returns (each has read and write deadlines), the accept loop, a control
connection and an event stream notice that they were closed, and a handler of
the event endpoint runs on. Neither the deadline of `Shutdown` nor any peer has
to act: `ShutdownEnds` holds without them. Nothing is assumed of clients,
administrators or the network anywhere.

An operator whose name ends in `Fault` is a bug somebody could write; it is
used by no specification. Each breaks the property beside it:

| Module | Fault | Property |
|---|---|---|
| Lobby | `FirstOpenSlotRangeFault` counts from one | `TypeOK` |
| | `FirstOpenSlotCountFault` takes the number of members | `GamesAreSound` |
| | `DissolveFault` forgets the members | `MembershipAgrees` |
| | `StopTimerFault` stops nothing | `StagesAgree` |
| | `AwaitedFault` ignores state and generation | `LateTimeoutsAreHarmless` |
| | `JoinableStartingFault` lets users into a start | `StartedGamesKeepTheirTerms` |
| | `ConnectFault` keeps the old connection | `MembersAreConnected` |
| | `PurgedFault` keeps stale entries | `QueueIsSound` |
| | `UnreadyFault` keeps readiness | `ReadinessIsConsent` |
| | `ArmTimerFault` captures the generation too early | `StagesEnd` |
| | `CanAllocateFault` allocates in a closed relay | `UsesRelaySeats` |
| Admission | `IssueSessionFault` serves guests | `TypeOK` |
| | `ReservedPlayerCountFault` forgets reservations | `WithinPlayerLimit` |
| | `RotatedFault` keeps the previous token | `OneTokenPerProfile` |
| | `RevokeProfileAccessFault` keeps the admission | `AccessNeedsProfile` |
| | `ConnectFault` keeps the reservation | `AttemptsResolve` |
| | `CanReserveRegisteringFault`, `CanReserveOwnedFault` | `NamesAreHeld`, `LiveNamesDistinct` |
| | `ReserveAuthenticatedFault` trusts the old check | `AdmittedAreCurrent`, `ReservationsVerified` |
| Control | `EnqueuedFault` takes one message too many | `TypeOK` |
| | `EnqueuedDropFault` drops instead of closing | `RosterCurrent` |
| | `ConnectedFault` leaves the old connection in the room | `NoGhosts` |
| | `GateFreeFault` does without the gate | `CommandsKeepSession` |
| | `LeaveNotifyFault` reports a replaced connection offline | `PresenceCurrent` |
| | `RefusedFault` forgets `closing` | `ShutdownReachesAll` |
| Relay | `QueuedRangeFault`, `QueuedNewestFault` | `TypeOK`, `FramesAreAccounted` |
| | `AnswerNewestFirstFault` sends the newest first | `FramesComeInOrder` |
| | `UnseatedFault` keeps the token | `RemovedAreSilent` |
| | `ExpiredFault` sweeps only empty games | `IdleGamesExpire` |
| | `ExpireIdleGamesFault` leaves the swept games allocated | `ImplementsRelaySeats` |
| ProfileStore | `AddStatsFault` lets ratings fall below zero | `TypeOK` |
| | `OpenableFault` serves whatever is stored | `StoreIsSound` |
| | `ExecuteFault` commits statement by statement | `ResultsCountedOnce` |
| | `NextIdFault` gives ids again | `ImplementsProfiles` |
| AdminEvents | `HasCapacityFault` off by one | `TypeOK` |
| | `ConsumeEventTicketFault` keeps the ticket | `StreamsAreAccounted` |
| Server | `StartFailsFault` closes the database at once | `StoreClosesLast` |
| | `ReportedFault` drops early reports | `ShutdownEnds` |

## 4. Where code and documentation disagree

1. `lobby_requeue`: a quick match entry belongs to the connection that made it.
   After a newer connection of the user takes over, `quickmatch.enqueue`
   answers "queued" from the old entry, and the next enqueue of anybody drops
   it as stale. `docs/PROTOCOL.md:467` says the entry stays until cancelled.
2. `admission_duplicate`: `profile.update` gives the old name back although a
   second connection of the user is being admitted under it; another user
   takes it, and both are online under one name. The refusal at `hub.go:150`
   and `server_integration_test.go:602` say this cannot be.
3. `admission_resume`: `docs/PROTOCOL.md:218` says "A resume token is consumed
   only after admission succeeds, so a `server_full` resume can retry the same
   token". The code deletes the token when it has reserved the profile
   (`hub.go:304`), two calls before the admission. An older attempt of the same
   profile that fails then calls `ReleaseProfileReservation`, which withdraws
   the reservation of the profile whoever made it (`hub.go:225`): the resumption
   is refused and its token is gone. The token in question was delivered, the
   credentials are current, and nobody else was admitted or was issued a token
   meanwhile: a token that a later login replaces is lost by design
   (`docs/PROTOCOL.md:209`) and not counted. The `server_full` half holds:
   a reservation that is refused leaves the token (`ResumeAndReserve`).
4. `relay_reorder`: a participant whose first datagram is Data receives later
   payloads before the queued ones, contrary to `docs/PROTOCOL.md:489`. With
   clients that bind first (`relay_frames`) order holds.

A reservation is not tied to the connection that made it: `IssueSession` and
`Connect` compare the user's pending admission with a name. A profile may
authenticate on several connections at once, which the code supports by
replacing the older one (`hub.go:322`). What holds then, and what does not:

* `ReservationsVerified` holds without any restriction: a reservation is always
  some attempt's that was verified against the credentials of now. An attempt
  that was verified before a reset may still use the reservation of one that
  was verified after it, as the two cannot be told apart: the strict
  `AdmittedAreCurrent` speaks of profiles that one peer has (`Unshared`).
* `LiveNamesDistinct` and `NamesComeBack` hold as long as no connection renames
  a profile that another one is being admitted to (`RenamesAlone`); finding 2
  is what happens otherwise.
* The second part of `NamesAreHeld`, that whoever is online owns his name in
  `displayOwners`, speaks of such users as well: when the older connection
  ends between reservation and Connect of the newer one, `disconnectLocked`
  deletes the name (`hub.go:361`), and only the store keeps it from others. For
  a persistent profile that is enough, as `LiveNamesDistinct` shows.

Met on the way, without a run: a message that says why a connection is closed
(`session.replaced`, `session.closed`, `server.shutdown`) may be lost, because
the writer may see the close first; events of a command are queued before its
answer; the buddies of a deleted profile are not told that it went offline, nor
is a buddy who was removed told of anything after it; a report whose read of a
profile fails is accepted without that player's result.

## 5. Proofs

The safety invariants and action properties that passing runs check are also
theorems, but for `AdmittedAreCurrent` and one part of `NamesAreHeld`, for all
values of the constants that satisfy the named assumptions of the modules: null values lie outside their sets, `SlotCount >= 2`
in `Lobby`, limits are natural numbers, queues have room for one message,
initial profiles have distinct names. The bounds that keep TLC's runs finite
(`MaxResets`, `MaxAccepted`, `MaxId`, `MaxTickets`, `MaxStreams`) are
arbitrary natural numbers there. `FramesInOrder` has a hypothesis of its own, and
`NamesCorrect` and `LiveNamesCorrect` are about `OrderlySpec`; both are named
below. Each invariant, with the parts that strengthen it, held in TLC on
the instances of section 3 before it was proved.

The proofs have one shape: `Init => Inv`, `Inv /\ [Next]_vars => Inv'` with a step
for each action, and `Inv => property`; a refinement adds one step per action
that maps it to a step of the abstract specification or to a stutter.

**Lobby.**

* `LobbyProofs!TypeCorrect`: `TypeOK` is inductive. Lemmas say what `Put`,
  `Without`, `Seats`, `ArmTimer`, `Dissolve` and `LeaveGame` do to well-typed
  values, and that `firstOpenSlot` answers a slot nobody holds or -1.
* `LobbyMembershipProofs`: `LinkInv` joins `TypeOK`, `MembershipAgrees`,
  `MembersAreConnected` and `QueuedUsersAreFree`. None of the last three is
  inductive alone: a disconnect removes the user's member only if `userGame` knows
  where he is, a match seats a queued connection only because queued users are
  free and the entry is not stale, and a replacement finds the member through
  `userGame`. `MembershipCorrect`, `ConnectionsCorrect` and `QueueSound` follow.
* `LobbyGamesProofs`, games: a handler does one of ten things to a game. A lemma
  about each says that a sound game stays sound and how it may differ (`Moved`);
  `FreeSlot` is the pigeonhole argument by which a lobby that is not full
  gives a joining player a slot. `StepMoves` collects them, and `GamesCorrect`,
  the first half of `TermsCorrect` and `ConsentCorrect` are read off it.
* `LobbyGamesProofs`, stages: `StageInv` adds `ExpiringAwaited` to
  `StagesAgree`: a game whose expiry is on its way to the hub has no allocation
  and, if it is still there, is running. Without it the callback of
  an old sweep could meet a game that started later, and `RelayServesMembers`
  would not survive. `StagesCorrect`, `LateTimeoutsCorrect` and the second half of
  `TermsCorrect` follow, and `SafelyUsesRelaySeats`: every step of the hub is a
  step of `RelaySeats` or none.

**Admission.** `TypeInv` strengthens `TypeOK` by what each `pc` says of an attempt.
`AccessCorrect`, `OneTokenCorrect`, `RegistrationsCorrect` (the first part of
`NamesAreHeld`), `CredentialsCorrect` and `LimitCorrect` need nothing else, however
many connections share a profile; the limit is counted by `CountedInv`, whose
maps are finite. `NamesCorrect` and `LiveNamesCorrect` are theorems of
`OrderlySpec`, which lets any number of connections share a profile and only
keeps renames apart from admissions (`RenamesAlone`); finding 2 is the behaviour
without it. Their `NamesInv` says that stored names are distinct and that every
attempt, admission and live connection of a profile has the name that is stored
(`StoreDistinct`, `NamesStored`), that a name which is owned is stored for nobody
else (`OwnersStored`), that a guest owns his (`GuestsHold`), and that live
connections and reservations are attempts of their user (`UsersInv`,
`ClientsLive`, `ReservationsVerified`).

**Control.** `SessionInv` is `TypeOK`, `HubInv` (clients under their own
users, rooms and `userRoom` agree, members are live, and whoever's queue still takes
messages was told the roster and the presence as they are), `HeldAreServed`,
`OpenAreHeld`, `CommandsKeepSession` and `ShutdownClosing`. The handlers call each
other, so the lemmas are about the operators that make one hub of
another, not about actions. Friendships begin and end
(`BefriendedKeeps`, `UnfriendedKeeps`): an end takes what was told with it, and a
beginning adds nothing to it. `HubHoldsNoGhosts`, `CommandsActForSession`,
`RosterReaches`, `PresenceReaches` and `ShutdownCloses` follow.

**Server.** `EventsInv` says where tickets are and that `count` is the number of
placed handlers (`StreamsAccounted`). `LifeInv` adds what each place in
`ShutdownOrder` has closed (`PassedAreGone`), that nothing is served before the
listeners are up, and how `Start` and `Shutdown` end; `StoreCloses` follows.

**Relay.** `RelayInv` is `TypeOK`, the shape of the games, and `SeatInv(r)` for every
seat: of what was written to it, decided, queued and owed no frame is there
twice, what is missing fell out of a full queue, and the order is right. Every
action is one of a few events for every seat (`SeatStep`). `FramesAccounted` and
`RemovedSilent` follow; `FramesInOrder` assumes `~ DataFirst`, that clients
wait for BindAck before they send, without which it is false (finding 4).
`SafelyImplementsRelaySeats` maps every step to `RelaySeats`.

**ProfileStore.** `StoreInv` holds `CallInv`: an open transaction is the rest of one
call, what the call checked is still true of what is committed, and the
transaction's database is the committed one with the statements applied that
are no longer left. `CountInv` makes new ids and new reports count for nobody
before. `StoreSound`, `ResultsOnce` and the whole refinement
`StoreImplementsProfiles` follow; `Profiles` has no fairness.

**Only model-checked.** `AdmittedAreCurrent`, and that a user who is online
owns his name (`OnlineOwn`), both of users whom one peer has; and liveness, since fairness and `ENABLED` are out of the
prover's reach: `StagesEnd`, `AttemptsResolve`, `IdleGamesExpire`,
`ShutdownEnds`, and the fairness that `ImplementsRelaySeats` and `UsesRelaySeats`
ask for beside the steps. No module uses RECURSIVE operators.

## 6. Not modelled

* Creating and migrating the schema and the connection settings of SQLite: done
  once, before anything else runs. Password derivation and verification are
  steps of `Admission`; what they compute is not.
* The visible revision and the dashboard pages that poll it: views of the
  database, refreshed by a timer in the browser.
* Rate windows: a line over its limit is a refused line, which any line may be.
* The public status page: a read-only view whose cache is read and replaced
  under one mutex.
* A second caller of `Shutdown`, who only waits for the first; the health
  server, whose connections `Shutdown` leaves to the end of the process when the
  deadline passes, is treated like the other HTTP servers.
* Parsing, validation and formatting of requests, TLS, configuration, logging
  and metrics; the web interface and the deployment files, which keep no state
  of the server.
* UDP and TCP below the process: datagrams may be lost, repeated and reordered
  before they arrive, which the relay's model covers because any participant
  may send anything at any time; what happens to a frame after it was written
  is outside.

## 7. Plan

1. An abstract life cycle of one game (open, starting, started, gone) that `Lobby`
   implements, and the proof of its step simulation: `Moved` says most of it.
2. Without `RenamesAlone`, a weaker property of names that holds: which
   names two users can share, and for how long.
3. What the leads-to properties rest on, as theorems about steps: a start that is
   under way has its timer until the callback has run (`StageInv` says so of
   states), and an attempt never goes back.
