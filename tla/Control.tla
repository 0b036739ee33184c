------------------------------ MODULE Control ------------------------------
(***************************************************************************)
(* The control connections (src/internal/app/control.go) and what the hub  *)
(* (hub.go) keeps and announces about them: who is online, who is in which *)
(* room, and the events that tell the others.                              *)
(*                                                                         *)
(* A connection has a goroutine that reads and serves commands and one     *)
(* that writes what its bounded queue holds.  Handlers of every            *)
(* connection put events on that queue under h.mu; none of them waits: a   *)
(* full queue closes the connection, and its own goroutine finds out       *)
(* later.  A command holds commandGate for reading from the check that its *)
(* session is the live one until it returns, while Connect and the         *)
(* administrator hold it for writing.  The accept loop, CloseAll, Close    *)
(* and Wait of a shutdown run beside all of it.                            *)
(*                                                                         *)
(* A message matters by the room it takes in the queue and, when it is the *)
(* roster of a room or the presence of a buddy, by what its reader knows   *)
(* then: the queue is first in, first out and one goroutine writes it, so  *)
(* a count and what the last messages said stand for it.  All the others   *)
(* are Notes.  Admission.tla says who may authenticate, Lobby.tla what the *)
(* game commands do.                                                       *)
(*                                                                         *)
(* An operator whose name ends in Fault is a plausible bug in the          *)
(* definition that follows it.  No specification uses it; README.md says   *)
(* which property each one breaks.                                         *)
(***************************************************************************)
EXTENDS Integers, FiniteSets, SequencesExt, GoMaps

CONSTANTS
    Conn,                  \* connections (*controlClient), each dialled once
    User,                  \* user ids
    UserOf,                \* the user a connection authenticates as
    Room,                  \* room ids
    Lounge,                \* the room "global"
    InitialBuddies,        \* the friendships stored when the server starts
    QueueSize,             \* 128 in the code: the capacity of client.send
    MaxControlConnections, \* cfg.MaxControlConnections
    NoRoster               \* no roster was heard of yet

ASSUME UserOfAssumption == UserOf \in [Conn -> User]
ASSUME LoungeAssumption == Lounge \in Room
ASSUME BuddiesAssumption == \A pair \in InitialBuddies :
    \E u, v \in User : u # v /\ pair = {u, v}
ASSUME QueueSizeAssumption == QueueSize \in Nat \ {0}
ASSUME MaxConnectionsAssumption == MaxControlConnections \in Nat

VARIABLES
    stage,    \* where the goroutine of each connection is
    authed,   \* connections whose client.authed is set and read again
    out,      \* client.send, client.done and what was put on the queue last
    clients,  \* h.clients: the live connection of each user online
    rooms,    \* the members of each room
    userRoom, \* h.userRoom
    deleted,  \* users whose profile is no longer stored
    buddies,  \* the table of accepted friendships, each a set of two users
    accepts,  \* the accept loop runs
    shutdown, \* how far Server.Shutdown has come
    toClose   \* connections a loop of the shutdown has yet to close

hubVars == <<clients, rooms, userRoom, deleted, buddies, out>>
handlerVars == <<stage, authed>>
serverVars == <<accepts, shutdown, toClose>>
vars == <<handlerVars, hubVars, serverVars>>

-----------------------------------------------------------------------------
(* Types.                                                                  *)

\* away: not dialled.  reading: in the read loop.  command: inside
\* Hub.Command.  answering: the answer follows.  welcoming: the answer and
\* session.ready follow.  draining: waits for the writer.  gone: forgotten.
Stage == {"away", "reading", "command", "answering", "welcoming",
          "draining", "gone"}

InLoop == {"reading", "command", "answering", "welcoming"}

Note == [kind |-> "note"]
RoomUpdated(r, members) ==
    [kind |-> "room.updated", room |-> r, users |-> DOMAIN members]
BuddyStatus(u, online) ==
    [kind |-> "buddy.status", user |-> u, online |-> online]

Roster == [kind: {"room.updated"}, room: Room, users: SUBSET User]

\* roster and online are what the messages put on the queue so far say;
\* of presence, what was said during a friendship that has not ended since.
IsOutbound(o) ==
    /\ o \in [queued: 0 .. QueueSize, done: BOOLEAN,
              roster: Roster \union {NoRoster},
              online: [DOMAIN o.online -> BOOLEAN]]
    /\ DOMAIN o.online \subseteq User

ShutdownStage == {"running", "closingAll", "closed", "done"}

-----------------------------------------------------------------------------
(* The queue of a connection.                                              *)

\* A new client, and one that is closed: what is still queued then may or
\* may not be written before the socket closes, and nothing depends on it.
Silent(closed) == [queued |-> 0, done |-> closed, roster |-> NoRoster,
                   online |-> EmptyMap]

Closed == Silent(TRUE)

\* What the reader knows once he has read m as well.
Told(o, m) ==
    CASE m.kind = "room.updated" -> [o EXCEPT !.roster = m]
      [] m.kind = "buddy.status" ->
            [o EXCEPT !.online = Put(@, m.user, m.online)]
      [] OTHER -> o

\* One message more than the channel holds.
EnqueuedFault(o, m) ==
    IF o.done THEN o
    ELSE IF o.queued <= QueueSize
    THEN [Told(o, m) EXCEPT !.queued = @ + 1]
    ELSE Closed

\* The message is dropped and the connection left open.
EnqueuedDropFault(o, m) ==
    IF o.done \/ o.queued = QueueSize THEN o
    ELSE [Told(o, m) EXCEPT !.queued = @ + 1]

\* enqueue never waits.  A message over the line limit closes the
\* connection as a full queue does.
Enqueued(o, m) ==
    IF o.done THEN o
    ELSE IF o.queued < QueueSize
    THEN [Told(o, m) EXCEPT !.queued = @ + 1]
    ELSE Closed

Sent(outs, receivers, m) ==
    [c \in Conn |-> IF c \in receivers THEN Enqueued(outs[c], m)
                    ELSE outs[c]]

-----------------------------------------------------------------------------
(* What handlers do under h.mu, as operators on what h.mu guards.          *)

Hub == [clients |-> clients, rooms |-> rooms, userRoom |-> userRoom,
        deleted |-> deleted, buddies |-> buddies, out |-> out]

Becomes(h) ==
    /\ clients' = h.clients
    /\ rooms' = h.rooms
    /\ userRoom' = h.userRoom
    /\ deleted' = h.deleted
    /\ buddies' = h.buddies
    /\ out' = h.out

\* broadcastRoomSnapshotLocked.
RoomBroadcast(h, r) ==
    [h EXCEPT !.out = Sent(@, Range(h.rooms[r]), RoomUpdated(r, h.rooms[r]))]

\* leaveRoomLocked.
RoomLeft(h, u) ==
    IF u \notin DOMAIN h.userRoom THEN h
    ELSE LET r == h.userRoom[u]
         IN  RoomBroadcast([h EXCEPT !.userRoom = Without(@, {u}),
                                     !.rooms[r] = Without(@, {u})], r)

\* joinRoomLocked.
RoomJoined(h, c, r) ==
    RoomBroadcast([h EXCEPT !.rooms[r] = Put(@, UserOf[c], c),
                            !.userRoom = Put(@, UserOf[c], r)], r)

\* What the store answers.  A profile takes its friendships with it.
BuddyIDs(h, u) == {v \in User : {u, v} \in h.buddies}

\* notifyBuddyStatusLocked.
BuddiesNotified(h, u, online) ==
    [h EXCEPT !.out = Sent(@, {h.clients[b] : b \in BuddyIDs(h, u)
                                                \intersect DOMAIN h.clients},
                           BuddyStatus(u, online))]

\* Friendships end in the store and nobody is told: what the one knew of the
\* other's presence is news of a friendship that is over.
Unfriended(h, ended) ==
    LET Strangers(c) == {b \in User : {b, UserOf[c]} \in ended}
    IN  [h EXCEPT !.buddies = @ \ ended,
                  !.out = [c \in Conn |->
                      [h.out[c] EXCEPT !.online = Without(@, Strangers(c))]]]

\* An event that says why, and close.
Dismissed(h, c) == [h EXCEPT !.out[c] = Closed]

\* disconnectLocked; the game and the queue are Lobby's.
Disconnected(h, c) ==
    LET u == UserOf[c]
        offline == [h EXCEPT !.clients = Without(@, {u})]
    IN  BuddiesNotified(RoomLeft(offline, u), u, FALSE)

\* The room goes on telling the older connection.
ConnectedFault(h, c) ==
    LET u == UserOf[c]
        alone == IF u \in DOMAIN h.clients /\ h.clients[u] # c
                 THEN Dismissed(h, h.clients[u]) ELSE h
        online == [alone EXCEPT !.clients = Put(@, u, c)]
        placed == IF u \in DOMAIN h.userRoom
                  THEN RoomBroadcast(online, h.userRoom[u])
                  ELSE RoomJoined(online, c, Lounge)
    IN  BuddiesNotified(placed, u, TRUE)

\* Connect, from the check of the admission on: the older connection of the
\* user is told and closed, and the newer one takes his place in his room.
Connected(h, c) ==
    LET u == UserOf[c]
        alone == IF u \in DOMAIN h.clients /\ h.clients[u] # c
                 THEN Dismissed(h, h.clients[u]) ELSE h
        online == [alone EXCEPT !.clients = Put(@, u, c)]
        placed == IF u \in DOMAIN h.userRoom
                  THEN LET r == h.userRoom[u]
                       IN  RoomBroadcast(
                               [online EXCEPT !.rooms[r] = Put(@, u, c)], r)
                  ELSE RoomJoined(online, c, Lounge)
    IN  BuddiesNotified(placed, u, TRUE)

-----------------------------------------------------------------------------
(* Helpers.                                                                *)

\* A command still runs on a connection that holds no gate.
GateFreeFault == TRUE

\* commandGate can be locked for writing.
GateFree == \A c \in Conn : stage[c] # "command"

\* s.clients.
Served == {c \in Conn : stage[c] \in InLoop \union {"draining"}}

Live(c) == UserOf[c] \in DOMAIN clients /\ clients[UserOf[c]] = c

Closing == shutdown \in {"closed", "done"}

\* The loop admits whatever the listener gave it.
RefusedFault == Cardinality(Served) >= MaxControlConnections

\* What acceptLoop looks at under s.mu.
Refused == Closing \/ Cardinality(Served) >= MaxControlConnections

To(c, next) == stage' = [stage EXCEPT ![c] = next]

-----------------------------------------------------------------------------
(* The accept loop.                                                        *)

\* Accept returns a connection, the last perhaps just before the listener is
\* closed.  It is closed or registered; its goroutine starts the writer and
\* queues server.hello.
Accept(c) ==
    /\ stage[c] = "away"
    /\ accepts
    /\ IF Refused
       THEN /\ To(c, "gone")
            /\ out' = [out EXCEPT ![c] = Closed]
       ELSE /\ To(c, "reading")
            /\ out' = [out EXCEPT ![c] = Enqueued(@, Note)]
    /\ UNCHANGED <<authed, clients, rooms, userRoom, deleted, buddies, serverVars>>

\* Accept fails because the listener is closed.  A loop that fails earlier
\* accepts nobody either, and has the server shut down: Server.tla.
AcceptFails ==
    /\ accepts
    /\ Closing
    /\ accepts' = FALSE
    /\ UNCHANGED <<handlerVars, hubVars, shutdown, toClose>>

-----------------------------------------------------------------------------
(* The goroutine that reads.                                               *)

\* A line that is answered without a change: malformed, over the rate, not
\* authenticated, refused by Admission or on an inactive session.
Reject(c) ==
    /\ stage[c] = "reading"
    /\ out' = Sent(out, {c}, Note)
    /\ UNCHANGED <<handlerVars, clients, rooms, userRoom, deleted, buddies,
                   serverVars>>

\* dispatchAuth once the profile is reserved.  The answer and session.ready
\* follow.
Authenticate(c) ==
    /\ stage[c] = "reading"
    /\ c \notin authed
    /\ UserOf[c] \notin deleted
    /\ GateFree
    /\ Becomes(Connected(Hub, c))
    /\ authed' = authed \union {c}
    /\ To(c, "welcoming")
    /\ UNCHANGED <<serverVars>>

\* Hub.Command takes the gate and finds the session active.
BeginCommand(c) ==
    /\ stage[c] = "reading"
    /\ c \in authed
    /\ Live(c)
    /\ To(c, "command")
    /\ UNCHANGED <<authed, hubVars, serverVars>>

\* The handlers.  A refused one only answers.
Running(c) == stage[c] = "command"

JoinRoom(c, r) ==
    /\ Running(c)
    /\ Becomes(RoomJoined(RoomLeft(Hub, UserOf[c]), c, r))
    /\ To(c, "answering")

LeaveRoom(c) ==
    /\ Running(c)
    /\ Becomes(RoomLeft(Hub, UserOf[c]))
    /\ To(c, "answering")

RoomChat(c) ==
    /\ Running(c)
    /\ UserOf[c] \in DOMAIN userRoom
    /\ out' = Sent(out, Range(rooms[userRoom[UserOf[c]]]), Note)
    /\ To(c, "answering")
    /\ UNCHANGED <<clients, rooms, userRoom, deleted, buddies>>

\* What changes the public list sends it to everybody.
GameListChange(c) ==
    /\ Running(c)
    /\ out' = Sent(out, Range(clients), Note)
    /\ To(c, "answering")
    /\ UNCHANGED <<clients, rooms, userRoom, deleted, buddies>>

SetStatus(c) ==
    /\ Running(c)
    /\ Becomes(BuddiesNotified(Hub, UserOf[c], TRUE))
    /\ To(c, "answering")

\* player.chat and buddy.request look their target up under h.mu and send the
\* event after they have released it: meanwhile the target can only disconnect
\* himself, and is closed then.
PlayerChat(c, u) ==
    /\ Running(c)
    /\ u \in DOMAIN clients
    /\ out' = Sent(out, {clients[u]}, Note)
    /\ To(c, "answering")
    /\ UNCHANGED <<clients, rooms, userRoom, deleted, buddies>>

\* buddy.accept and buddy.remove commit to the store without h.mu, and only
\* the first has an event, sent as that of player.chat is.  A handler that
\* reads the buddies under h.mu reads them before or after the commit, and
\* nobody comes or goes while it tells them: a step of its own is enough.
\* Which requests wait for an answer is ProfileStore's.
BuddyAccept(c, v) ==
    /\ Running(c)
    /\ v # UserOf[c]
    /\ {v, UserOf[c]} \intersect deleted = {}
    /\ buddies' = buddies \union {{v, UserOf[c]}}
    /\ out' = Sent(out, {clients[u] : u \in {v} \intersect DOMAIN clients}, Note)
    /\ To(c, "answering")
    /\ UNCHANGED <<clients, rooms, userRoom, deleted>>

\* A removal that finds no friendship only answers.
BuddyRemove(c, v) ==
    /\ Running(c)
    /\ {v, UserOf[c]} \in buddies
    /\ Becomes(Unfriended(Hub, {{v, UserOf[c]}}))
    /\ To(c, "answering")

Quiet(c) ==
    /\ Running(c)
    /\ To(c, "answering")
    /\ UNCHANGED hubVars

Command(c) ==
    /\ \/ \E r \in Room : JoinRoom(c, r)
       \/ LeaveRoom(c)
       \/ RoomChat(c)
       \/ GameListChange(c)
       \/ SetStatus(c)
       \/ \E u \in User :
             PlayerChat(c, u) \/ BuddyAccept(c, u) \/ BuddyRemove(c, u)
       \/ Quiet(c)
    /\ UNCHANGED <<authed, serverVars>>

\* The answers of the command are queued, with no lock held.  The loop reads
\* on, or ends as if there was nothing more to read: after session.close, and
\* when the server's context is cancelled.
Answer(c) ==
    /\ stage[c] \in {"answering", "welcoming"}
    /\ out' = LET answered == Sent(out, {c}, Note)
              IN  IF stage[c] = "welcoming" THEN Sent(answered, {c}, Note)
                  ELSE answered
    /\ To(c, "reading")
    /\ UNCHANGED <<authed, clients, rooms, userRoom, deleted, buddies, serverVars>>

\* The buddies hear that a replaced connection ended.
LeaveNotifyFault(c) ==
    /\ stage[c] = "reading"
    /\ LET h == IF c \in authed
                THEN IF Live(c) THEN Disconnected(Hub, c)
                     ELSE BuddiesNotified(Hub, UserOf[c], FALSE)
                ELSE Hub
       IN  Becomes([h EXCEPT !.out[c] = Closed])
    /\ To(c, "draining")
    /\ authed' = authed \ {c}
    /\ UNCHANGED serverVars

\* Scan fails, because the peer is gone or silent or the connection is closed:
\* Hub.Disconnect if the connection authenticated, then close.
Leave(c) ==
    /\ stage[c] = "reading"
    /\ LET h == IF c \in authed /\ Live(c) THEN Disconnected(Hub, c) ELSE Hub
       IN  Becomes([h EXCEPT !.out[c] = Closed])
    /\ To(c, "draining")
    /\ authed' = authed \ {c}
    /\ UNCHANGED serverVars

\* The writer has returned: done is closed, and a write under way fails with
\* the connection.  Nothing refers to the client any more.
Forget(c) ==
    /\ stage[c] = "draining"
    /\ To(c, "gone")
    /\ UNCHANGED <<authed, hubVars, serverVars>>

-----------------------------------------------------------------------------
(* The goroutine that writes.                                              *)

\* The next message is written.
Write(c) ==
    /\ stage[c] # "gone"
    /\ out[c].queued > 0
    /\ out' = [out EXCEPT ![c].queued = @ - 1]
    /\ UNCHANGED <<handlerVars, clients, rooms, userRoom, deleted, buddies,
                   serverVars>>

\* The peer is gone, or did not read before the write deadline.
WriteFails(c) ==
    /\ stage[c] # "gone"
    /\ out[c].queued > 0
    /\ out' = [out EXCEPT ![c] = Closed]
    /\ UNCHANGED <<handlerVars, clients, rooms, userRoom, deleted, buddies,
                   serverVars>>

-----------------------------------------------------------------------------
(* The administrator.                                                      *)

\* The session ends under both locks and is closed under the gate.  In
\* between no command runs and no handler knows the connection any more, so
\* the two are one step.
Ended(h, u) ==
    IF u \in DOMAIN h.clients
    THEN Dismissed(Disconnected(h, h.clients[u]), h.clients[u]) ELSE h

\* AdminDisconnect, and a reset with revokeProfileAccessLocked.
AdminDisconnect(u) ==
    /\ u \in DOMAIN clients
    /\ GateFree
    /\ Becomes(Ended(Hub, u))
    /\ UNCHANGED <<handlerVars, serverVars>>

\* The profile is deleted first, and its friendships with it: by the time its
\* session ends nobody is told that it went offline.
AdminDeleteProfile(u) ==
    /\ u \notin deleted
    /\ GateFree
    /\ LET gone == [Hub EXCEPT !.deleted = @ \union {u}]
       IN  Becomes(Ended(Unfriended(gone, {b \in buddies : u \in b}), u))
    /\ UNCHANGED <<handlerVars, serverVars>>

-----------------------------------------------------------------------------
(* Server.Shutdown, as far as the control connections go.                  *)

\* Hub.CloseAll reads h.clients and goes on without h.mu.
CloseAll ==
    /\ shutdown = "running"
    /\ shutdown' = "closingAll"
    /\ toClose' = Range(clients)
    /\ UNCHANGED <<handlerVars, hubVars, accepts>>

\* Its loop says server.shutdown and closes, one after the other: what is
\* closed before its turn might as well have failed to write.
CloseEach ==
    /\ toClose # {}
    /\ out' = [c \in Conn |-> IF c \in toClose THEN Closed ELSE out[c]]
    /\ toClose' = {}
    /\ UNCHANGED <<handlerVars, clients, rooms, userRoom, deleted, buddies,
                   accepts, shutdown>>

\* ControlServer.Close: closing is set and s.clients read under s.mu, then
\* the listener is closed, and the loop above runs for them.
CloseControl ==
    /\ shutdown = "closingAll"
    /\ toClose = {}
    /\ shutdown' = "closed"
    /\ toClose' = Served
    /\ UNCHANGED <<handlerVars, hubVars, accepts>>

\* ControlServer.Wait returns: no goroutine is left.
Wait ==
    /\ shutdown = "closed"
    /\ toClose = {}
    /\ ~ accepts
    /\ \A c \in Conn : stage[c] \in {"away", "gone"}
    /\ shutdown' = "done"
    /\ UNCHANGED <<handlerVars, hubVars, accepts, toClose>>

\* Nothing runs any more.
Stopped ==
    /\ shutdown = "done"
    /\ UNCHANGED vars

-----------------------------------------------------------------------------

Init ==
    /\ stage = [c \in Conn |-> "away"]
    /\ authed = {}
    /\ out = [c \in Conn |-> Silent(FALSE)]
    /\ clients = EmptyMap
    /\ rooms = [r \in Room |-> EmptyMap]
    /\ userRoom = EmptyMap
    /\ deleted = {}
    /\ buddies = InitialBuddies
    /\ accepts = TRUE
    /\ shutdown = "running"
    /\ toClose = {}

Reader(c) == Reject(c) \/ Authenticate(c) \/ BeginCommand(c) \/ Leave(c)

Handler(c) == Command(c) \/ Answer(c) \/ Forget(c)

Writer(c) == Write(c) \/ WriteFails(c)

Next ==
    \/ \E c \in Conn : Accept(c) \/ Reader(c) \/ Handler(c) \/ Writer(c)
    \/ AcceptFails
    \/ \E u \in User : AdminDisconnect(u) \/ AdminDeleteProfile(u)
    \/ CloseAll
    \/ CloseEach
    \/ CloseControl
    \/ Wait
    \/ Stopped

Spec == Init /\ [][Next]_vars

-----------------------------------------------------------------------------
(* Properties.                                                             *)

\* Every variable holds what its Go counterpart can hold; a queue holds at
\* most what its channel was made for.
TypeOK ==
    /\ stage \in [Conn -> Stage]
    /\ authed \subseteq Conn
    /\ DOMAIN out = Conn
    /\ \A c \in Conn : IsOutbound(out[c])
    /\ IsMap(clients, User, Conn)
    /\ DOMAIN rooms = Room
    /\ \A r \in Room : IsMap(rooms[r], User, Conn)
    /\ IsMap(userRoom, User, Room)
    /\ deleted \subseteq User
    /\ \A pair \in buddies :
          \E u, v \in User \ deleted : u # v /\ pair = {u, v}
    /\ accepts \in BOOLEAN
    /\ shutdown \in ShutdownStage
    /\ toClose \subseteq Conn

\* Whomever the hub holds, online or in a room, is a connection of that user
\* whose own goroutine has still to disconnect it, and a member of a room is
\* the live connection of its user.  An open connection that authenticated
\* is held.  So no slow, replaced, dismissed or closed connection leaves a
\* ghost behind, and none loses its session to an older one that ends late.
NoGhosts ==
    /\ \A u \in DOMAIN clients :
          /\ UserOf[clients[u]] = u
          /\ clients[u] \in authed
          /\ stage[clients[u]] \in InLoop
    /\ \A r \in Room : \A u \in DOMAIN rooms[r] :
          /\ u \in DOMAIN clients
          /\ rooms[r][u] = clients[u]
          /\ u \in DOMAIN userRoom
          /\ userRoom[u] = r
    /\ \A u \in DOMAIN userRoom : u \in DOMAIN rooms[userRoom[u]]
    /\ \A c \in authed : ~ out[c].done => Live(c)

\* From its check to its return a command acts for the live session of its
\* user: neither a newer connection nor the administrator comes in between.
CommandsKeepSession == \A c \in Conn : stage[c] = "command" => Live(c)

\* The last roster sent to a connection in a room is the roster of the room.
RosterCurrent ==
    \A u \in DOMAIN userRoom :
        LET c == clients[u]
            r == userRoom[u]
        IN  ~ out[c].done => out[c].roster = RoomUpdated(r, rooms[r])

\* Presence is told to buddies only, and while two users are buddies what a
\* connection of the one was last told of the other's is true, whichever of
\* his connections came and went and whatever friendships began or ended.  The
\* code does not keep current what was said in a friendship that ended: of
\* that nothing is claimed, see README.md.
PresenceCurrent ==
    \A c \in Conn : ~ out[c].done =>
        \A b \in DOMAIN out[c].online :
            /\ {b, UserOf[c]} \in buddies
            /\ out[c].online[b] = (b \in DOMAIN clients)

\* Once the loops of a shutdown are over every connection that is served is
\* closed, also one that was accepted or authenticated after they read the
\* maps: Wait waits for nobody who could stay.
ShutdownReachesAll ==
    Closing /\ toClose = {} => \A c \in Served : out[c].done
=============================================================================
