---------------------------- MODULE ControlProofs ----------------------------
(***************************************************************************)
(* Proofs that the hub holds the connections of its users and nothing      *)
(* else, and that what it told them is true, for any number of users,      *)
(* connections and rooms and any size of the queues.                       *)
(*                                                                         *)
(* The argument.  The operators of Control.tla make one hub of another,    *)
(* and the Tells and Keeps lemmas say what each of them does to HubInv:    *)
(* clients are kept under their own user, rooms and userRoom agree, the    *)
(* members of a room are the live connections of their users, and a queue  *)
(* that still takes messages leads to the roster of the room and to the    *)
(* presence of the buddies as they are now.  A message that no longer fits *)
(* closes the queue, so nobody is left with old news; a friendship that    *)
(* ends takes what was said in it out of the claim.  SessionInv adds       *)
(* what ties the hub to the handlers: who is held is served and was        *)
(* authenticated, who was authenticated and is open is held, and the       *)
(* shutdown closes whoever is still served.                                *)
(***************************************************************************)
EXTENDS Control, TLAPS

-----------------------------------------------------------------------------
(* Messages and queues.                                                    *)

Status == [kind: {"buddy.status"}, user: User, online: BOOLEAN]

Message == {Note} \union Roster \union Status

\* The kind of a message says which of the three it is.
LEMMA MessageKinds ==
    /\ Note \in Message /\ Note.kind = "note"
    /\ \A m \in Roster : m \in Message /\ m.kind = "room.updated"
    /\ \A m \in Status : m \in Message /\ m.kind = "buddy.status"
BY DEF Message, Note, Roster, Status

\* Storing a value of the right type keeps a map a map.
LEMMA PutMap ==
    ASSUME NEW S, NEW T, NEW f, IsMap(f, S, T), NEW k \in S, NEW v \in T
    PROVE  IsMap(Put(f, k, v), S, T)
BY DEF IsMap, Put

\* Deleting keys keeps a map a map.
LEMMA WithoutMap ==
    ASSUME NEW S, NEW T, NEW f, IsMap(f, S, T), NEW D
    PROVE  IsMap(Without(f, D), S, T)
BY DEF IsMap, Without

\* A queue of a connection that is gone has its type.
LEMMA ClosedType == IsOutbound(Closed) /\ Closed.done
BY QueueSizeAssumption DEF Closed, Silent, IsOutbound, EmptyMap

\* Reading one message more changes what the message is about.
LEMMA ToldType ==
    ASSUME NEW o, IsOutbound(o), NEW m \in Message
    PROVE  /\ IsOutbound(Told(o, m))
           /\ Told(o, m).queued = o.queued
           /\ Told(o, m).done = o.done
           /\ Told(o, m).roster =
                 IF m.kind = "room.updated" THEN m ELSE o.roster
           /\ Told(o, m).online =
                 IF m.kind = "buddy.status" THEN Put(o.online, m.user, m.online)
                 ELSE o.online
<1>1. CASE m = Note
  BY <1>1 DEF Told, Note
<1>2. CASE m \in Roster
  BY <1>2 DEF Told, Roster, IsOutbound
<1>3. CASE m \in Status
  <2>1. IsMap(o.online, User, BOOLEAN)
    BY DEF IsOutbound, IsMap
  <2>2. m.kind = "buddy.status" /\ m.user \in User /\ m.online \in BOOLEAN
    BY <1>3 DEF Status
  <2>3. IsMap(Put(o.online, m.user, m.online), User, BOOLEAN)
    BY <2>1, <2>2, PutMap
  <2> DEFINE told == Put(o.online, m.user, m.online)
  <2>4. Told(o, m) = [o EXCEPT !.online = told]
    BY <2>2 DEF Told
  <2> HIDE DEF told
  <2>5. Told(o, m).online = told
    BY <2>4 DEF IsOutbound
  <2>6. IsOutbound(Told(o, m))
    BY <2>3, <2>4, <2>5 DEF IsOutbound, IsMap, told
  <2> QED BY <2>2, <2>4, <2>5, <2>6 DEF IsOutbound, told
<1> QED BY <1>1, <1>2, <1>3 DEF Message

\* A queue that is still open after a message has taken it.
LEMMA EnqueuedType ==
    ASSUME NEW o, IsOutbound(o), NEW m \in Message
    PROVE  /\ IsOutbound(Enqueued(o, m))
           /\ o.done => Enqueued(o, m).done
           /\ ~ Enqueued(o, m).done =>
                 /\ ~ o.done
                 /\ Enqueued(o, m).roster =
                       IF m.kind = "room.updated" THEN m ELSE o.roster
                 /\ Enqueued(o, m).online =
                       IF m.kind = "buddy.status"
                       THEN Put(o.online, m.user, m.online) ELSE o.online
<1>1. CASE o.done
  BY <1>1 DEF Enqueued
<1>2. CASE ~ o.done /\ o.queued < QueueSize
  <2> DEFINE told == Told(o, m)
  <2>1. Enqueued(o, m) = [told EXCEPT !.queued = told.queued + 1]
    BY <1>2 DEF Enqueued
  <2>2. IsOutbound(told) /\ told.queued = o.queued
    BY ToldType
  <2>3. told.queued + 1 \in 0 .. QueueSize
    BY <1>2, <2>2, QueueSizeAssumption DEF IsOutbound
  <2> HIDE DEF told
  <2>4. /\ IsOutbound(Enqueued(o, m))
        /\ Enqueued(o, m).done = told.done
        /\ Enqueued(o, m).roster = told.roster
        /\ Enqueued(o, m).online = told.online
    BY <2>1, <2>2, <2>3 DEF IsOutbound
  <2> QED BY <1>2, <2>4, ToldType DEF told
<1>3. CASE ~ o.done /\ ~ (o.queued < QueueSize)
  <2>1. Enqueued(o, m) = Closed
    BY <1>3 DEF Enqueued
  <2> QED BY <1>3, <2>1, ClosedType
<1> QED BY <1>1, <1>2, <1>3

-----------------------------------------------------------------------------
(* What h.mu guards, as the value the operators of Control take and give.  *)

\* The queues of all connections are well typed.
IsOut(outs) == /\ outs = [c \in Conn |-> outs[c]]
               /\ \A c \in Conn : IsOutbound(outs[c])

IsRooms(f) == /\ f = [r \in Room |-> f[r]]
              /\ \A r \in Room : IsMap(f[r], User, Conn)

HubField == {"clients", "rooms", "userRoom", "deleted", "buddies", "out"}

\* The friendship of two users, whichever of them is named first.
Pair(u, v) == {u, v}

\* Friends are two users who both have a profile.
IsBuddies(pairs, absent) ==
    \A pair \in pairs : \E u, v \in User \ absent : u # v /\ pair = {u, v}

IsHub(h) ==
    /\ h = [f \in HubField |-> h[f]]
    /\ IsMap(h.clients, User, Conn)
    /\ IsRooms(h.rooms)
    /\ IsMap(h.userRoom, User, Room)
    /\ h.deleted \subseteq User
    /\ IsBuddies(h.buddies, h.deleted)
    /\ IsOut(h.out)

\* rooms and userRoom are two views of one relation.
RoomsAgree(h) ==
    /\ \A r \in Room : \A u \in DOMAIN h.rooms[r] :
          /\ UserOf[h.rooms[r][u]] = u
          /\ u \in DOMAIN h.userRoom
          /\ h.userRoom[u] = r
    /\ \A u \in DOMAIN h.userRoom : u \in DOMAIN h.rooms[h.userRoom[u]]

\* A room holds the live connections of its members.
MembersLive(h) ==
    \A r \in Room : \A u \in DOMAIN h.rooms[r] :
        u \in DOMAIN h.clients /\ h.rooms[r][u] = h.clients[u]

\* The members of room r know its roster.
RosterTold(h, r) ==
    \A u \in DOMAIN h.rooms[r] :
        ~ h.out[h.rooms[r][u]].done =>
            h.out[h.rooms[r][u]].roster = RoomUpdated(r, h.rooms[r])

\* c is the live connection of its user.
IsLive(h, c) == UserOf[c] \in DOMAIN h.clients /\ h.clients[UserOf[c]] = c

\* What c was told of the presence of others it was told as a live
\* connection of one of their buddies, and it is true.
PresenceTold(h, c) ==
    ~ h.out[c].done =>
        \A b \in DOMAIN h.out[c].online :
            /\ IsLive(h, c)
            /\ Pair(b, UserOf[c]) \in h.buddies
            /\ h.out[c].online[b] = (b \in DOMAIN h.clients)

\* Connections are kept under their users.
ClientsKeyed(h) == \A u \in DOMAIN h.clients : UserOf[h.clients[u]] = u

HubInv(h) ==
    /\ IsHub(h)
    /\ ClientsKeyed(h)
    /\ RoomsAgree(h)
    /\ MembersLive(h)
    /\ \A r \in Room : RosterTold(h, r)
    /\ \A c \in Conn : PresenceTold(h, c)

\* From h to k no connection was opened again, and
Closes(h, k) == \A c \in Conn : h.out[c].done => k.out[c].done

\* nobody heard of anybody's presence.
Unheard(h, k) ==
    /\ k.clients = h.clients
    /\ k.deleted = h.deleted
    /\ k.buddies = h.buddies
    /\ \A c \in Conn : ~ k.out[c].done =>
          ~ h.out[c].done /\ k.out[c].online = h.out[c].online

\* Enqueueing for some connections keeps every queue a queue, and closes none
\* that is not full.
LEMMA SentType ==
    ASSUME NEW outs, IsOut(outs), NEW receivers, NEW m \in Message
    PROVE  /\ IsOut(Sent(outs, receivers, m))
           /\ \A c \in Conn :
                 /\ outs[c].done => Sent(outs, receivers, m)[c].done
                 /\ c \notin receivers => Sent(outs, receivers, m)[c] = outs[c]
                 /\ c \in receivers => Sent(outs, receivers, m)[c] = Enqueued(outs[c], m)
<1>1. \A c \in Conn : IsOutbound(outs[c])
  BY DEF IsOut
<1> QED BY <1>1, EnqueuedType DEF Sent, IsOut

\* Queues that say what they said, or are closed, change nothing else.
LEMMA QueuesTell ==
    ASSUME NEW h, HubInv(h), NEW outs, IsOut(outs),
           \A c \in Conn : ~ outs[c].done =>
              /\ ~ h.out[c].done
              /\ outs[c].roster = h.out[c].roster
              /\ outs[c].online = h.out[c].online
    PROVE  LET k == [h EXCEPT !.out = outs]
           IN  /\ HubInv(k)
               /\ k.clients = h.clients
               /\ k.deleted = h.deleted
               /\ k.buddies = h.buddies
               /\ k.out = outs
               /\ Closes(h, k)
<1> DEFINE k == [h EXCEPT !.out = outs]
<1>1. /\ IsHub(k)
      /\ k.clients = h.clients /\ k.rooms = h.rooms /\ k.out = outs
      /\ k.userRoom = h.userRoom /\ k.deleted = h.deleted
      /\ k.buddies = h.buddies
  BY DEF HubInv, IsHub, HubField
<1> HIDE DEF k
<1>2. \A r \in Room : \A u \in DOMAIN h.rooms[r] : h.rooms[r][u] \in Conn
  BY DEF HubInv, IsHub, IsRooms, IsMap
<1>3. \A r \in Room : RosterTold(k, r)
  BY <1>1, <1>2 DEF RosterTold, HubInv
<1>4. \A c \in Conn : PresenceTold(k, c)
  BY <1>1 DEF PresenceTold, HubInv, IsLive
<1>5. HubInv(k)
  BY <1>1, <1>3, <1>4 DEF HubInv, ClientsKeyed, RoomsAgree, MembersLive
<1> QED BY <1>1, <1>5 DEF k, Closes

\* A message of no consequence leaves everything that is known as it was.
LEMMA NoteSent ==
    ASSUME NEW outs, IsOut(outs), NEW receivers
    PROVE  LET sent == Sent(outs, receivers, Note)
           IN  /\ IsOut(sent)
               /\ \A c \in Conn : ~ sent[c].done =>
                     /\ ~ outs[c].done
                     /\ sent[c].roster = outs[c].roster
                     /\ sent[c].online = outs[c].online
<1>1. Note \in Message /\ Note.kind = "note"
  BY MessageKinds
<1>2. \A c \in Conn : IsOutbound(outs[c])
  BY DEF IsOut
<1> QED BY <1>1, <1>2, SentType, EnqueuedType

\* broadcastRoomSnapshotLocked tells the members of r and nobody else.
LEMMA RoomBroadcastTells ==
    ASSUME NEW h, IsHub(h), RoomsAgree(h), NEW r \in Room,
           \A q \in Room \ {r} : RosterTold(h, q)
    PROVE  LET k == RoomBroadcast(h, r)
           IN  /\ IsHub(k)
               /\ Unheard(h, k)
               /\ k.rooms = h.rooms
               /\ k.userRoom = h.userRoom
               /\ \A q \in Room : RosterTold(k, q)
<1> DEFINE m == RoomUpdated(r, h.rooms[r])
           receivers == Range(h.rooms[r])
           outs == Sent(h.out, receivers, m)
           k == RoomBroadcast(h, r)
<1>1. m \in Roster /\ m \in Message /\ m.kind = "room.updated"
  <2>1. DOMAIN h.rooms[r] \subseteq User
    BY DEF IsHub, IsRooms, IsMap
  <2>2. m \in Roster
    BY <2>1 DEF RoomUpdated, Roster
  <2> QED BY <2>2, MessageKinds
<1> HIDE DEF m
<1>2. /\ IsOut(outs)
      /\ \A c \in Conn : ~ outs[c].done =>
            /\ ~ h.out[c].done
            /\ outs[c].online = h.out[c].online
            /\ c \in receivers => outs[c].roster = m
            /\ c \notin receivers => outs[c].roster = h.out[c].roster
  <2>1. IsOut(h.out) /\ \A c \in Conn : IsOutbound(h.out[c])
    BY DEF IsHub, IsOut
  <2> QED BY <1>1, <2>1, SentType, EnqueuedType
<1> HIDE DEF outs
<1>3. /\ IsHub(k)
      /\ k.clients = h.clients /\ k.rooms = h.rooms /\ k.out = outs
      /\ k.userRoom = h.userRoom /\ k.deleted = h.deleted
      /\ k.buddies = h.buddies
  <2>1. k = [h EXCEPT !.out = outs]
    BY DEF RoomBroadcast, outs, m
  <2> HIDE DEF k
  <2> QED BY <1>2, <2>1 DEF IsHub, HubField
<1> HIDE DEF k
<1>4. \A q \in Room : \A u \in DOMAIN h.rooms[q] : h.rooms[q][u] \in Conn
  BY DEF IsHub, IsRooms, IsMap
<1>5. Unheard(h, k)
  BY <1>2, <1>3 DEF Unheard
<1>6. RosterTold(k, r)
  BY <1>2, <1>3, <1>4 DEF RosterTold, Range, m
<1>7. ASSUME NEW q \in Room \ {r} PROVE RosterTold(k, q)
  <2>1. \A u \in DOMAIN h.rooms[q] : h.rooms[q][u] \notin receivers
    BY DEF RoomsAgree, Range
  <2> QED BY <1>2, <1>3, <1>4, <2>1 DEF RosterTold
<1> QED BY <1>3, <1>5, <1>6, <1>7 DEF k

\* leaveRoomLocked.
LEMMA RoomLeftTells ==
    ASSUME NEW h, IsHub(h), RoomsAgree(h), NEW u,
           \A q \in Room : RosterTold(h, q)
    PROVE  LET k == RoomLeft(h, u)
           IN  /\ IsHub(k)
               /\ Unheard(h, k)
               /\ RoomsAgree(k)
               /\ u \notin DOMAIN k.userRoom
               /\ \A q \in Room : RosterTold(k, q)
               /\ \A q \in Room : \A v \in DOMAIN k.rooms[q] :
                     /\ v # u
                     /\ v \in DOMAIN h.rooms[q]
                     /\ k.rooms[q][v] = h.rooms[q][v]
<1> DEFINE k == RoomLeft(h, u)
<1>1. CASE u \notin DOMAIN h.userRoom
  BY <1>1 DEF RoomLeft, RoomsAgree, Unheard
<1>2. CASE u \in DOMAIN h.userRoom
  <2> DEFINE r == h.userRoom[u]
             members == Without(h.rooms[r], {u})
             userRoom2 == Without(h.userRoom, {u})
             rooms2 == [h.rooms EXCEPT ![r] = members]
             left == [h EXCEPT !.userRoom = userRoom2, !.rooms = rooms2]
  <2>1. r \in Room /\ u \in DOMAIN h.rooms[r]
    BY <1>2 DEF IsHub, IsMap, RoomsAgree
  <2>2. IsMap(members, User, Conn) /\ IsMap(userRoom2, User, Room)
    BY <2>1, WithoutMap DEF IsHub, IsRooms
  <2>3. /\ DOMAIN members = DOMAIN h.rooms[r] \ {u}
        /\ \A v \in DOMAIN members : members[v] = h.rooms[r][v]
        /\ DOMAIN userRoom2 = DOMAIN h.userRoom \ {u}
        /\ \A v \in DOMAIN userRoom2 : userRoom2[v] = h.userRoom[v]
    BY DEF Without
  <2>4. k = RoomBroadcast(left, r)
    BY <1>2 DEF RoomLeft, IsHub
  <2> HIDE DEF members, userRoom2
  <2>5. /\ IsRooms(rooms2)
        /\ rooms2[r] = members
        /\ \A q \in Room \ {r} : rooms2[q] = h.rooms[q]
    BY <2>1, <2>2 DEF IsHub, IsRooms
  <2> HIDE DEF rooms2
  <2>6. /\ left.clients = h.clients /\ left.rooms = rooms2 /\ left.out = h.out
        /\ left.userRoom = userRoom2 /\ left.deleted = h.deleted
        /\ left.buddies = h.buddies
        /\ IsHub(left)
    <3>1. /\ left = [f \in HubField |-> left[f]]
          /\ left.clients = h.clients /\ left.rooms = rooms2
          /\ left.out = h.out
          /\ left.userRoom = userRoom2 /\ left.deleted = h.deleted
          /\ left.buddies = h.buddies
      BY DEF IsHub, HubField
    <3> HIDE DEF left
    <3> QED BY <2>2, <2>5, <3>1 DEF IsHub
  <2> HIDE DEF left, k
  <2>7. RoomsAgree(left)
    <3>1. /\ \A q \in Room : DOMAIN rooms2[q] =
                IF q = r THEN DOMAIN h.rooms[q] \ {u} ELSE DOMAIN h.rooms[q]
          /\ \A q \in Room : \A v \in DOMAIN rooms2[q] :
                rooms2[q][v] = h.rooms[q][v]
      BY <2>3, <2>5
    <3>2. \A v \in DOMAIN h.userRoom : h.userRoom[v] \in Room
      BY DEF IsHub, IsMap
    <3>3. ASSUME NEW q \in Room, NEW v \in DOMAIN rooms2[q]
          PROVE  /\ UserOf[rooms2[q][v]] = v
                 /\ v \in DOMAIN userRoom2
                 /\ userRoom2[v] = q
      <4>1. v \in DOMAIN h.rooms[q] /\ rooms2[q][v] = h.rooms[q][v]
        BY <3>1, <3>3
      <4>2. /\ UserOf[h.rooms[q][v]] = v
            /\ v \in DOMAIN h.userRoom
            /\ h.userRoom[v] = q
        BY <3>3, <4>1 DEF RoomsAgree
      <4>3. v # u
        BY <3>1, <3>3, <4>2
      <4> QED BY <2>3, <4>1, <4>2, <4>3
    <3>4. ASSUME NEW v \in DOMAIN userRoom2
          PROVE  v \in DOMAIN rooms2[userRoom2[v]]
      <4>1. v # u /\ v \in DOMAIN h.userRoom /\ userRoom2[v] = h.userRoom[v]
        BY <2>3, <3>4
      <4>2. v \in DOMAIN h.rooms[h.userRoom[v]] /\ h.userRoom[v] \in Room
        BY <3>2, <4>1 DEF RoomsAgree
      <4> QED BY <3>1, <4>1, <4>2
    <3> QED BY <2>6, <3>3, <3>4 DEF RoomsAgree
  <2>8. \A q \in Room \ {r} : RosterTold(left, q)
    BY <2>5, <2>6 DEF RosterTold
  <2>9. /\ IsHub(k)
        /\ Unheard(left, k)
        /\ k.rooms = rooms2
        /\ k.userRoom = userRoom2
        /\ \A q \in Room : RosterTold(k, q)
    BY <2>1, <2>4, <2>6, <2>7, <2>8, RoomBroadcastTells
  <2>10. RoomsAgree(k)
    BY <2>6, <2>7, <2>9 DEF RoomsAgree
  <2>11. Unheard(h, k)
    BY <2>6, <2>9 DEF Unheard
  <2>12. \A q \in Room : \A v \in DOMAIN k.rooms[q] :
            /\ v # u
            /\ v \in DOMAIN h.rooms[q]
            /\ k.rooms[q][v] = h.rooms[q][v]
    BY <2>1, <2>3, <2>5, <2>9 DEF RoomsAgree
  <2> QED BY <2>3, <2>9, <2>10, <2>11, <2>12 DEF k
<1> QED BY <1>1, <1>2

\* joinRoomLocked, for a user who is in no room.
LEMMA RoomJoinedTells ==
    ASSUME NEW h, IsHub(h), RoomsAgree(h), NEW c \in Conn, NEW r \in Room,
           UserOf[c] \notin DOMAIN h.userRoom,
           \A q \in Room : RosterTold(h, q)
    PROVE  LET k == RoomJoined(h, c, r)
           IN  /\ IsHub(k)
               /\ Unheard(h, k)
               /\ RoomsAgree(k)
               /\ \A q \in Room : RosterTold(k, q)
               /\ \A q \in Room : \A v \in DOMAIN k.rooms[q] :
                     \/ v = UserOf[c] /\ k.rooms[q][v] = c
                     \/ v \in DOMAIN h.rooms[q] /\ k.rooms[q][v] = h.rooms[q][v]
<1> DEFINE k == RoomJoined(h, c, r)
           u == UserOf[c]
           members == Put(h.rooms[r], u, c)
           userRoom2 == Put(h.userRoom, u, r)
           rooms2 == [h.rooms EXCEPT ![r] = members]
           joined == [h EXCEPT !.rooms = rooms2, !.userRoom = userRoom2]
<1>1. u \in User
  BY UserOfAssumption
<1>2. IsMap(members, User, Conn) /\ IsMap(userRoom2, User, Room)
  BY <1>1, PutMap DEF IsHub, IsRooms
<1>3. /\ DOMAIN members = DOMAIN h.rooms[r] \union {u}
      /\ \A v \in DOMAIN members :
            members[v] = IF v = u THEN c ELSE h.rooms[r][v]
      /\ DOMAIN userRoom2 = DOMAIN h.userRoom \union {u}
      /\ \A v \in DOMAIN userRoom2 :
            userRoom2[v] = IF v = u THEN r ELSE h.userRoom[v]
  BY DEF Put
<1>4. k = RoomBroadcast(joined, r)
  BY DEF RoomJoined, IsHub
<1> HIDE DEF members, userRoom2
<1>5. /\ IsRooms(rooms2)
      /\ rooms2[r] = members
      /\ \A q \in Room \ {r} : rooms2[q] = h.rooms[q]
  BY <1>2 DEF IsHub, IsRooms
<1> HIDE DEF rooms2
<1>6. /\ joined.clients = h.clients /\ joined.rooms = rooms2
      /\ joined.out = h.out
      /\ joined.userRoom = userRoom2 /\ joined.deleted = h.deleted
      /\ joined.buddies = h.buddies
      /\ IsHub(joined)
  <2>1. /\ joined = [f \in HubField |-> joined[f]]
        /\ joined.clients = h.clients /\ joined.rooms = rooms2
        /\ joined.out = h.out
        /\ joined.userRoom = userRoom2 /\ joined.deleted = h.deleted
      /\ joined.buddies = h.buddies
    BY DEF IsHub, HubField
  <2> HIDE DEF joined
  <2> QED BY <1>2, <1>5, <2>1 DEF IsHub
<1> HIDE DEF joined, k
<1>7. RoomsAgree(joined)
  <2>1. /\ \A q \in Room : DOMAIN rooms2[q] =
              IF q = r THEN DOMAIN h.rooms[q] \union {u} ELSE DOMAIN h.rooms[q]
        /\ \A q \in Room : \A v \in DOMAIN rooms2[q] :
              rooms2[q][v] = IF q = r /\ v = u THEN c ELSE h.rooms[q][v]
    BY <1>3, <1>5
  <2>2. \A v \in DOMAIN h.userRoom : h.userRoom[v] \in Room
    BY DEF IsHub, IsMap
  <2>3. ASSUME NEW q \in Room, NEW v \in DOMAIN rooms2[q]
        PROVE  /\ UserOf[rooms2[q][v]] = v
               /\ v \in DOMAIN userRoom2
               /\ userRoom2[v] = q
    <3>1. CASE q = r /\ v = u
      BY <1>3, <2>1, <2>3, <3>1
    <3>2. CASE ~ (q = r /\ v = u)
      <4>1. v \in DOMAIN h.rooms[q] /\ rooms2[q][v] = h.rooms[q][v]
        BY <2>1, <2>3, <3>2
      <4>2. /\ UserOf[h.rooms[q][v]] = v
            /\ v \in DOMAIN h.userRoom
            /\ h.userRoom[v] = q
        BY <2>3, <4>1 DEF RoomsAgree
      <4> QED BY <1>3, <4>1, <4>2
    <3> QED BY <3>1, <3>2
  <2>4. ASSUME NEW v \in DOMAIN userRoom2
        PROVE  v \in DOMAIN rooms2[userRoom2[v]]
    <3>1. CASE v = u
      BY <1>3, <2>1, <3>1
    <3>2. CASE v # u
      <4>1. v \in DOMAIN h.userRoom /\ userRoom2[v] = h.userRoom[v]
        BY <1>3, <2>4, <3>2
      <4>2. v \in DOMAIN h.rooms[h.userRoom[v]] /\ h.userRoom[v] \in Room
        BY <2>2, <4>1 DEF RoomsAgree
      <4> QED BY <2>1, <4>1, <4>2
    <3> QED BY <3>1, <3>2
  <2> QED BY <1>6, <2>3, <2>4 DEF RoomsAgree
<1>8. \A q \in Room \ {r} : RosterTold(joined, q)
  BY <1>5, <1>6 DEF RosterTold
<1>9. /\ IsHub(k)
      /\ Unheard(joined, k)
      /\ k.rooms = rooms2
      /\ k.userRoom = userRoom2
      /\ \A q \in Room : RosterTold(k, q)
  BY <1>4, <1>6, <1>7, <1>8, RoomBroadcastTells
<1>10. RoomsAgree(k)
  BY <1>6, <1>7, <1>9 DEF RoomsAgree
<1>11. Unheard(h, k)
  BY <1>6, <1>9 DEF Unheard
<1>12. \A q \in Room : \A v \in DOMAIN k.rooms[q] :
          \/ v = u /\ k.rooms[q][v] = c
          \/ v \in DOMAIN h.rooms[q] /\ k.rooms[q][v] = h.rooms[q][v]
  BY <1>3, <1>5, <1>9
<1> QED BY <1>9, <1>10, <1>11, <1>12 DEF k

\* What c knows is true but perhaps for u.
PresenceBut(h, u, c) ==
    ~ h.out[c].done =>
        \A b \in DOMAIN h.out[c].online :
            /\ IsLive(h, c)
            /\ Pair(b, UserOf[c]) \in h.buddies
            /\ \/ b = u
               \/ h.out[c].online[b] = (b \in DOMAIN h.clients)

\* notifyBuddyStatusLocked tells everyone who knew something else.
LEMMA BuddiesNotifiedTells ==
    ASSUME NEW h, IsHub(h), ClientsKeyed(h),
           NEW u \in User, NEW online \in BOOLEAN,
           online = (u \in DOMAIN h.clients)
    PROVE  LET k == BuddiesNotified(h, u, online)
           IN  /\ IsHub(k)
               /\ k.clients = h.clients
               /\ k.rooms = h.rooms
               /\ k.userRoom = h.userRoom
               /\ k.deleted = h.deleted
               /\ k.buddies = h.buddies
               /\ Closes(h, k)
               /\ \A q \in Room : RosterTold(h, q) => RosterTold(k, q)
               /\ \A c \in Conn : PresenceBut(h, u, c) => PresenceTold(k, c)
<1> DEFINE m == BuddyStatus(u, online)
           receivers == {h.clients[b] : b \in BuddyIDs(h, u)
                                           \intersect DOMAIN h.clients}
           outs == Sent(h.out, receivers, m)
           k == BuddiesNotified(h, u, online)
<1>1. /\ m \in Message /\ m.kind = "buddy.status"
      /\ m.user = u /\ m.online = online
  <2>1. m \in Status /\ m.user = u /\ m.online = online
    BY DEF BuddyStatus, Status
  <2> QED BY <2>1, MessageKinds
<1> HIDE DEF m
<1>2. /\ IsOut(outs)
      /\ \A c \in Conn : h.out[c].done => outs[c].done
      /\ \A c \in Conn : ~ outs[c].done =>
            /\ ~ h.out[c].done
            /\ outs[c].roster = h.out[c].roster
            /\ c \in receivers => outs[c].online = Put(h.out[c].online, u, online)
            /\ c \notin receivers => outs[c].online = h.out[c].online
  <2>1. IsOut(h.out) /\ \A c \in Conn : IsOutbound(h.out[c])
    BY DEF IsHub, IsOut
  <2>2. m.kind # "room.updated"
    BY <1>1
  <2> HIDE DEF receivers
  <2> QED BY <1>1, <2>1, <2>2, SentType, EnqueuedType
<1> HIDE DEF outs
<1>3. /\ IsHub(k)
      /\ k.clients = h.clients /\ k.rooms = h.rooms /\ k.out = outs
      /\ k.userRoom = h.userRoom /\ k.deleted = h.deleted
      /\ k.buddies = h.buddies
  <2>1. k = [h EXCEPT !.out = outs]
    BY DEF BuddiesNotified, outs, m
  <2> HIDE DEF k, receivers
  <2> QED BY <1>2, <2>1 DEF IsHub, HubField
<1> HIDE DEF k
<1>4. \A c \in receivers : c \in Conn /\ IsLive(h, c) /\ Pair(u, UserOf[c]) \in h.buddies
  <2>1. \A b \in BuddyIDs(h, u) : Pair(u, b) \in h.buddies
    BY DEF BuddyIDs, Pair
  <2> QED BY <2>1 DEF ClientsKeyed, IsLive, IsHub, IsMap
<1>5. \A c \in Conn : IsLive(h, c) /\ Pair(u, UserOf[c]) \in h.buddies => c \in receivers
  BY UserOfAssumption DEF BuddyIDs, IsLive, Pair
<1> HIDE DEF receivers
<1>6. ASSUME NEW q \in Room, RosterTold(h, q) PROVE RosterTold(k, q)
  <2>1. \A v \in DOMAIN h.rooms[q] : h.rooms[q][v] \in Conn
    BY DEF IsHub, IsRooms, IsMap
  <2> QED BY <1>2, <1>3, <1>6, <2>1 DEF RosterTold
<1>7. ASSUME NEW c \in Conn, PresenceBut(h, u, c) PROVE PresenceTold(k, c)
  <2> SUFFICES ASSUME ~ outs[c].done, NEW b \in DOMAIN outs[c].online
               PROVE  /\ IsLive(h, c)
                      /\ Pair(b, UserOf[c]) \in h.buddies
                      /\ outs[c].online[b] = (b \in DOMAIN h.clients)
    BY <1>3 DEF PresenceTold, IsLive
  <2>1. CASE c \in receivers
    <3>1. outs[c].online = Put(h.out[c].online, u, online)
      BY <1>2, <2>1
    <3>2. b \in DOMAIN h.out[c].online \/ b = u
      BY <3>1 DEF Put
    <3>3. outs[c].online[b] = IF b = u THEN online ELSE h.out[c].online[b]
      BY <3>1 DEF Put
    <3>4. ~ h.out[c].done
      BY <1>2
    <3>5. CASE b = u
      BY <1>4, <2>1, <3>3, <3>5
    <3>6. CASE b # u
      BY <1>7, <3>2, <3>3, <3>4, <3>6 DEF PresenceBut
    <3> QED BY <3>5, <3>6
  <2>2. CASE c \notin receivers
    <3>1. outs[c].online = h.out[c].online /\ ~ h.out[c].done
      BY <1>2, <2>2
    <3> QED BY <1>5, <1>7, <2>2, <3>1 DEF PresenceBut
  <2> QED BY <2>1, <2>2
<1> QED BY <1>2, <1>3, <1>6, <1>7 DEF k, Closes

\* All of HubInv but what c knows of presence.
HubInvBut(h, c) ==
    /\ IsHub(h)
    /\ ClientsKeyed(h)
    /\ RoomsAgree(h)
    /\ MembersLive(h)
    /\ \A r \in Room : RosterTold(h, r)
    /\ \A x \in Conn \ {c} : PresenceTold(h, x)

\* A connection that is closed knows nothing wrong.
LEMMA DismissedTells ==
    ASSUME NEW h, NEW c \in Conn, HubInvBut(h, c)
    PROVE  LET k == Dismissed(h, c)
           IN  /\ HubInv(k)
               /\ k.clients = h.clients
               /\ k.deleted = h.deleted
               /\ k.buddies = h.buddies
               /\ Closes(h, k)
               /\ k.out[c].done
<1> DEFINE outs == [h.out EXCEPT ![c] = Closed]
           k == Dismissed(h, c)
<1>1. /\ IsOut(outs)
      /\ outs[c].done
      /\ \A x \in Conn \ {c} : outs[x] = h.out[x]
  BY ClosedType DEF HubInvBut, IsHub, IsOut
<1> HIDE DEF outs
<1>2. /\ IsHub(k)
      /\ k.clients = h.clients /\ k.rooms = h.rooms /\ k.out = outs
      /\ k.userRoom = h.userRoom /\ k.deleted = h.deleted
      /\ k.buddies = h.buddies
  <2>1. k = [h EXCEPT !.out = outs]
    BY DEF Dismissed, outs, HubInvBut, IsHub, HubField
  <2> HIDE DEF k
  <2> QED BY <1>1, <2>1 DEF HubInvBut, IsHub, HubField
<1> HIDE DEF k
<1>3. \A q \in Room : \A u \in DOMAIN h.rooms[q] : h.rooms[q][u] \in Conn
  BY DEF HubInvBut, IsHub, IsRooms, IsMap
<1>4. \A q \in Room : RosterTold(k, q)
  BY <1>1, <1>2, <1>3 DEF HubInvBut, RosterTold
<1>5. \A x \in Conn : PresenceTold(k, x)
  BY <1>1, <1>2 DEF HubInvBut, PresenceTold, IsLive
<1>6. HubInv(k)
  BY <1>2, <1>4, <1>5
  DEF HubInvBut, HubInv, ClientsKeyed, RoomsAgree, MembersLive
<1> QED BY <1>1, <1>2, <1>6 DEF k, Closes

\* disconnectLocked: nobody is told of c again, and what the others were told
\* stays true.  The profile of the user may be gone already.
LEMMA DisconnectedTells ==
    ASSUME NEW h, NEW c \in Conn, IsHub(h), ClientsKeyed(h), IsLive(h, c),
           RoomsAgree(h), MembersLive(h),
           \A r \in Room : RosterTold(h, r),
           \A x \in Conn : PresenceTold(h, x)
    PROVE  LET k == Disconnected(h, c)
           IN  /\ HubInvBut(k, c)
               /\ k.clients = Without(h.clients, {UserOf[c]})
               /\ k.deleted = h.deleted
               /\ k.buddies = h.buddies
               /\ Closes(h, k)
<1> DEFINE u == UserOf[c]
           clients2 == Without(h.clients, {u})
           offline == [h EXCEPT !.clients = clients2]
           left == RoomLeft(offline, u)
           k == BuddiesNotified(left, u, FALSE)
<1>1. Disconnected(h, c) = k /\ u \in User
  BY UserOfAssumption DEF Disconnected, IsHub
<1>2. /\ IsMap(clients2, User, Conn)
      /\ DOMAIN clients2 = DOMAIN h.clients \ {u}
      /\ \A v \in DOMAIN clients2 : clients2[v] = h.clients[v]
  BY WithoutMap DEF IsHub, Without
<1> HIDE DEF clients2
<1>3. /\ IsHub(offline)
      /\ offline.clients = clients2
      /\ offline.rooms = h.rooms /\ offline.userRoom = h.userRoom
      /\ offline.deleted = h.deleted /\ offline.out = h.out
      /\ offline.buddies = h.buddies
  BY <1>2 DEF IsHub, HubField
<1> HIDE DEF offline
<1>4. RoomsAgree(offline) /\ \A q \in Room : RosterTold(offline, q)
  BY <1>3 DEF RoomsAgree, RosterTold
<1>5. /\ IsHub(left)
      /\ Unheard(offline, left)
      /\ RoomsAgree(left)
      /\ u \notin DOMAIN left.userRoom
      /\ \A q \in Room : RosterTold(left, q)
      /\ \A q \in Room : \A v \in DOMAIN left.rooms[q] :
            /\ v # u
            /\ v \in DOMAIN offline.rooms[q]
            /\ left.rooms[q][v] = offline.rooms[q][v]
  BY <1>3, <1>4, RoomLeftTells
<1> HIDE DEF left
<1>6. /\ left.clients = clients2 /\ left.deleted = h.deleted
      /\ left.buddies = h.buddies
  BY <1>3, <1>5 DEF Unheard
<1>7. ClientsKeyed(left)
  BY <1>2, <1>6 DEF ClientsKeyed
<1>8. MembersLive(left)
  <2> SUFFICES ASSUME NEW q \in Room, NEW v \in DOMAIN left.rooms[q]
               PROVE  v \in DOMAIN clients2 /\ left.rooms[q][v] = clients2[v]
    BY <1>6 DEF MembersLive
  <2>1. v # u /\ v \in DOMAIN h.rooms[q] /\ left.rooms[q][v] = h.rooms[q][v]
    BY <1>3, <1>5
  <2>2. v \in DOMAIN h.clients /\ h.rooms[q][v] = h.clients[v]
    BY <2>1 DEF MembersLive
  <2> QED BY <1>2, <2>1, <2>2
<1>9. ASSUME NEW x \in Conn \ {c} PROVE PresenceBut(left, u, x)
  <2> SUFFICES ASSUME ~ left.out[x].done, NEW b \in DOMAIN left.out[x].online
               PROVE  /\ IsLive(left, x)
                      /\ Pair(b, UserOf[x]) \in left.buddies
                      /\ \/ b = u
                         \/ left.out[x].online[b] = (b \in DOMAIN left.clients)
    BY DEF PresenceBut
  <2>1. ~ h.out[x].done /\ left.out[x].online = h.out[x].online
    BY <1>3, <1>5 DEF Unheard
  <2>2. /\ IsLive(h, x)
        /\ Pair(b, UserOf[x]) \in h.buddies
        /\ h.out[x].online[b] = (b \in DOMAIN h.clients)
    BY <2>1 DEF PresenceTold
  <2>3. UserOf[x] # u
    BY <2>2 DEF IsLive
  <2>4. IsLive(left, x)
    BY <1>2, <1>6, <2>2, <2>3 DEF IsLive
  <2>5. b # u => (b \in DOMAIN left.clients) = (b \in DOMAIN h.clients)
    BY <1>2, <1>6
  <2> QED BY <1>6, <2>1, <2>2, <2>4, <2>5
<1>10. /\ IsHub(k)
       /\ k.clients = left.clients
       /\ k.rooms = left.rooms
       /\ k.userRoom = left.userRoom
       /\ k.deleted = left.deleted
       /\ k.buddies = left.buddies
       /\ Closes(left, k)
       /\ \A q \in Room : RosterTold(left, q) => RosterTold(k, q)
       /\ \A x \in Conn : PresenceBut(left, u, x) => PresenceTold(k, x)
  <2>1. FALSE = (u \in DOMAIN left.clients)
    BY <1>2, <1>6
  <2> QED BY <1>1, <1>5, <1>7, <2>1, BuddiesNotifiedTells
<1> HIDE DEF k
<1>11. HubInvBut(k, c)
  BY <1>5, <1>7, <1>8, <1>9, <1>10
  DEF HubInvBut, ClientsKeyed, RoomsAgree, MembersLive
<1>12. Closes(h, k)
  BY <1>3, <1>5, <1>10 DEF Closes, Unheard
<1> QED BY <1>1, <1>6, <1>10, <1>11, <1>12 DEF clients2

\* Connect, for a user who is in a room: the newer connection takes his place.
PlaceTaken(h, c) ==
    LET r == h.userRoom[UserOf[c]]
    IN  RoomBroadcast([h EXCEPT !.rooms[r] = Put(@, UserOf[c], c)], r)

\* A newer connection of the same user takes its place in the room, and the
\* others are told the roster again.
LEMMA PlaceTakenTells ==
    ASSUME NEW h, IsHub(h), RoomsAgree(h), NEW c \in Conn,
           \A q \in Room : RosterTold(h, q),
           UserOf[c] \in DOMAIN h.userRoom
    PROVE  LET k == PlaceTaken(h, c)
           IN  /\ IsHub(k)
               /\ Unheard(h, k)
               /\ RoomsAgree(k)
               /\ \A q \in Room : RosterTold(k, q)
               /\ \A q \in Room : \A v \in DOMAIN k.rooms[q] :
                     /\ v \in DOMAIN h.rooms[q]
                     /\ k.rooms[q][v] = IF v = UserOf[c] THEN c
                                        ELSE h.rooms[q][v]
<1> DEFINE u == UserOf[c]
           r == h.userRoom[u]
           members == Put(h.rooms[r], u, c)
           rooms2 == [h.rooms EXCEPT ![r] = members]
           taken == [h EXCEPT !.rooms = rooms2]
           k == PlaceTaken(h, c)
<1>1. u \in User /\ r \in Room /\ u \in DOMAIN h.rooms[r]
  BY UserOfAssumption DEF IsHub, IsMap, RoomsAgree
<1>2. IsMap(members, User, Conn)
  BY <1>1, PutMap DEF IsHub, IsRooms
<1>3. /\ DOMAIN members = DOMAIN h.rooms[r]
      /\ \A v \in DOMAIN members :
            members[v] = IF v = u THEN c ELSE h.rooms[r][v]
  BY <1>1 DEF Put
<1>4. k = RoomBroadcast(taken, r)
  BY DEF PlaceTaken, IsHub
<1> HIDE DEF members
<1>5. /\ IsRooms(rooms2)
      /\ rooms2[r] = members
      /\ \A q \in Room \ {r} : rooms2[q] = h.rooms[q]
  BY <1>1, <1>2 DEF IsHub, IsRooms
<1> HIDE DEF rooms2
<1>6. /\ taken.clients = h.clients /\ taken.rooms = rooms2
      /\ taken.out = h.out
      /\ taken.userRoom = h.userRoom /\ taken.deleted = h.deleted
      /\ taken.buddies = h.buddies
      /\ IsHub(taken)
  BY <1>5 DEF IsHub, HubField
<1> HIDE DEF taken, k
<1>7. \A q \in Room : \A v \in DOMAIN rooms2[q] :
         /\ v \in DOMAIN h.rooms[q]
         /\ rooms2[q][v] = IF v = u THEN c ELSE h.rooms[q][v]
  BY <1>3, <1>5 DEF RoomsAgree
<1>8. RoomsAgree(taken)
  <2>1. \A q \in Room : DOMAIN rooms2[q] = DOMAIN h.rooms[q]
    BY <1>3, <1>5
  <2>2. \A v \in DOMAIN h.userRoom : h.userRoom[v] \in Room
    BY DEF IsHub, IsMap
  <2>3. ASSUME NEW q \in Room, NEW v \in DOMAIN rooms2[q]
        PROVE  /\ UserOf[rooms2[q][v]] = v
               /\ v \in DOMAIN h.userRoom
               /\ h.userRoom[v] = q
    BY <1>7, <2>3 DEF RoomsAgree
  <2>4. ASSUME NEW v \in DOMAIN h.userRoom
        PROVE  v \in DOMAIN rooms2[h.userRoom[v]]
    BY <2>1, <2>2, <2>4 DEF RoomsAgree
  <2> QED BY <1>6, <2>3, <2>4 DEF RoomsAgree
<1>9. \A q \in Room \ {r} : RosterTold(taken, q)
  BY <1>5, <1>6 DEF RosterTold
<1>10. /\ IsHub(k)
       /\ Unheard(taken, k)
       /\ k.rooms = rooms2
       /\ k.userRoom = h.userRoom
       /\ \A q \in Room : RosterTold(k, q)
  BY <1>1, <1>4, <1>6, <1>8, <1>9, RoomBroadcastTells
<1>11. RoomsAgree(k)
  BY <1>6, <1>8, <1>10 DEF RoomsAgree
<1>12. Unheard(h, k)
  BY <1>6, <1>10 DEF Unheard
<1> QED BY <1>7, <1>10, <1>11, <1>12 DEF k

\* Connect: the older connection of the user is closed and the newer one is
\* where it was.
LEMMA ConnectedTells ==
    ASSUME NEW h, HubInv(h), NEW c \in Conn
    PROVE  LET k == Connected(h, c)
           IN  /\ HubInv(k)
               /\ k.clients = Put(h.clients, UserOf[c], c)
               /\ k.deleted = h.deleted
               /\ k.buddies = h.buddies
               /\ Closes(h, k)
               /\ UserOf[c] \in DOMAIN h.clients
                  /\ h.clients[UserOf[c]] # c => k.out[h.clients[UserOf[c]]].done
<1> DEFINE u == UserOf[c]
           alone == IF u \in DOMAIN h.clients /\ h.clients[u] # c
                    THEN Dismissed(h, h.clients[u]) ELSE h
           clients2 == Put(alone.clients, u, c)
           online == [alone EXCEPT !.clients = clients2]
           placed == IF u \in DOMAIN online.userRoom
                     THEN LET r == online.userRoom[u]
                          IN  RoomBroadcast(
                                  [online EXCEPT !.rooms[r] = Put(@, u, c)], r)
                     ELSE RoomJoined(online, c, Lounge)
           k == BuddiesNotified(placed, u, TRUE)
<1>1. u \in User
  BY UserOfAssumption
<1>2. /\ HubInv(alone)
      /\ alone.clients = h.clients /\ alone.deleted = h.deleted
      /\ alone.buddies = h.buddies
      /\ Closes(h, alone)
      /\ u \in DOMAIN h.clients /\ h.clients[u] # c
            => alone.out[h.clients[u]].done
  <2>1. CASE u \in DOMAIN h.clients /\ h.clients[u] # c
    <3>1. h.clients[u] \in Conn /\ HubInvBut(h, h.clients[u])
      BY <2>1 DEF HubInv, HubInvBut, IsHub, IsMap
    <3> QED BY <2>1, <3>1, DismissedTells
  <2>2. CASE ~ (u \in DOMAIN h.clients /\ h.clients[u] # c)
    BY <2>2 DEF Closes
  <2> QED BY <2>1, <2>2
<1>3. Connected(h, c) = k
  <2> DEFINE placing(g) ==
                IF u \in DOMAIN h.userRoom
                THEN LET r == h.userRoom[u]
                     IN  RoomBroadcast([g EXCEPT !.rooms[r] = Put(@, u, c)], r)
                ELSE RoomJoined(g, c, Lounge)
  <2>1. online.userRoom = h.userRoom
    BY <1>2 DEF HubInv, IsHub, HubField, Dismissed
  <2>2. Connected(h, c) = BuddiesNotified(placing(online), u, TRUE)
    BY DEF Connected
  <2> HIDE DEF online
  <2> QED BY <2>1, <2>2
<1> HIDE DEF alone
<1>4. IsHub(alone)
  BY <1>2 DEF HubInv
<1>5. /\ IsMap(clients2, User, Conn)
      /\ DOMAIN clients2 = DOMAIN h.clients \union {u}
      /\ \A v \in DOMAIN clients2 :
            clients2[v] = IF v = u THEN c ELSE h.clients[v]
  <2>1. IsMap(alone.clients, User, Conn)
    BY <1>4 DEF IsHub
  <2> QED BY <1>1, <1>2, <2>1, PutMap DEF Put
<1>6. clients2 = Put(h.clients, u, c)
  BY <1>2
<1> HIDE DEF clients2
<1>7. /\ IsHub(online)
      /\ online.clients = clients2
      /\ online.rooms = alone.rooms /\ online.userRoom = alone.userRoom
      /\ online.deleted = h.deleted /\ online.out = alone.out
      /\ online.buddies = h.buddies
  BY <1>2, <1>4, <1>5 DEF IsHub, HubField
<1> HIDE DEF online
<1>8. /\ RoomsAgree(online)
      /\ \A q \in Room : RosterTold(online, q)
      /\ \A q \in Room : \A v \in DOMAIN online.rooms[q] :
            v \in DOMAIN h.clients /\ online.rooms[q][v] = h.clients[v]
  BY <1>2, <1>7 DEF HubInv, RoomsAgree, RosterTold, MembersLive
<1>9. /\ IsHub(placed)
      /\ Unheard(online, placed)
      /\ RoomsAgree(placed)
      /\ \A q \in Room : RosterTold(placed, q)
      /\ \A q \in Room : \A v \in DOMAIN placed.rooms[q] :
            \/ v = u /\ placed.rooms[q][v] = c
            \/ /\ v # u
               /\ v \in DOMAIN online.rooms[q]
               /\ placed.rooms[q][v] = online.rooms[q][v]
  <2>1. CASE u \in DOMAIN online.userRoom
    <3>1. placed = PlaceTaken(online, c)
      BY <2>1 DEF PlaceTaken
    <3> HIDE DEF placed
    <3>2. /\ IsHub(placed)
          /\ Unheard(online, placed)
          /\ RoomsAgree(placed)
          /\ \A q \in Room : RosterTold(placed, q)
          /\ \A q \in Room : \A v \in DOMAIN placed.rooms[q] :
                /\ v \in DOMAIN online.rooms[q]
                /\ placed.rooms[q][v] = IF v = u THEN c
                                        ELSE online.rooms[q][v]
      BY <1>7, <1>8, <2>1, <3>1, PlaceTakenTells
    <3> QED BY <3>2
  <2>2. CASE u \notin DOMAIN online.userRoom
    <3>1. placed = RoomJoined(online, c, Lounge)
      BY <2>2
    <3> HIDE DEF placed
    <3>2. /\ IsHub(placed)
          /\ Unheard(online, placed)
          /\ RoomsAgree(placed)
          /\ \A q \in Room : RosterTold(placed, q)
          /\ \A q \in Room : \A v \in DOMAIN placed.rooms[q] :
                \/ v = u /\ placed.rooms[q][v] = c
                \/ /\ v \in DOMAIN online.rooms[q]
                   /\ placed.rooms[q][v] = online.rooms[q][v]
      BY <1>7, <1>8, <2>2, <3>1, RoomJoinedTells, LoungeAssumption
    <3>3. \A q \in Room : u \notin DOMAIN online.rooms[q]
      BY <1>8, <2>2 DEF RoomsAgree
    <3> QED BY <3>2, <3>3
  <2> QED BY <2>1, <2>2
<1> HIDE DEF placed
<1>10. /\ placed.clients = clients2 /\ placed.deleted = h.deleted
      /\ placed.buddies = h.buddies
  BY <1>7, <1>9 DEF Unheard
<1>11. ClientsKeyed(placed)
  BY <1>5, <1>10 DEF HubInv, ClientsKeyed
<1>12. MembersLive(placed)
  BY <1>5, <1>8, <1>9, <1>10 DEF MembersLive
<1>13. ASSUME NEW x \in Conn PROVE PresenceBut(placed, u, x)
  <2> SUFFICES ASSUME ~ placed.out[x].done, NEW b \in DOMAIN placed.out[x].online
               PROVE  /\ IsLive(placed, x)
                      /\ Pair(b, UserOf[x]) \in placed.buddies
                      /\ \/ b = u
                         \/ placed.out[x].online[b] = (b \in DOMAIN placed.clients)
    BY DEF PresenceBut
  <2>1. ~ alone.out[x].done /\ placed.out[x].online = alone.out[x].online
    BY <1>7, <1>9 DEF Unheard
  <2>2. /\ IsLive(h, x)
        /\ Pair(b, UserOf[x]) \in h.buddies
        /\ alone.out[x].online[b] = (b \in DOMAIN h.clients)
    BY <1>2, <2>1 DEF HubInv, PresenceTold, IsLive
  <2>3. UserOf[x] = u => x = c
    BY <1>2, <2>1, <2>2 DEF IsLive
  <2>4. IsLive(placed, x)
    BY <1>5, <1>10, <2>2, <2>3 DEF IsLive
  <2>5. b # u => (b \in DOMAIN placed.clients) = (b \in DOMAIN h.clients)
    BY <1>5, <1>10
  <2> QED BY <1>10, <2>1, <2>2, <2>4, <2>5
<1>14. /\ IsHub(k)
       /\ k.clients = placed.clients
       /\ k.rooms = placed.rooms
       /\ k.userRoom = placed.userRoom
       /\ k.deleted = placed.deleted
       /\ k.buddies = placed.buddies
       /\ Closes(placed, k)
       /\ \A q \in Room : RosterTold(placed, q) => RosterTold(k, q)
       /\ \A x \in Conn : PresenceBut(placed, u, x) => PresenceTold(k, x)
  <2>1. TRUE = (u \in DOMAIN placed.clients)
    BY <1>5, <1>10
  <2> QED BY <1>1, <1>9, <1>11, <2>1, BuddiesNotifiedTells
<1> HIDE DEF k
<1>15. HubInv(k)
  BY <1>9, <1>11, <1>12, <1>13, <1>14
  DEF HubInv, ClientsKeyed, RoomsAgree, MembersLive
<1>16. Closes(h, k)
  BY <1>2, <1>7, <1>9, <1>14 DEF Closes, Unheard
<1>17. u \in DOMAIN h.clients /\ h.clients[u] # c => k.out[h.clients[u]].done
  <2>1. u \in DOMAIN h.clients => h.clients[u] \in Conn
    BY DEF HubInv, IsHub, IsMap
  <2> QED BY <1>2, <1>7, <1>9, <1>14, <2>1 DEF Closes, Unheard
<1> QED BY <1>3, <1>6, <1>10, <1>14, <1>15, <1>16, <1>17

-----------------------------------------------------------------------------
(* The inductive invariant.                                                *)

\* The connections the hub holds are served, and were authenticated.
HeldAreServed ==
    \A u \in DOMAIN clients : clients[u] \in authed /\ stage[clients[u]] \in InLoop

\* An open connection that was authenticated is held.
OpenAreHeld == \A c \in authed : ~ out[c].done => Live(c)

\* The shutdown has closed what is served, or is about to.
ShutdownClosing ==
    Closing => \A c \in Served : out[c].done \/ c \in toClose

SessionInv ==
    /\ TypeOK
    /\ HubInv(Hub)
    /\ HeldAreServed
    /\ OpenAreHeld
    /\ CommandsKeepSession
    /\ ShutdownClosing

\* The part of TypeOK that is about what h.mu guards.
HubTypeOK ==
    /\ DOMAIN out = Conn
    /\ \A c \in Conn : IsOutbound(out[c])
    /\ IsMap(clients, User, Conn)
    /\ DOMAIN rooms = Room
    /\ \A r \in Room : IsMap(rooms[r], User, Conn)
    /\ IsMap(userRoom, User, Room)
    /\ deleted \subseteq User
    /\ IsBuddies(buddies, deleted)

\* What the lemmas say of a hub is what TypeOK says of the variables.
LEMMA HubTypes == HubInv(Hub) => HubTypeOK
<1> SUFFICES ASSUME HubInv(Hub) PROVE HubTypeOK
  OBVIOUS
<1>1. IsHub(Hub)
  BY DEF HubInv
<1>2. /\ Hub.clients = clients /\ Hub.rooms = rooms /\ Hub.userRoom = userRoom
      /\ Hub.deleted = deleted /\ Hub.buddies = buddies /\ Hub.out = out
  BY DEF Hub
<1>3. IsOut(out) /\ IsRooms(rooms)
  BY <1>1, <1>2 DEF IsHub
<1>4. DOMAIN out = Conn /\ DOMAIN rooms = Room
  BY <1>3 DEF IsOut, IsRooms
<1> QED BY <1>1, <1>2, <1>3, <1>4 DEF HubTypeOK, IsHub, IsOut, IsRooms

\* What a handler makes of the hub is the hub of the next state.
LEMMA BecomesHub ==
    ASSUME NEW h, IsHub(h), Becomes(h)
    PROVE  Hub' = h
<1>1. h = [f \in HubField |-> h[f]]
  BY DEF IsHub
<1>2. Hub' = [f \in HubField |-> h[f]]
  BY DEF Becomes, Hub, HubField
<1> QED BY <1>1, <1>2

\* The hub of the lemmas is made of the variables.
LEMMA HubFields ==
    /\ Hub.clients = clients /\ Hub.rooms = rooms /\ Hub.userRoom = userRoom
    /\ Hub.deleted = deleted /\ Hub.buddies = buddies /\ Hub.out = out
BY DEF Hub

\* Before the first connection nothing is promised.
LEMMA InitSession == Init => SessionInv
<1> SUFFICES ASSUME Init PROVE SessionInv
  OBVIOUS
<1>1. IsOutbound(Silent(FALSE)) /\ Silent(FALSE).online = EmptyMap
  BY QueueSizeAssumption DEF Silent, IsOutbound, EmptyMap
<1>2. IsHub(Hub)
  <2>1. IsOut(out)
    BY <1>1 DEF Init, IsOut
  <2>2. \A S, T : IsMap(EmptyMap, S, T)
    BY DEF IsMap, EmptyMap
  <2>3. IsRooms(rooms)
    BY <2>2 DEF Init, IsRooms
  <2>4. Hub = [f \in HubField |-> Hub[f]]
    BY DEF Hub, HubField
  <2>5. IsBuddies(buddies, deleted)
    BY BuddiesAssumption DEF Init, IsBuddies
  <2> QED BY <2>1, <2>2, <2>3, <2>4, <2>5, HubFields DEF Init, IsHub
<1>3. HubInv(Hub)
  <2>1. DOMAIN EmptyMap = {}
    BY DEF EmptyMap
  <2>2. \A c \in Conn : out[c].online = EmptyMap
    BY <1>1 DEF Init
  <2>3. \A c \in Conn : PresenceTold(Hub, c)
    BY <2>1, <2>2, HubFields DEF PresenceTold
  <2> QED BY <1>2, <2>1, <2>3, HubFields
          DEF Init, HubInv, ClientsKeyed, RoomsAgree, MembersLive, RosterTold
<1>4. TypeOK
  BY <1>3, HubTypes DEF HubTypeOK, IsBuddies, Init, TypeOK, Stage, ShutdownStage
<1> QED BY <1>3, <1>4
        DEF Init, SessionInv, HeldAreServed, OpenAreHeld, CommandsKeepSession,
            ShutdownClosing, Closing, EmptyMap

\* A step that leaves the sessions and the shutdown alone: it may move one
\* connection within its loop and put messages on queues.
LEMMA SessionsKept ==
    ASSUME SessionInv, HubInv(Hub)', Closes(Hub, Hub'),
           stage' \in [Conn -> Stage],
           \A c \in Conn : stage[c] \in InLoop <=> stage'[c] \in InLoop,
           \A c \in Conn : stage'[c] = "draining" => stage[c] = "draining",
           \A c \in Conn : stage'[c] = "command" => stage[c] = "command" \/ Live(c),
           UNCHANGED <<authed, clients, serverVars>>
    PROVE  SessionInv'
<1>1. TypeOK'
  <2>1. HubTypeOK'
    BY HubTypes, PTL
  <2> QED BY <2>1 DEF SessionInv, TypeOK, HubTypeOK, IsBuddies, serverVars
<1>2. \A c \in Conn : out[c].done => out'[c].done
  BY DEF Closes, Hub
<1>3. authed \subseteq Conn /\ \A u \in DOMAIN clients : clients[u] \in Conn
  BY DEF SessionInv, TypeOK, IsMap
<1>4. \A c \in Conn : Live(c)' = Live(c)
  BY DEF Live
<1>5. HeldAreServed' /\ OpenAreHeld' /\ CommandsKeepSession'
  BY <1>2, <1>3, <1>4
  DEF SessionInv, HeldAreServed, OpenAreHeld, CommandsKeepSession
<1>6. ShutdownClosing'
  BY <1>2 DEF SessionInv, ShutdownClosing, Closing, Served, serverVars
<1> QED BY <1>1, <1>5, <1>6 DEF SessionInv

-----------------------------------------------------------------------------
(* The handlers of a command.                                              *)

\* What nobody heard of stays as true as it was.
LEMMA UnheardPresence ==
    ASSUME NEW h, NEW k, HubInv(h), Unheard(h, k)
    PROVE  (\A c \in Conn : PresenceTold(k, c)) /\ Closes(h, k)
<1>1. ASSUME NEW c \in Conn PROVE PresenceTold(k, c)
  <2>1. PresenceTold(h, c)
    BY DEF HubInv
  <2> QED BY <2>1 DEF Unheard, PresenceTold, IsLive
<1> QED BY <1>1 DEF Unheard, Closes

\* What a handler that is about rooms or presence keeps.
HubKept(h, k) ==
    /\ HubInv(k)
    /\ k.clients = h.clients
    /\ k.deleted = h.deleted
    /\ Closes(h, k)

\* room.leave keeps the hub, and the user is in no room afterwards.
LEMMA RoomLeftKeeps ==
    ASSUME NEW h, HubInv(h), NEW u
    PROVE  HubKept(h, RoomLeft(h, u)) /\ u \notin DOMAIN RoomLeft(h, u).userRoom
<1> DEFINE k == RoomLeft(h, u)
<1>1. /\ IsHub(k)
      /\ Unheard(h, k)
      /\ RoomsAgree(k)
      /\ u \notin DOMAIN k.userRoom
      /\ \A q \in Room : RosterTold(k, q)
      /\ \A q \in Room : \A v \in DOMAIN k.rooms[q] :
            /\ v \in DOMAIN h.rooms[q]
            /\ k.rooms[q][v] = h.rooms[q][v]
  BY RoomLeftTells DEF HubInv
<1> HIDE DEF k
<1>2. (\A c \in Conn : PresenceTold(k, c)) /\ Closes(h, k)
  BY <1>1, UnheardPresence
<1>3. k.clients = h.clients /\ k.deleted = h.deleted
  BY <1>1 DEF Unheard
<1>4. MembersLive(k)
  BY <1>1, <1>3 DEF HubInv, MembersLive
<1> QED BY <1>1, <1>2, <1>3, <1>4 DEF HubKept, HubInv, ClientsKeyed, k

\* room.join keeps the hub.
LEMMA RoomJoinedKeeps ==
    ASSUME NEW h, HubInv(h), NEW c \in Conn, IsLive(h, c), NEW r \in Room,
           UserOf[c] \notin DOMAIN h.userRoom
    PROVE  HubKept(h, RoomJoined(h, c, r))
<1> DEFINE k == RoomJoined(h, c, r)
<1>1. /\ IsHub(k)
      /\ Unheard(h, k)
      /\ RoomsAgree(k)
      /\ \A q \in Room : RosterTold(k, q)
      /\ \A q \in Room : \A v \in DOMAIN k.rooms[q] :
            \/ v = UserOf[c] /\ k.rooms[q][v] = c
            \/ v \in DOMAIN h.rooms[q] /\ k.rooms[q][v] = h.rooms[q][v]
  BY RoomJoinedTells DEF HubInv
<1> HIDE DEF k
<1>2. (\A x \in Conn : PresenceTold(k, x)) /\ Closes(h, k)
  BY <1>1, UnheardPresence
<1>3. k.clients = h.clients /\ k.deleted = h.deleted
  BY <1>1 DEF Unheard
<1>4. MembersLive(k)
  <2> SUFFICES ASSUME NEW q \in Room, NEW v \in DOMAIN k.rooms[q]
               PROVE  v \in DOMAIN h.clients /\ k.rooms[q][v] = h.clients[v]
    BY <1>3 DEF MembersLive
  <2>1. CASE v = UserOf[c] /\ k.rooms[q][v] = c
    BY <2>1 DEF IsLive
  <2>2. CASE v \in DOMAIN h.rooms[q] /\ k.rooms[q][v] = h.rooms[q][v]
    BY <2>2 DEF HubInv, MembersLive
  <2> QED BY <1>1, <2>1, <2>2
<1> QED BY <1>1, <1>2, <1>3, <1>4 DEF HubKept, HubInv, ClientsKeyed, k

\* To tell the buddies what is true keeps the hub.
LEMMA BuddiesNotifiedKeeps ==
    ASSUME NEW h, HubInv(h), NEW u \in DOMAIN h.clients
    PROVE  HubKept(h, BuddiesNotified(h, u, TRUE))
<1> DEFINE k == BuddiesNotified(h, u, TRUE)
<1>1. u \in User /\ TRUE = (u \in DOMAIN h.clients)
  BY DEF HubInv, IsHub, IsMap
<1>2. \A c \in Conn : PresenceBut(h, u, c)
  BY DEF HubInv, PresenceTold, PresenceBut
<1>3. /\ IsHub(k)
      /\ k.clients = h.clients
      /\ k.rooms = h.rooms
      /\ k.userRoom = h.userRoom
      /\ k.deleted = h.deleted
      /\ Closes(h, k)
      /\ \A q \in Room : RosterTold(h, q) => RosterTold(k, q)
      /\ \A c \in Conn : PresenceBut(h, u, c) => PresenceTold(k, c)
  BY <1>1, BuddiesNotifiedTells DEF HubInv
<1> HIDE DEF k
<1>4. ClientsKeyed(k) /\ RoomsAgree(k) /\ MembersLive(k)
  BY <1>3 DEF HubInv, ClientsKeyed, RoomsAgree, MembersLive
<1>5. HubInv(k)
  BY <1>2, <1>3, <1>4 DEF HubInv
<1>6. HubKept(h, k)
  BY <1>3, <1>5 DEF HubKept
<1> QED BY <1>6 DEF k

\* Messages of no consequence, on the queues of anybody.
LEMMA NotesKeep ==
    ASSUME HubInv(Hub), NEW receivers, out' = Sent(out, receivers, Note),
           UNCHANGED <<clients, rooms, userRoom, deleted, buddies>>
    PROVE  HubKept(Hub, Hub')
<1> DEFINE outs == Sent(out, receivers, Note)
<1>1. /\ IsOut(outs)
      /\ \A c \in Conn : ~ outs[c].done =>
            /\ ~ out[c].done
            /\ outs[c].roster = out[c].roster
            /\ outs[c].online = out[c].online
  <2>1. IsOut(out)
    BY HubFields DEF HubInv, IsHub
  <2> QED BY <2>1, NoteSent
<1>2. Hub' = [Hub EXCEPT !.out = outs]
  BY DEF Hub
<1> HIDE DEF outs
<1> QED BY <1>1, <1>2, HubFields, QueuesTell DEF HubKept

\* Friendships end, of profiles that may be deleted with them: what was said
\* of the presence of strangers is forgotten, and the rest is as true as it
\* was.
LEMMA UnfriendedTells ==
    ASSUME NEW h, HubInv(h), NEW ended, NEW D \in SUBSET User,
           IsBuddies(h.buddies \ ended, h.deleted \union D)
    PROVE  LET k == Unfriended([h EXCEPT !.deleted = h.deleted \union D], ended)
           IN  /\ HubInv(k)
               /\ k.clients = h.clients
               /\ k.deleted = h.deleted \union D
               /\ Closes(h, k)
<1> DEFINE known(c) == Without(h.out[c].online, {b \in User : {b, UserOf[c]} \in ended})
           outs == [c \in Conn |-> [h.out[c] EXCEPT !.online = known(c)]]
           g == [h EXCEPT !.deleted = h.deleted \union D]
           k == Unfriended(g, ended)
<1>1. IsHub(h) /\ IsOut(h.out) /\ \A c \in Conn : IsOutbound(h.out[c])
  BY DEF HubInv, IsHub, IsOut
<1>2. \A c \in Conn :
         /\ IsOutbound(outs[c])
         /\ outs[c].done = h.out[c].done
         /\ outs[c].roster = h.out[c].roster
         /\ DOMAIN outs[c].online \subseteq DOMAIN h.out[c].online
         /\ \A b \in DOMAIN outs[c].online :
               /\ Pair(b, UserOf[c]) \notin ended
               /\ outs[c].online[b] = h.out[c].online[b]
  <2> SUFFICES ASSUME NEW c \in Conn
               PROVE  /\ IsOutbound(outs[c])
                      /\ outs[c].done = h.out[c].done
                      /\ outs[c].roster = h.out[c].roster
                      /\ DOMAIN outs[c].online \subseteq DOMAIN h.out[c].online
                      /\ \A b \in DOMAIN outs[c].online :
                            /\ Pair(b, UserOf[c]) \notin ended
                            /\ outs[c].online[b] = h.out[c].online[b]
    OBVIOUS
  <2> DEFINE o == h.out[c]
  <2>1. IsMap(o.online, User, BOOLEAN)
    BY <1>1 DEF IsOutbound, IsMap
  <2>2. /\ IsMap(known(c), User, BOOLEAN)
        /\ DOMAIN known(c) \subseteq DOMAIN o.online
        /\ \A b \in DOMAIN known(c) :
              /\ Pair(b, UserOf[c]) \notin ended
              /\ known(c)[b] = o.online[b]
    <3>1. \A b \in DOMAIN known(c) : b \in DOMAIN o.online /\ {b, UserOf[c]} \notin ended
      BY <2>1 DEF Without, IsMap
    <3>2. \A b \in DOMAIN known(c) : known(c)[b] = o.online[b]
      BY DEF Without
    <3> QED BY <2>1, <3>1, <3>2, WithoutMap DEF Pair
  <2>3. outs[c] = [o EXCEPT !.online = known(c)]
    OBVIOUS
  <2> HIDE DEF known, outs
  <2>4. /\ outs[c].online = known(c)
        /\ outs[c].done = o.done /\ outs[c].roster = o.roster
        /\ IsOutbound(outs[c])
    BY <1>1, <2>2, <2>3 DEF IsOutbound, IsMap
  <2> QED BY <2>2, <2>4
<1>3. k = [g EXCEPT !.buddies = g.buddies \ ended, !.out = outs]
  <2>1. g.out = h.out /\ g.buddies = h.buddies
    BY <1>1 DEF IsHub, HubField
  <2> QED BY <2>1 DEF Unfriended
<1>4. IsOut(outs)
  BY <1>2 DEF IsOut
<1> HIDE DEF outs, k
<1>5. /\ IsHub(k)
      /\ k.clients = h.clients /\ k.rooms = h.rooms /\ k.out = outs
      /\ k.userRoom = h.userRoom /\ k.deleted = h.deleted \union D
      /\ k.buddies = h.buddies \ ended
  BY <1>1, <1>3, <1>4 DEF IsHub, HubField
<1>6. \A q \in Room : \A v \in DOMAIN h.rooms[q] : h.rooms[q][v] \in Conn
  BY <1>1 DEF IsHub, IsRooms, IsMap
<1>7. \A q \in Room : RosterTold(k, q)
  BY <1>2, <1>5, <1>6 DEF HubInv, RosterTold
<1>8. ASSUME NEW c \in Conn PROVE PresenceTold(k, c)
  <2>1. PresenceTold(h, c)
    BY DEF HubInv
  <2> QED BY <1>2, <1>5, <2>1 DEF PresenceTold, IsLive
<1>9. HubInv(k)
  BY <1>5, <1>7, <1>8 DEF HubInv, ClientsKeyed, RoomsAgree, MembersLive
<1>10. Closes(h, k)
  BY <1>2, <1>5 DEF Closes
<1> QED BY <1>5, <1>9, <1>10 DEF k

\* buddy.remove.
LEMMA UnfriendedKeeps ==
    ASSUME NEW h, HubInv(h), NEW ended
    PROVE  HubKept(h, Unfriended(h, ended))
<1>1. h.deleted \union {} = h.deleted
  OBVIOUS
<1>2. [h EXCEPT !.deleted = h.deleted \union {}] = h
  BY <1>1 DEF HubInv, IsHub, HubField
<1>3. IsBuddies(h.buddies \ ended, h.deleted \union {})
  BY <1>1 DEF HubInv, IsHub, IsBuddies
<1> DEFINE k == Unfriended([h EXCEPT !.deleted = h.deleted \union {}], ended)
<1>4. k = Unfriended(h, ended)
  BY <1>2
<1>5. /\ HubInv(k)
      /\ k.clients = h.clients
      /\ k.deleted = h.deleted \union {}
      /\ Closes(h, k)
  BY <1>3, UnfriendedTells
<1> HIDE DEF k
<1>6. HubKept(h, k)
  BY <1>1, <1>5 DEF HubKept
<1> QED BY <1>4, <1>6

\* buddy.accept: the new buddies were told nothing of each other yet.
LEMMA BefriendedKeeps ==
    ASSUME HubInv(Hub), NEW receivers, out' = Sent(out, receivers, Note),
           NEW v \in User, NEW c \in Conn, v # UserOf[c],
           {v, UserOf[c]} \intersect deleted = {},
           buddies' = buddies \union {{v, UserOf[c]}},
           UNCHANGED <<clients, rooms, userRoom, deleted>>
    PROVE  HubKept(Hub, Hub') /\ clients' = clients
<1> DEFINE more == buddies \union {{v, UserOf[c]}}
           h == [Hub EXCEPT !.buddies = more]
           outs == Sent(out, receivers, Note)
<1>1. buddies' = more
  OBVIOUS
<1>2. IsBuddies(more, deleted)
  <2>1. IsBuddies(buddies, deleted)
    BY HubFields DEF HubInv, IsHub
  <2>2. {v, UserOf[c]} \subseteq User \ deleted
    BY UserOfAssumption
  <2> QED BY <2>1, <2>2 DEF IsBuddies
<1>3. \A x, y : Pair(x, y) \in buddies => Pair(x, y) \in more
  OBVIOUS
<1> HIDE DEF more, outs
<1>4. /\ h = [f \in HubField |-> h[f]]
      /\ h.clients = clients /\ h.rooms = rooms /\ h.userRoom = userRoom
      /\ h.deleted = deleted /\ h.out = out /\ h.buddies = more
  BY DEF Hub, HubField
<1>5. Hub' = [h EXCEPT !.out = outs]
  <2>1. out' = outs
    BY DEF outs
  <2>2. Hub' = [clients |-> clients, rooms |-> rooms, userRoom |-> userRoom,
                deleted |-> deleted, buddies |-> more, out |-> outs]
    BY <1>1, <2>1 DEF Hub
  <2>3. h = [clients |-> clients, rooms |-> rooms, userRoom |-> userRoom,
             deleted |-> deleted, buddies |-> more, out |-> out]
    BY DEF Hub
  <2> HIDE DEF h
  <2> QED BY <2>2, <2>3
<1> HIDE DEF h
<1>6. HubInv(h)
  <2>1. IsHub(h)
    BY <1>2, <1>4, HubFields DEF HubInv, IsHub
  <2>2. \A x \in Conn : PresenceTold(h, x)
    BY <1>3, <1>4, HubFields DEF HubInv, PresenceTold, IsLive
  <2> QED BY <1>4, <2>1, <2>2, HubFields
          DEF HubInv, ClientsKeyed, RoomsAgree, MembersLive, RosterTold
<1>7. /\ IsOut(outs)
      /\ \A x \in Conn : ~ outs[x].done =>
            /\ ~ out[x].done
            /\ outs[x].roster = out[x].roster
            /\ outs[x].online = out[x].online
  <2>1. IsOut(out)
    BY HubFields DEF HubInv, IsHub
  <2> QED BY <2>1, NoteSent DEF outs
<1>8. HubInv(Hub') /\ Closes(h, Hub')
  BY <1>4, <1>5, <1>6, <1>7, QueuesTell
<1> QED BY <1>4, <1>8, HubFields DEF HubKept, Closes, Hub

\* Every handler of a command leaves what the hub told true.
LEMMA CommandKeeps ==
    ASSUME SessionInv, NEW c \in Conn, Command(c)
    PROVE  HubKept(Hub, Hub') /\ clients' = clients
<1> DEFINE u == UserOf[c]
<1>1. HubInv(Hub) /\ IsLive(Hub, c) /\ stage[c] = "command"
  BY DEF SessionInv, CommandsKeepSession, Command, JoinRoom, LeaveRoom,
         RoomChat, GameListChange, SetStatus, PlayerChat, BuddyAccept,
         BuddyRemove, Quiet, Running, Live, IsLive, Hub
<1>2. ASSUME NEW h, HubKept(Hub, h), Becomes(h)
      PROVE  HubKept(Hub, Hub') /\ clients' = clients
  <2>1. Hub' = h
    BY <1>2, BecomesHub DEF HubKept, HubInv
  <2> QED BY <1>2, <2>1, HubFields DEF HubKept, Becomes
<1>3. ASSUME NEW r \in Room, JoinRoom(c, r)
      PROVE  HubKept(Hub, Hub') /\ clients' = clients
  <2> DEFINE left == RoomLeft(Hub, u)
             joined == RoomJoined(left, c, r)
  <2>1. HubKept(Hub, left) /\ u \notin DOMAIN left.userRoom
    BY <1>1, RoomLeftKeeps
  <2>2. HubInv(left) /\ IsLive(left, c)
    BY <1>1, <2>1 DEF HubKept, IsLive
  <2>3. HubKept(left, joined)
    BY <2>1, <2>2, RoomJoinedKeeps
  <2>4. Becomes(joined)
    BY <1>3 DEF JoinRoom
  <2> HIDE DEF left, joined
  <2>5. HubKept(Hub, joined)
    BY <2>1, <2>3 DEF HubKept, Closes
  <2> QED BY <1>2, <2>4, <2>5
<1>4. CASE LeaveRoom(c)
  BY <1>1, <1>2, <1>4, RoomLeftKeeps DEF LeaveRoom
<1>5. CASE RoomChat(c)
  BY <1>1, <1>5, NotesKeep DEF RoomChat
<1>6. CASE GameListChange(c)
  BY <1>1, <1>6, NotesKeep DEF GameListChange
<1>7. CASE SetStatus(c)
  BY <1>1, <1>2, <1>7, BuddiesNotifiedKeeps DEF SetStatus, IsLive
<1>8. ASSUME NEW v \in User, PlayerChat(c, v)
      PROVE  HubKept(Hub, Hub') /\ clients' = clients
  BY <1>1, <1>8, NotesKeep DEF PlayerChat
<1>9. ASSUME NEW v \in User, BuddyAccept(c, v)
      PROVE  HubKept(Hub, Hub') /\ clients' = clients
  BY <1>1, <1>9, BefriendedKeeps DEF BuddyAccept
<1>10. ASSUME NEW v \in User, BuddyRemove(c, v)
       PROVE  HubKept(Hub, Hub') /\ clients' = clients
  <2>1. HubKept(Hub, Unfriended(Hub, {{v, u}}))
    BY <1>1, UnfriendedKeeps
  <2> QED BY <1>2, <1>10, <2>1 DEF BuddyRemove
<1>11. CASE Quiet(c)
  BY <1>1, <1>11 DEF Quiet, HubKept, Closes, Hub, hubVars
<1> QED BY <1>3, <1>4, <1>5, <1>6, <1>7, <1>8, <1>9, <1>10, <1>11 DEF Command

-----------------------------------------------------------------------------
(* The steps.                                                              *)

\* A step of nobody keeps everything.
LEMMA StoodStill ==
    ASSUME SessionInv, UNCHANGED vars
    PROVE  SessionInv'
<1>1. Hub' = Hub
  BY DEF vars, hubVars, Hub
<1>2. HubInv(Hub)' /\ Closes(Hub, Hub')
  BY <1>1 DEF SessionInv, Closes
<1> QED BY <1>2, SessionsKept
        DEF SessionInv, TypeOK, vars, handlerVars, hubVars, serverVars

\* A queue changes, and nothing is put on it that anybody would remember.
LEMMA QueuesKeep ==
    ASSUME HubInv(Hub), IsOut(out'),
           \A c \in Conn : ~ out'[c].done =>
              /\ ~ out[c].done
              /\ out'[c].roster = out[c].roster
              /\ out'[c].online = out[c].online,
           UNCHANGED <<clients, rooms, userRoom, deleted, buddies>>
    PROVE  HubInv(Hub)' /\ Closes(Hub, Hub')
<1>1. Hub' = [Hub EXCEPT !.out = out']
  BY DEF Hub
<1>2. HubInv([Hub EXCEPT !.out = out']) /\ Closes(Hub, [Hub EXCEPT !.out = out'])
  BY HubFields, QueuesTell
<1> QED BY <1>1, <1>2

\* A new connection is not known to the hub.
LEMMA AcceptKeeps ==
    ASSUME SessionInv, NEW c \in Conn, Accept(c)
    PROVE  SessionInv'
<1>1. IsHub(Hub) /\ IsOut(out) /\ \A x \in Conn : IsOutbound(out[x])
  BY DEF SessionInv, HubInv, IsHub, IsOut, Hub
<1>2. Note \in Message /\ Note.kind = "note"
  BY MessageKinds
<1>3. /\ IsOut(out')
      /\ \A x \in Conn : ~ out'[x].done =>
            /\ ~ out[x].done
            /\ out'[x].roster = out[x].roster
            /\ out'[x].online = out[x].online
  <2>1. CASE Refused
    BY <1>1, <2>1, ClosedType DEF Accept, IsOut
  <2>2. CASE ~ Refused
    <3>1. out' = [out EXCEPT ![c] = Enqueued(out[c], Note)]
      BY <2>2 DEF Accept
    <3>2. /\ IsOutbound(Enqueued(out[c], Note))
          /\ ~ Enqueued(out[c], Note).done =>
                /\ ~ out[c].done
                /\ Enqueued(out[c], Note).roster = out[c].roster
                /\ Enqueued(out[c], Note).online = out[c].online
      BY <1>1, <1>2, EnqueuedType
    <3> QED BY <1>1, <3>1, <3>2 DEF IsOut
  <2> QED BY <2>1, <2>2
<1>4. HubInv(Hub)' /\ Closes(Hub, Hub')
  BY <1>3, QueuesKeep DEF SessionInv, Accept
<1>5. TypeOK'
  <2>1. HubTypeOK'
    BY <1>4, HubTypes, PTL
  <2> QED BY <2>1 DEF SessionInv, TypeOK, HubTypeOK, IsBuddies, serverVars, Accept, To, Stage
<1>6. /\ \A u \in DOMAIN clients : clients[u] \in Conn \ {c}
      /\ authed \subseteq Conn
      /\ \A x \in Conn \ {c} : stage'[x] = stage[x]
      /\ stage'[c] \in {"reading", "gone"}
      /\ \A x \in Conn : Live(x)' = Live(x)
  BY DEF SessionInv, TypeOK, IsMap, HeldAreServed, InLoop, Accept, To, Live
<1>7. HeldAreServed' /\ OpenAreHeld' /\ CommandsKeepSession'
  BY <1>3, <1>6
  DEF SessionInv, HeldAreServed, OpenAreHeld, CommandsKeepSession, Accept
<1>8. ShutdownClosing'
  BY <1>3, <1>6
  DEF SessionInv, TypeOK, ShutdownClosing, Closing, Served, serverVars, Accept,
      Refused, To, InLoop
<1> QED BY <1>4, <1>5, <1>7, <1>8 DEF SessionInv

\* An authentication enters the hub in one step, and takes the place of an
\* older connection of the user.
LEMMA AuthenticateKeeps ==
    ASSUME SessionInv, NEW c \in Conn, Authenticate(c)
    PROVE  SessionInv'
<1> DEFINE u == UserOf[c]
           k == Connected(Hub, c)
<1>1. HubInv(Hub)
  BY DEF SessionInv
<1>2. /\ HubInv(k)
      /\ k.clients = Put(clients, u, c)
      /\ Closes(Hub, k)
      /\ u \in DOMAIN clients /\ clients[u] # c => k.out[clients[u]].done
  BY <1>1, HubFields, ConnectedTells
<1>3. Becomes(k)
  BY DEF Authenticate
<1> HIDE DEF k
<1>4. Hub' = k
  BY <1>2, <1>3, BecomesHub DEF HubInv
<1>5. HubInv(Hub)' /\ \A x \in Conn : out[x].done => out'[x].done
  BY <1>2, <1>3, <1>4, HubFields DEF Closes, Becomes
<1>6. TypeOK'
  <2>1. HubTypeOK'
    BY <1>5, HubTypes, PTL
  <2> QED BY <2>1
          DEF SessionInv, TypeOK, HubTypeOK, IsBuddies, serverVars, Authenticate, To, Stage
<1>7. /\ DOMAIN clients' = DOMAIN clients \union {u}
      /\ \A v \in DOMAIN clients' : clients'[v] = IF v = u THEN c ELSE clients[v]
  BY <1>2, <1>3 DEF Becomes, Put
<1>8. /\ c \notin authed
      /\ authed' = authed \union {c}
      /\ stage[c] = "reading"
      /\ stage'[c] = "welcoming"
      /\ \A x \in Conn \ {c} : stage'[x] = stage[x]
      /\ \A x \in Conn : stage[x] # "command"
      /\ authed \subseteq Conn
      /\ \A v \in DOMAIN clients : clients[v] \in Conn
  BY DEF SessionInv, TypeOK, IsMap, Authenticate, To, GateFree
<1>9. HeldAreServed'
  BY <1>7, <1>8 DEF SessionInv, HeldAreServed, InLoop
<1>10. OpenAreHeld'
  <2> SUFFICES ASSUME NEW x \in authed', ~ out'[x].done
               PROVE  UserOf[x] \in DOMAIN clients' /\ clients'[UserOf[x]] = x
    BY DEF OpenAreHeld, Live
  <2>1. CASE x = c
    BY <1>7, <2>1
  <2>2. CASE x # c
    <3>1. x \in authed /\ x \in Conn /\ ~ out[x].done
      BY <1>5, <1>8, <2>2
    <3>2. UserOf[x] \in DOMAIN clients /\ clients[UserOf[x]] = x
      BY <3>1 DEF SessionInv, OpenAreHeld, Live
    <3>3. UserOf[x] # u
      BY <1>2, <1>3, <2>2, <3>2 DEF Becomes
    <3> QED BY <1>7, <3>2, <3>3
  <2> QED BY <2>1, <2>2
<1>11. CommandsKeepSession'
  BY <1>8 DEF CommandsKeepSession
<1>12. ShutdownClosing'
  BY <1>5, <1>8
  DEF SessionInv, ShutdownClosing, Closing, Served, Authenticate, serverVars, InLoop
<1> QED BY <1>5, <1>6, <1>9, <1>10, <1>11, <1>12 DEF SessionInv

\* A session ends: c is closed and no longer the live connection of anybody,
\* and it may leave the loop.
LEMMA SessionEnds ==
    ASSUME SessionInv, NEW c \in Conn, stage[c] # "command",
           HubInv(Hub)', Closes(Hub, Hub'), out'[c].done,
           DOMAIN clients' = DOMAIN clients \ {v \in DOMAIN clients : clients[v] = c},
           \A v \in DOMAIN clients' : clients'[v] = clients[v],
           authed' \subseteq authed, authed \subseteq authed' \union {c},
           stage' \in [Conn -> Stage],
           \A x \in Conn \ {c} : stage'[x] = stage[x],
           stage'[c] # "command",
           c \in Served' => c \in Served,
           UNCHANGED serverVars
    PROVE  SessionInv'
<1>1. TypeOK'
  <2>1. HubTypeOK'
    BY HubTypes, PTL
  <2> QED BY <2>1 DEF SessionInv, TypeOK, HubTypeOK, IsBuddies, serverVars
<1>2. \A x \in Conn : out[x].done => out'[x].done
  BY DEF Closes, Hub
<1>3. authed \subseteq Conn /\ \A v \in DOMAIN clients : clients[v] \in Conn
  BY DEF SessionInv, TypeOK, IsMap
<1>4. ASSUME NEW x \in Conn \ {c}, Live(x) PROVE Live(x)'
  <2>1. UserOf[x] \in DOMAIN clients /\ clients[UserOf[x]] = x
    BY <1>4 DEF Live
  <2> QED BY <2>1 DEF Live
<1>5. HeldAreServed'
  <2> SUFFICES ASSUME NEW v \in DOMAIN clients'
               PROVE  clients'[v] \in authed' /\ stage'[clients'[v]] \in InLoop
    BY DEF HeldAreServed
  <2>1. v \in DOMAIN clients /\ clients'[v] = clients[v] /\ clients[v] # c
    OBVIOUS
  <2> QED BY <1>3, <2>1 DEF SessionInv, HeldAreServed
<1>6. OpenAreHeld'
  BY <1>2, <1>3, <1>4 DEF SessionInv, OpenAreHeld
<1>7. CommandsKeepSession'
  BY <1>4 DEF SessionInv, CommandsKeepSession
<1>8. ShutdownClosing'
  BY <1>2 DEF SessionInv, ShutdownClosing, Closing, Served, serverVars
<1> QED BY <1>1, <1>5, <1>6, <1>7, <1>8 DEF SessionInv

\* A handler that ends takes its connection out of the hub, if it is still
\* there.
LEMMA LeaveKeeps ==
    ASSUME SessionInv, NEW c \in Conn, Leave(c)
    PROVE  SessionInv'
<1> DEFINE u == UserOf[c]
           h == IF c \in authed /\ Live(c) THEN Disconnected(Hub, c) ELSE Hub
           k == Dismissed(h, c)
           gone == {v \in DOMAIN clients : clients[v] = c}
<1>1. HubInv(Hub) /\ Becomes(k) /\ stage[c] = "reading"
  BY DEF SessionInv, Leave, Dismissed
<1>2. \A v \in gone : v = u /\ c \in authed /\ Live(c)
  BY <1>1, HubFields DEF SessionInv, HubInv, ClientsKeyed, HeldAreServed, Live
<1>3. /\ HubInvBut(h, c)
      /\ Closes(Hub, h)
      /\ DOMAIN h.clients = DOMAIN clients \ gone
      /\ \A v \in DOMAIN h.clients : h.clients[v] = clients[v]
  <2>1. CASE c \in authed /\ Live(c)
    <3>1. IsLive(Hub, c) /\ gone = {u}
      BY <1>2, <2>1 DEF IsLive, Live, Hub
    <3>2. /\ HubInvBut(Disconnected(Hub, c), c)
          /\ Disconnected(Hub, c).clients = Without(clients, {u})
          /\ Closes(Hub, Disconnected(Hub, c))
      BY <1>1, <3>1, HubFields, DisconnectedTells DEF HubInv
    <3>3. h = Disconnected(Hub, c)
      BY <2>1
    <3> HIDE DEF h, gone
    <3> QED BY <3>1, <3>2, <3>3 DEF Without
  <2>2. CASE ~ (c \in authed /\ Live(c))
    <3>1. h = Hub /\ gone = {}
      BY <1>2, <2>2
    <3> HIDE DEF h, gone
    <3> QED BY <1>1, <3>1, HubFields DEF HubInv, HubInvBut, Closes
  <2> QED BY <2>1, <2>2
<1> HIDE DEF h
<1>4. /\ HubInv(k)
      /\ k.clients = h.clients
      /\ Closes(h, k)
      /\ k.out[c].done
  BY <1>3, DismissedTells
<1> HIDE DEF k
<1>5. Hub' = k
  BY <1>1, <1>4, BecomesHub DEF HubInv
<1>6. /\ HubInv(Hub)'
      /\ Closes(Hub, Hub')
      /\ out'[c].done
      /\ DOMAIN clients' = DOMAIN clients \ gone
      /\ \A v \in DOMAIN clients' : clients'[v] = clients[v]
  BY <1>1, <1>3, <1>4, <1>5 DEF Closes, Becomes
<1>7. /\ stage' \in [Conn -> Stage]
      /\ \A x \in Conn \ {c} : stage'[x] = stage[x]
      /\ stage'[c] # "command"
      /\ c \in Served
  BY DEF SessionInv, TypeOK, Leave, To, Stage, Served, InLoop
<1> QED BY <1>1, <1>6, <1>7, SessionEnds DEF Leave

\* The administrator ends a session, of a profile that may be deleted and
\* without friends already.
LEMMA EndedKeeps ==
    ASSUME SessionInv, NEW u \in User, GateFree,
           NEW h, HubInv(h), h.clients = clients, Closes(Hub, h),
           Becomes(Ended(h, u)),
           UNCHANGED <<handlerVars, serverVars>>
    PROVE  SessionInv'
<1> DEFINE c == clients[u]
           k == Ended(h, u)
           gone == {v \in DOMAIN clients : clients[v] = c}
<1>1. /\ IsHub(h)
      /\ ClientsKeyed(h)
      /\ RoomsAgree(h)
      /\ MembersLive(h)
      /\ \A r \in Room : RosterTold(h, r)
      /\ \A x \in Conn : PresenceTold(h, x)
  BY DEF HubInv
<1>2. CASE u \in DOMAIN clients
  <2>1. c \in Conn /\ UserOf[c] = u /\ IsLive(h, c) /\ gone = {u}
    BY <1>1, <1>2, UserOfAssumption DEF ClientsKeyed, IsLive, IsHub, IsMap
  <2> DEFINE d == Disconnected(h, c)
  <2>2. /\ HubInvBut(d, c)
        /\ d.clients = Without(clients, {u})
        /\ Closes(h, d)
    BY <1>1, <2>1, DisconnectedTells
  <2>3. k = Dismissed(d, c)
    BY <1>2 DEF Ended
  <2>4. Becomes(k)
    OBVIOUS
  <2> HIDE DEF d, k
  <2>5. /\ HubInv(k)
        /\ k.clients = d.clients
        /\ Closes(d, k)
        /\ k.out[c].done
    BY <2>1, <2>2, <2>3, DismissedTells
  <2>6. Hub' = k
    BY <2>4, <2>5, BecomesHub DEF HubInv
  <2>7. /\ HubInv(Hub)'
        /\ Closes(Hub, Hub')
        /\ out'[c].done
        /\ DOMAIN clients' = DOMAIN clients \ gone
        /\ \A v \in DOMAIN clients' : clients'[v] = clients[v]
    <3>1. clients' = Without(clients, {u}) /\ out'[c].done
      BY <2>2, <2>4, <2>5 DEF Becomes
    <3>2. Closes(Hub, Hub') /\ HubInv(Hub)'
      BY <2>2, <2>5, <2>6 DEF Closes
    <3> HIDE DEF gone
    <3> QED BY <2>1, <3>1, <3>2 DEF Without
  <2>8. stage[c] # "command" /\ stage \in [Conn -> Stage]
    BY <2>1 DEF GateFree, SessionInv, TypeOK
  <2> HIDE DEF gone, c
  <2>9. DOMAIN clients' = DOMAIN clients \ {v \in DOMAIN clients : clients[v] = c}
    BY <2>7 DEF gone
  <2> QED BY <2>1, <2>7, <2>8, <2>9, SessionEnds DEF handlerVars, Served
<1>3. CASE u \notin DOMAIN clients
  <2>1. Becomes(h)
    BY <1>3 DEF Ended
  <2>2. Hub' = h /\ clients' = clients
    BY <1>1, <2>1, BecomesHub DEF Becomes
  <2>3. HubInv(Hub)' /\ Closes(Hub, Hub')
    BY <2>2
  <2> QED BY <2>2, <2>3, SessionsKept DEF SessionInv, TypeOK, handlerVars
<1> QED BY <1>2, <1>3

\* A queue that is written, or whose writer gives up.
LEMMA WriterKeeps ==
    ASSUME SessionInv, NEW c \in Conn, Writer(c)
    PROVE  SessionInv'
<1>1. HubInv(Hub) /\ IsOut(out) /\ IsOutbound(out[c])
  BY DEF SessionInv, HubInv, IsHub, IsOut, Hub
<1>2. /\ IsOut(out')
      /\ \A x \in Conn : ~ out'[x].done =>
            /\ ~ out[x].done
            /\ out'[x].roster = out[x].roster
            /\ out'[x].online = out[x].online
  <2>1. CASE Write(c)
    <3> DEFINE o == [out[c] EXCEPT !.queued = out[c].queued - 1]
    <3>1. out' = [out EXCEPT ![c] = o]
      BY <2>1 DEF Write
    <3>2. out[c].queued - 1 \in 0 .. QueueSize
      BY <1>1, <2>1, QueueSizeAssumption DEF Write, IsOutbound
    <3>3. /\ IsOutbound(o)
          /\ o.done = out[c].done /\ o.roster = out[c].roster
          /\ o.online = out[c].online
      BY <1>1, <3>2 DEF IsOutbound
    <3> HIDE DEF o
    <3> QED BY <1>1, <3>1, <3>3 DEF IsOut
  <2>2. CASE WriteFails(c)
    BY <1>1, <2>2, ClosedType DEF WriteFails, IsOut
  <2> QED BY <2>1, <2>2 DEF Writer
<1>3. HubInv(Hub)' /\ Closes(Hub, Hub')
  BY <1>1, <1>2, QueuesKeep DEF Writer, Write, WriteFails
<1> QED BY <1>3, SessionsKept
        DEF SessionInv, TypeOK, Writer, Write, WriteFails, handlerVars

\* A loop of the shutdown closes what it found.
LEMMA CloseEachKeeps ==
    ASSUME SessionInv, CloseEach
    PROVE  SessionInv'
<1>1. HubInv(Hub) /\ IsOut(out)
  BY DEF SessionInv, HubInv, IsHub, Hub
<1>2. /\ IsOut(out')
      /\ \A x \in Conn : ~ out'[x].done => out'[x] = out[x] /\ x \notin toClose
  BY <1>1, ClosedType DEF CloseEach, IsOut
<1>3. HubInv(Hub)' /\ Closes(Hub, Hub')
  BY <1>1, <1>2, QueuesKeep DEF CloseEach
<1>4. TypeOK'
  <2>1. HubTypeOK'
    BY <1>3, HubTypes, PTL
  <2> QED BY <2>1 DEF SessionInv, TypeOK, HubTypeOK, IsBuddies, handlerVars, CloseEach
<1>5. authed \subseteq Conn /\ \A x \in Conn : Live(x)' = Live(x)
  BY DEF SessionInv, TypeOK, CloseEach, Live
<1>6. HeldAreServed' /\ OpenAreHeld' /\ CommandsKeepSession'
  BY <1>2, <1>5
  DEF SessionInv, HeldAreServed, OpenAreHeld, CommandsKeepSession, CloseEach,
      handlerVars
<1>7. ShutdownClosing'
  BY <1>2
  DEF SessionInv, ShutdownClosing, Closing, Served, CloseEach, handlerVars
<1> QED BY <1>3, <1>4, <1>6, <1>7 DEF SessionInv

\* The other steps of the shutdown move nothing but what is to be closed.
LEMMA ShutdownKeeps ==
    ASSUME SessionInv, AcceptFails \/ CloseAll \/ CloseControl \/ Wait
    PROVE  SessionInv'
<1>1. UNCHANGED <<handlerVars, hubVars>>
  BY DEF AcceptFails, CloseAll, CloseControl, Wait
<1>2. Hub' = Hub
  BY <1>1 DEF hubVars, Hub
<1>3. HubInv(Hub)'
  BY <1>2 DEF SessionInv
<1>4. TypeOK'
  <2>1. toClose' \subseteq Conn
    BY DEF SessionInv, TypeOK, IsMap, Range, AcceptFails, CloseAll,
           CloseControl, Wait, Served
  <2> QED BY <1>1, <2>1
          DEF SessionInv, TypeOK, ShutdownStage, handlerVars, hubVars,
              AcceptFails, CloseAll, CloseControl, Wait
<1>5. HeldAreServed' /\ OpenAreHeld' /\ CommandsKeepSession'
  BY <1>1
  DEF SessionInv, HeldAreServed, OpenAreHeld, CommandsKeepSession, Live,
      handlerVars, hubVars
<1>6. ShutdownClosing'
  BY <1>1
  DEF SessionInv, ShutdownClosing, Closing, Served, handlerVars, hubVars,
      AcceptFails, CloseAll, CloseControl, Wait
<1> QED BY <1>3, <1>4, <1>5, <1>6 DEF SessionInv

\* Every step keeps the invariant.
LEMMA NextSession == SessionInv /\ [Next]_vars => SessionInv'
<1> SUFFICES ASSUME SessionInv, [Next]_vars PROVE SessionInv'
  OBVIOUS
<1>1. HubInv(Hub) /\ stage \in [Conn -> Stage]
  BY DEF SessionInv, TypeOK
<1>2. ASSUME NEW c \in Conn, Accept(c) PROVE SessionInv'
  BY <1>2, AcceptKeeps
<1>3. ASSUME NEW c \in Conn, Reader(c) PROVE SessionInv'
  <2>1. CASE Reject(c)
    <3>1. HubKept(Hub, Hub')
      BY <1>1, <2>1, NotesKeep DEF Reject
    <3> QED BY <1>1, <2>1, <3>1, SessionsKept DEF HubKept, Reject, handlerVars
  <2>2. CASE Authenticate(c)
    BY <2>2, AuthenticateKeeps
  <2>3. CASE BeginCommand(c)
    <3>1. Hub' = Hub
      BY <2>3 DEF BeginCommand, hubVars, Hub
    <3>2. HubInv(Hub)' /\ Closes(Hub, Hub')
      BY <1>1, <3>1 DEF Closes
    <3>3. /\ stage' \in [Conn -> Stage]
          /\ \A x \in Conn \ {c} : stage'[x] = stage[x]
          /\ stage[c] = "reading" /\ stage'[c] = "command"
      BY <1>1, <2>3 DEF BeginCommand, To, Stage
    <3> QED BY <2>3, <3>2, <3>3, SessionsKept DEF BeginCommand, InLoop, hubVars
  <2>4. CASE Leave(c)
    BY <2>4, LeaveKeeps
  <2> QED BY <1>3, <2>1, <2>2, <2>3, <2>4 DEF Reader
<1>4. ASSUME NEW c \in Conn, Handler(c) PROVE SessionInv'
  <2>1. CASE Command(c)
    <3>1. HubKept(Hub, Hub') /\ clients' = clients
      BY <2>1, CommandKeeps
    <3>2. stage[c] = "command" /\ To(c, "answering")
      BY <2>1
      DEF Command, JoinRoom, LeaveRoom, RoomChat, GameListChange, SetStatus,
          PlayerChat, BuddyAccept, BuddyRemove, Quiet, Running
    <3>3. /\ stage' \in [Conn -> Stage]
          /\ \A x \in Conn \ {c} : stage'[x] = stage[x]
          /\ stage'[c] = "answering"
      BY <1>1, <3>2 DEF To, Stage
    <3> QED BY <2>1, <3>1, <3>2, <3>3, SessionsKept DEF Command, HubKept, InLoop
  <2>2. CASE Answer(c)
    <3>1. IsOut(out)
      BY <1>1 DEF HubInv, IsHub, Hub
    <3> DEFINE answered == Sent(out, {c}, Note)
    <3>2. /\ IsOut(answered)
          /\ \A x \in Conn : ~ answered[x].done =>
                /\ ~ out[x].done
                /\ answered[x].roster = out[x].roster
                /\ answered[x].online = out[x].online
      BY <3>1, NoteSent
    <3>3. /\ IsOut(Sent(answered, {c}, Note))
          /\ \A x \in Conn : ~ Sent(answered, {c}, Note)[x].done =>
                /\ ~ answered[x].done
                /\ Sent(answered, {c}, Note)[x].roster = answered[x].roster
                /\ Sent(answered, {c}, Note)[x].online = answered[x].online
      BY <3>2, NoteSent
    <3>4. out' = answered \/ out' = Sent(answered, {c}, Note)
      BY <2>2 DEF Answer
    <3> HIDE DEF answered
    <3>5. HubInv(Hub)' /\ Closes(Hub, Hub')
      BY <1>1, <2>2, <3>2, <3>3, <3>4, QueuesKeep DEF Answer
    <3>6. /\ stage' \in [Conn -> Stage]
          /\ \A x \in Conn \ {c} : stage'[x] = stage[x]
          /\ stage[c] \in InLoop /\ stage'[c] = "reading"
      BY <1>1, <2>2 DEF Answer, To, Stage, InLoop
    <3> QED BY <2>2, <3>5, <3>6, SessionsKept DEF Answer, InLoop
  <2>3. CASE Forget(c)
    <3>1. Hub' = Hub
      BY <2>3 DEF Forget, hubVars, Hub
    <3>2. HubInv(Hub)' /\ Closes(Hub, Hub')
      BY <1>1, <3>1 DEF Closes
    <3>3. /\ stage' \in [Conn -> Stage]
          /\ \A x \in Conn \ {c} : stage'[x] = stage[x]
          /\ stage[c] = "draining" /\ stage'[c] = "gone"
      BY <1>1, <2>3 DEF Forget, To, Stage
    <3> QED BY <2>3, <3>2, <3>3, SessionsKept DEF Forget, InLoop, hubVars
  <2> QED BY <1>4, <2>1, <2>2, <2>3 DEF Handler
<1>5. ASSUME NEW c \in Conn, Writer(c) PROVE SessionInv'
  BY <1>5, WriterKeeps
<1>6. ASSUME NEW u \in User, AdminDisconnect(u) PROVE SessionInv'
  <2>1. Hub.clients = clients /\ Closes(Hub, Hub)
    BY HubFields DEF Closes
  <2>2. GateFree /\ Becomes(Ended(Hub, u)) /\ UNCHANGED <<handlerVars, serverVars>>
    BY <1>6 DEF AdminDisconnect
  <2> QED BY <1>1, <2>1, <2>2, EndedKeeps
<1>7. ASSUME NEW u \in User, AdminDeleteProfile(u) PROVE SessionInv'
  <2> DEFINE gone == [Hub EXCEPT !.deleted = Hub.deleted \union {u}]
             h == Unfriended(gone, {b \in buddies : u \in b})
  <2>1. IsBuddies(buddies \ {b \in buddies : u \in b}, deleted \union {u})
    BY <1>1, HubFields DEF HubInv, IsHub, IsBuddies
  <2>2. HubInv(h) /\ h.clients = clients /\ Closes(Hub, h)
    <3>1. {u} \in SUBSET User
      OBVIOUS
    <3>2. IsBuddies(Hub.buddies \ {b \in buddies : u \in b},
                    Hub.deleted \union {u})
      BY <2>1, HubFields
    <3>3. /\ HubInv(h)
          /\ h.clients = Hub.clients
          /\ h.deleted = Hub.deleted \union {u}
          /\ Closes(Hub, h)
      BY <1>1, <3>1, <3>2, UnfriendedTells
    <3> HIDE DEF h
    <3> QED BY <3>3, HubFields
  <2>3. GateFree /\ Becomes(Ended(h, u)) /\ UNCHANGED <<handlerVars, serverVars>>
    <3>1. [Hub EXCEPT !.deleted = @ \union {u}] = gone
      BY HubFields DEF Hub
    <3> QED BY <1>7, <3>1 DEF AdminDeleteProfile
  <2> HIDE DEF h
  <2> QED BY <2>2, <2>3, EndedKeeps
<1>8. CASE CloseEach
  BY <1>8, CloseEachKeeps
<1>9. CASE UNCHANGED vars
  BY <1>9, StoodStill
<1> QED BY <1>2, <1>3, <1>4, <1>5, <1>6, <1>7, <1>8, <1>9, ShutdownKeeps
        DEF Next, Stopped

\* The inductive invariant.
LEMMA SessionInvHolds == Spec => []SessionInv
BY InitSession, NextSession, PTL DEF Spec

-----------------------------------------------------------------------------
(* The theorems.                                                           *)

\* Every variable holds what its Go counterpart can hold; no queue outgrows
\* its channel.
THEOREM TypeCorrect == Spec => []TypeOK
<1>1. SessionInv => TypeOK
  BY DEF SessionInv
<1> QED BY <1>1, SessionInvHolds, PTL

\* The hub holds, online and in rooms, exactly the connections whose own
\* goroutine has still to disconnect them and that no newer one replaced.
THEOREM HubHoldsNoGhosts == Spec => []NoGhosts
<1>1. SessionInv => NoGhosts
  <2> SUFFICES ASSUME SessionInv PROVE NoGhosts
    OBVIOUS
  <2>1. /\ ClientsKeyed(Hub) /\ RoomsAgree(Hub) /\ MembersLive(Hub)
        /\ HeldAreServed /\ OpenAreHeld
    BY DEF SessionInv, HubInv
  <2> QED BY <2>1, HubFields
          DEF NoGhosts, ClientsKeyed, RoomsAgree, MembersLive, HeldAreServed,
              OpenAreHeld
<1> QED BY <1>1, SessionInvHolds, PTL

\* A command acts for the live session of its user until it returns.
THEOREM CommandsActForSession == Spec => []CommandsKeepSession
<1>1. SessionInv => CommandsKeepSession
  BY DEF SessionInv
<1> QED BY <1>1, SessionInvHolds, PTL

\* Whoever is in a room was told its roster last.
THEOREM RosterReaches == Spec => []RosterCurrent
<1>1. SessionInv => RosterCurrent
  <2> SUFFICES ASSUME SessionInv, NEW u \in DOMAIN userRoom
               PROVE  ~ out[clients[u]].done =>
                         out[clients[u]].roster =
                            RoomUpdated(userRoom[u], rooms[userRoom[u]])
    BY DEF RosterCurrent
  <2>1. userRoom[u] \in Room /\ u \in DOMAIN rooms[userRoom[u]]
    BY HubFields DEF SessionInv, HubInv, IsHub, IsMap, RoomsAgree
  <2>2. rooms[userRoom[u]][u] = clients[u]
    BY <2>1, HubFields DEF SessionInv, HubInv, MembersLive
  <2>3. RosterTold(Hub, userRoom[u])
    BY <2>1 DEF SessionInv, HubInv
  <2> QED BY <2>1, <2>2, <2>3, HubFields DEF RosterTold
<1> QED BY <1>1, SessionInvHolds, PTL

\* Whoever begins or ends a friendship meanwhile, what a connection was told
\* last of the presence of one who has been a buddy since is true, and of
\* others it was told nothing since.
THEOREM PresenceReaches == Spec => []PresenceCurrent
<1>1. SessionInv => PresenceCurrent
  BY HubFields DEF SessionInv, HubInv, PresenceTold, PresenceCurrent, Pair
<1> QED BY <1>1, SessionInvHolds, PTL

\* The loops of a shutdown leave no served connection open, whatever was
\* accepted or authenticated beside them.
THEOREM ShutdownCloses == Spec => []ShutdownReachesAll
<1>1. SessionInv => ShutdownReachesAll
  BY DEF SessionInv, ShutdownClosing, ShutdownReachesAll
<1> QED BY <1>1, SessionInvHolds, PTL
=============================================================================
