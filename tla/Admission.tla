----------------------------- MODULE Admission -----------------------------
(***************************************************************************)
(* How a control connection becomes the live connection of a user: guest   *)
(* names, registration, login, resumption, the reservations made on the    *)
(* way, resume tokens, renames, and the administrator who resets a         *)
(* password or deletes a profile meanwhile.                                *)
(*                                                                         *)
(* dispatchAuth (src/internal/app/control.go) runs one attempt per         *)
(* connection as a sequence of calls.  Each call into the hub holds h.mu,  *)
(* each call into the store is one transaction, and anything may happen    *)
(* between two calls: every call is one action, and conn[c].pc is where    *)
(* the attempt of connection c has got to.                                 *)
(*                                                                         *)
(* Display names stand for their normalized keys, credential stamps for    *)
(* the number of password resets before them.  Malformed requests, wrong   *)
(* passwords and unknown tokens are refused without a trace.  The          *)
(* database is assumed to answer when it only reads a profile.             *)
(*                                                                         *)
(* An operator whose name ends in Fault is a plausible bug in the          *)
(* definition that follows it.  No specification uses it; README.md says   *)
(* which property each one breaks.                                         *)
(***************************************************************************)
EXTENDS Integers, FiniteSets, GoMaps

CONSTANTS
    User,             \* ids of persistent profiles
    Guest,            \* guest ids NewGuest can draw
    Name,             \* display name keys
    Conn,             \* control connections (*controlClient pointers)
    Token,            \* resume tokens IssueSession can draw
    AccountsOf,       \* the profiles whose password or token a peer has
    InitialName,      \* the profiles stored before the server started
    MaxOnlinePlayers, \* cfg.MaxOnlinePlayers
    MaxProfiles,      \* cfg.MaxProfiles
    MaxResets,        \* bound: password resets per profile
    NoConn, NoUser, NoName, NoToken

Uid == User \union Guest

ASSUME GuestAssumption == Guest \intersect User = {}
ASSUME NullAssumption == /\ NoConn \notin Conn /\ NoUser \notin Uid
                         /\ NoName \notin Name /\ NoToken \notin Token
ASSUME AccountsOfAssumption == AccountsOf \in [Conn -> SUBSET User]
ASSUME InitialNameAssumption ==
    /\ IsMap(InitialName, User, Name)
    /\ \A u, v \in DOMAIN InitialName :
          InitialName[u] = InitialName[v] => u = v
ASSUME LimitAssumption == MaxOnlinePlayers \in Nat /\ MaxProfiles \in Nat
ASSUME MaxResetsAssumption == MaxResets \in Nat

VARIABLES
    profiles,             \* the profiles table: display name, credentials
    assigned,             \* ids the table's AUTOINCREMENT has given out
    clients,              \* h.clients
    displayOwners,        \* h.displayOwners
    pendingAdmissions,    \* h.pendingAdmissions
    pendingRegistrations, \* h.pendingRegistrations
    sessions,             \* h.sessions: the user of each token
    sessionByUser,        \* h.sessionByUser
    conn                  \* the attempt each connection has under way

storeVars == <<profiles, assigned>>
nameVars == <<displayOwners, pendingAdmissions, pendingRegistrations>>
sessionVars == <<sessions, sessionByUser>>
vars == <<storeVars, clients, nameVars, sessionVars, conn>>

-----------------------------------------------------------------------------
(* Types.                                                                  *)

Profile == [name: Name, stamp: 0 .. MaxResets]

\* Between two calls of dispatchAuth, by what the last one did.
Step == {"idle",         \* nothing yet, or refused: auth may be tried again
         "guest",        \* NewGuest
         "registering",  \* ReserveRegistration
         "refused",      \* store.Register, which failed
         "registered",   \* store.Register
         "verified",     \* store.Authenticate
         "reserved",     \* a reservation of the profile
         "issued",       \* IssueSession
         "revoked",      \* IssueSession or Connect, which failed
         "live"}         \* Connect: authentication is over

\* user and name are client.profile.  stamp is what the attempt was verified
\* against, token the token it resumed and then the one it was issued: local
\* variables of the call, NoToken again when it is over.
Attempt == [pc: Step, user: Uid \union {NoUser}, name: Name \union {NoName},
            stamp: 0 .. MaxResets, token: Token \union {NoToken}]

\* An attempt that was verified against nothing.
Unverified(pc, u, k) ==
    [pc |-> pc, user |-> u, name |-> k, stamp |-> 0, token |-> NoToken]

Idle == Unverified("idle", NoUser, NoName)

-----------------------------------------------------------------------------
(* Helpers.                                                                *)

Online == {u \in Uid : clients[u] # NoConn}

\* Reservations without a live connection are forgotten.
ReservedPlayerCountFault ==
    Cardinality(Online) + Cardinality(pendingRegistrations)

\* reservedPlayerCountLocked: a user who is online and on the way in again
\* counts once.
ReservedPlayerCount ==
    Cardinality(Online) + Cardinality(pendingRegistrations)
        + Cardinality(DOMAIN pendingAdmissions \ Online)

\* store.Find answers a profile, and it is not u's.
StoredForAnother(k, u) ==
    \E v \in DOMAIN profiles : profiles[v].name = k /\ v # u

OwnedByAnother(k, u) == k \in DOMAIN displayOwners /\ displayOwners[k] # u

\* A name being registered, or one that belongs to somebody else, is taken
\* for a free one.
CanReserveRegisteringFault(u, k) ==
    /\ \/ u \in Online \union DOMAIN pendingAdmissions
       \/ ReservedPlayerCount < MaxOnlinePlayers
    /\ ~ OwnedByAnother(k, u)
    /\ ~ StoredForAnother(k, u)

CanReserveOwnedFault(u, k) ==
    /\ \/ u \in Online \union DOMAIN pendingAdmissions
       \/ ReservedPlayerCount < MaxOnlinePlayers
    /\ k \notin pendingRegistrations
    /\ ~ StoredForAnother(k, u)

\* What reserveProfileLocked asks.
CanReserve(u, k) ==
    /\ \/ u \in Online \union DOMAIN pendingAdmissions
       \/ ReservedPlayerCount < MaxOnlinePlayers
    /\ k \notin pendingRegistrations
    /\ ~ OwnedByAnother(k, u)
    /\ ~ StoredForAnother(k, u)

\* What it does when the answer is yes.
Reserve(u, k) ==
    /\ displayOwners' = Put(displayOwners, k, u)
    /\ pendingAdmissions' = Put(pendingAdmissions, u, k)

\* The reservation an attempt made, or one just like it, is still there.
Admitted(c) ==
    /\ conn[c].user \in DOMAIN pendingAdmissions
    /\ pendingAdmissions[conn[c].user] = conn[c].name

Current(c) ==
    /\ conn[c].user \in DOMAIN profiles
    /\ profiles[conn[c].user].stamp = conn[c].stamp

At(c, pc) == conn[c].pc = pc

\* The answer that carries a token is sent when Connect has returned: nobody
\* knows the one an attempt has only been issued.
Unsent == {conn[c].token : c \in {d \in Conn : At(d, "issued")}}

Goto(c, pc) == conn' = [conn EXCEPT ![c].pc = pc]
Return(c, pc) == conn' = [conn EXCEPT ![c].pc = pc, ![c].token = NoToken]
GiveUp(c) == conn' = [conn EXCEPT ![c] = Idle]

\* revokeProfileSessionsLocked.
RevokeSessions(u) ==
    /\ sessions' = Without(sessions, {t \in DOMAIN sessions : sessions[t] = u})
    /\ sessionByUser' = Without(sessionByUser, {u})

-----------------------------------------------------------------------------
(* auth.guest.                                                             *)

\* NewGuest: of 63 random bits none come up while another attempt or
\* connection of theirs exists.
NewGuest(c, u, k) ==
    /\ At(c, "idle")
    /\ clients[u] = NoConn
    /\ \A d \in Conn : conn[d].user # u
    /\ conn' = [conn EXCEPT ![c] = Unverified("guest", u, k)]
    /\ UNCHANGED <<storeVars, clients, nameVars, sessionVars>>

ReserveProfile(c) ==
    /\ At(c, "guest")
    /\ \/ /\ CanReserve(conn[c].user, conn[c].name)
          /\ Reserve(conn[c].user, conn[c].name)
          /\ Goto(c, "reserved")
       \/ /\ ~ CanReserve(conn[c].user, conn[c].name)
          /\ GiveUp(c)
          /\ UNCHANGED <<displayOwners, pendingAdmissions>>
    /\ UNCHANGED <<storeVars, clients, pendingRegistrations, sessionVars>>

-----------------------------------------------------------------------------
(* auth.register.                                                          *)

\* ReserveRegistration.
ReserveRegistration(c, k) ==
    /\ At(c, "idle")
    /\ ReservedPlayerCount < MaxOnlinePlayers
    /\ k \notin pendingRegistrations
    /\ k \notin DOMAIN displayOwners
    /\ \A u \in DOMAIN profiles : profiles[u].name # k
    /\ pendingRegistrations' = pendingRegistrations \union {k}
    /\ conn' = [conn EXCEPT ![c] = Unverified("registering", NoUser, k)]
    /\ UNCHANGED <<storeVars, clients, displayOwners, pendingAdmissions,
                   sessionVars>>

\* registerWithCredentialStamp: a username that is taken, a full table or a
\* database error fails it.
Register(c) ==
    /\ At(c, "registering")
    /\ \/ \E u \in AccountsOf[c] \ assigned :
             /\ Cardinality(DOMAIN profiles) < MaxProfiles
             /\ \A v \in DOMAIN profiles : profiles[v].name # conn[c].name
             /\ profiles' = Put(profiles, u, [name |-> conn[c].name, stamp |-> 0])
             /\ assigned' = assigned \union {u}
             /\ conn' = [conn EXCEPT ![c].pc = "registered", ![c].user = u]
       \/ /\ Goto(c, "refused")
          /\ UNCHANGED storeVars
    /\ UNCHANGED <<clients, nameVars, sessionVars>>

ReleaseRegistration(c) ==
    /\ At(c, "refused")
    /\ pendingRegistrations' = pendingRegistrations \ {conn[c].name}
    /\ GiveUp(c)
    /\ UNCHANGED <<storeVars, clients, displayOwners, pendingAdmissions,
                   sessionVars>>

\* CommitRegistration: refused if the credentials or the profile changed
\* meanwhile; a database error has the same effect.
CommitRegistration(c) ==
    LET u == conn[c].user
        k == conn[c].name
    IN  /\ At(c, "registered")
        /\ pendingRegistrations' = pendingRegistrations \ {k}
        /\ \/ /\ Current(c)
              /\ profiles[u].name = k
              /\ Reserve(u, k)
              /\ Goto(c, "reserved")
           \/ /\ GiveUp(c)
              /\ UNCHANGED <<displayOwners, pendingAdmissions>>
        /\ UNCHANGED <<storeVars, clients, sessionVars>>

-----------------------------------------------------------------------------
(* auth.login.                                                             *)

\* authenticateWithCredentialStamp, outside h.mu: the profile is read once,
\* the derivation of the password takes its time.
Authenticate(c, u) ==
    /\ At(c, "idle")
    /\ u \in AccountsOf[c]
    /\ u \in DOMAIN profiles
    /\ conn' = [conn EXCEPT ![c] =
          [pc |-> "verified", user |-> u, name |-> profiles[u].name,
           stamp |-> profiles[u].stamp, token |-> NoToken]]
    /\ UNCHANGED <<storeVars, clients, nameVars, sessionVars>>

\* The credentials are not looked at again.
ReserveAuthenticatedFault(c) ==
    LET u == conn[c].user
        k == conn[c].name
    IN  /\ At(c, "verified")
        /\ \/ /\ CanReserve(u, k)
              /\ Reserve(u, k)
              /\ Goto(c, "reserved")
           \/ /\ GiveUp(c)
              /\ UNCHANGED <<displayOwners, pendingAdmissions>>
        /\ UNCHANGED <<storeVars, clients, pendingRegistrations, sessionVars>>

\* reserveAuthenticatedProfile: refused if the credentials changed since,
\* or on a database error.
ReserveAuthenticated(c) ==
    LET u == conn[c].user
        k == conn[c].name
    IN  /\ At(c, "verified")
        /\ \/ /\ Current(c)
              /\ CanReserve(u, k)
              /\ Reserve(u, k)
              /\ Goto(c, "reserved")
           \/ /\ GiveUp(c)
              /\ UNCHANGED <<displayOwners, pendingAdmissions>>
        /\ UNCHANGED <<storeVars, clients, pendingRegistrations, sessionVars>>

-----------------------------------------------------------------------------
(* auth.resume.                                                            *)

\* ResumeAndReserve: the profile as the store has it now is reserved, and
\* the token is gone; a refused reservation keeps it.
ResumeAndReserve(c, t) ==
    LET u == sessions[t]
    IN  /\ At(c, "idle")
        /\ t \in DOMAIN sessions \ Unsent
        /\ u \in AccountsOf[c]
        /\ \/ /\ u \in DOMAIN profiles
              /\ CanReserve(u, profiles[u].name)
              /\ Reserve(u, profiles[u].name)
              /\ conn' = [conn EXCEPT ![c] =
                    [pc |-> "reserved", user |-> u, name |-> profiles[u].name,
                     stamp |-> profiles[u].stamp, token |-> t]]
           \/ /\ u \notin DOMAIN profiles
              /\ UNCHANGED <<displayOwners, pendingAdmissions, conn>>
        /\ sessions' = Without(sessions, {t})
        /\ sessionByUser' = IF u \in DOMAIN sessionByUser /\ sessionByUser[u] = t
                            THEN Without(sessionByUser, {u})
                            ELSE sessionByUser
        /\ UNCHANGED <<storeVars, clients, pendingRegistrations>>

\* A token runs out.  Whatever reads the sessions prunes them first.
SessionExpires(t) ==
    LET u == sessions[t]
    IN  /\ t \in DOMAIN sessions
        /\ sessions' = Without(sessions, {t})
        /\ sessionByUser' = IF u \in DOMAIN sessionByUser /\ sessionByUser[u] = t
                            THEN Without(sessionByUser, {u})
                            ELSE sessionByUser
        /\ UNCHANGED <<storeVars, clients, nameVars, conn>>

-----------------------------------------------------------------------------
(* The end of every attempt.                                               *)

\* The previous token of the profile stays valid.
RotatedFault(u, t) == Put(sessions, t, u)

\* The sessions after u was given the token t.
Rotated(u, t) ==
    Put(Without(sessions, IF u \in DOMAIN sessionByUser
                          THEN {sessionByUser[u]} ELSE {}), t, u)

\* What a token of 256 random bits is never equal to again.
Referred == DOMAIN sessions \union {conn[c].token : c \in Conn}

\* Guests get a token too.
IssueSessionFault(c) ==
    LET u == conn[c].user
    IN  /\ At(c, "reserved")
        /\ \E t \in Token \ Referred :
              /\ Admitted(c)
              /\ sessions' = Rotated(u, t)
              /\ sessionByUser' = Put(sessionByUser, u, t)
              /\ conn' = [conn EXCEPT ![c].pc = "issued", ![c].token = t]
        /\ UNCHANGED <<storeVars, clients, nameVars>>

\* IssueSession, for persistent profiles.
IssueSession(c) ==
    LET u == conn[c].user
    IN  /\ At(c, "reserved")
        /\ u \in User
        /\ \/ \E t \in Token \ Referred :
                 /\ Admitted(c)
                 /\ sessions' = Rotated(u, t)
                 /\ sessionByUser' = Put(sessionByUser, u, t)
                 /\ conn' = [conn EXCEPT ![c].pc = "issued", ![c].token = t]
           \/ /\ ~ Admitted(c)
              /\ Return(c, "revoked")
              /\ UNCHANGED sessionVars
        /\ UNCHANGED <<storeVars, clients, nameVars>>

\* The reservation outlives the admission.
ConnectFault(c) ==
    LET u == conn[c].user
    IN  /\ \/ At(c, "issued")
           \/ At(c, "reserved") /\ u \in Guest
        /\ \/ /\ Admitted(c)
              /\ clients' = [clients EXCEPT ![u] = c]
              /\ Return(c, "live")
              /\ UNCHANGED sessionVars
           \/ /\ ~ Admitted(c)
              /\ RevokeSessions(u)
              /\ Return(c, "revoked")
              /\ UNCHANGED clients
        /\ UNCHANGED <<storeVars, nameVars>>

\* Connect.  A connection it replaces is closed and finds out by itself.
Connect(c) ==
    LET u == conn[c].user
    IN  /\ \/ At(c, "issued")
           \/ At(c, "reserved") /\ u \in Guest
        /\ \/ /\ Admitted(c)
              /\ pendingAdmissions' = Without(pendingAdmissions, {u})
              /\ clients' = [clients EXCEPT ![u] = c]
              /\ Return(c, "live")
              /\ UNCHANGED sessionVars
           \/ /\ ~ Admitted(c)
              /\ RevokeSessions(u)
              /\ Return(c, "revoked")
              /\ UNCHANGED <<pendingAdmissions, clients>>
        /\ UNCHANGED <<storeVars, displayOwners, pendingRegistrations>>

\* ReleaseProfileReservation, a call of its own after the one that failed.
ReleaseProfileReservation(c) ==
    LET u == conn[c].user
        k == conn[c].name
    IN  /\ At(c, "revoked")
        /\ pendingAdmissions' = IF Admitted(c)
                                THEN Without(pendingAdmissions, {u})
                                ELSE pendingAdmissions
        /\ displayOwners' = IF /\ u \notin Online
                               /\ k \in DOMAIN displayOwners
                               /\ displayOwners[k] = u
                            THEN Without(displayOwners, {k})
                            ELSE displayOwners
        /\ GiveUp(c)
        /\ UNCHANGED <<storeVars, clients, pendingRegistrations, sessionVars>>

-----------------------------------------------------------------------------
(* Live connections.                                                       *)

\* The owners after the user of c has taken the name k.
NewOwners(c, k) ==
    LET u == conn[c].user
        old == conn[c].name
    IN  Put(IF old \in DOMAIN displayOwners /\ displayOwners[old] = u
            THEN Without(displayOwners, {old}) ELSE displayOwners, k, u)

\* updateProfile of the live connection of its user.
UpdateProfile(c, k) ==
    LET u == conn[c].user
    IN  /\ At(c, "live")
        /\ clients[u] = c
        /\ k \notin pendingRegistrations
        /\ ~ OwnedByAnother(k, u)
        /\ ~ StoredForAnother(k, u)
        /\ profiles' = IF u \in User THEN [profiles EXCEPT ![u].name = k]
                       ELSE profiles
        /\ displayOwners' = NewOwners(c, k)
        /\ conn' = [conn EXCEPT ![c].name = k]
        /\ UNCHANGED <<assigned, clients, pendingAdmissions,
                       pendingRegistrations, sessionVars>>

\* What disconnectLocked does to the names.
DisconnectLocked(u) ==
    /\ clients' = [clients EXCEPT ![u] = NoConn]
    /\ displayOwners' = Without(displayOwners, {conn[clients[u]].name})

\* The read loop of a connection ends: serveClient calls Disconnect, which
\* does nothing for a connection that is not its user's any more.  c then
\* stands for the next socket.
Disconnect(c) ==
    LET u == conn[c].user
    IN  /\ At(c, "live")
        /\ \/ clients[u] = c /\ DisconnectLocked(u)
           \/ clients[u] # c /\ UNCHANGED <<clients, displayOwners>>
        /\ GiveUp(c)
        /\ UNCHANGED <<storeVars, pendingAdmissions, pendingRegistrations,
                       sessionVars>>

-----------------------------------------------------------------------------
(* Administration.                                                         *)

AdminDisconnect(u) ==
    /\ u \in Online
    /\ DisconnectLocked(u)
    /\ UNCHANGED <<storeVars, pendingAdmissions, pendingRegistrations,
                   sessionVars, conn>>

\* revokeProfileAccessLocked that leaves the pending admission,
RevokeProfileAccessFault(u) ==
    /\ RevokeSessions(u)
    /\ clients' = [clients EXCEPT ![u] = NoConn]
    /\ displayOwners' = Without(displayOwners,
          IF u \in Online THEN {conn[clients[u]].name} ELSE {})
    /\ UNCHANGED pendingAdmissions

\* revokeProfileAccessLocked.
RevokeProfileAccess(u) ==
    LET owners == Without(displayOwners,
                      IF u \in Online THEN {conn[clients[u]].name} ELSE {})
        k == pendingAdmissions[u]
    IN  /\ RevokeSessions(u)
        /\ clients' = [clients EXCEPT ![u] = NoConn]
        /\ pendingAdmissions' = Without(pendingAdmissions, {u})
        /\ displayOwners' = IF /\ u \in DOMAIN pendingAdmissions
                               /\ k \in DOMAIN owners
                               /\ owners[k] = u
                            THEN Without(owners, {k})
                            ELSE owners

AdminResetPassword(u) ==
    /\ u \in DOMAIN profiles
    /\ profiles[u].stamp < MaxResets
    /\ profiles' = [profiles EXCEPT ![u].stamp = @ + 1]
    /\ RevokeProfileAccess(u)
    /\ UNCHANGED <<assigned, pendingRegistrations, conn>>

AdminDeleteProfile(u) ==
    /\ u \in DOMAIN profiles
    /\ profiles' = Without(profiles, {u})
    /\ RevokeProfileAccess(u)
    /\ UNCHANGED <<assigned, pendingRegistrations, conn>>

-----------------------------------------------------------------------------

Init ==
    /\ profiles = [u \in DOMAIN InitialName |->
                     [name |-> InitialName[u], stamp |-> 0]]
    /\ assigned = DOMAIN InitialName
    /\ clients = [u \in Uid |-> NoConn]
    /\ displayOwners = EmptyMap
    /\ pendingAdmissions = EmptyMap
    /\ pendingRegistrations = {}
    /\ sessions = EmptyMap
    /\ sessionByUser = EmptyMap
    /\ conn = [c \in Conn |-> Idle]

\* The next call of an attempt under way.
Advance(c) ==
    \/ ReserveProfile(c)
    \/ Register(c) \/ ReleaseRegistration(c) \/ CommitRegistration(c)
    \/ ReserveAuthenticated(c)
    \/ IssueSession(c) \/ Connect(c) \/ ReleaseProfileReservation(c)

Next ==
    \/ \E c \in Conn :
          \/ Advance(c)
          \/ \E u \in Guest, k \in Name : NewGuest(c, u, k)
          \/ \E k \in Name : ReserveRegistration(c, k) \/ UpdateProfile(c, k)
          \/ \E u \in User : Authenticate(c, u)
          \/ \E t \in Token : ResumeAndReserve(c, t)
          \/ Disconnect(c)
    \/ \E t \in Token : SessionExpires(t)
    \/ \E u \in Uid : AdminDisconnect(u)
    \/ \E u \in User : AdminResetPassword(u) \/ AdminDeleteProfile(u)

Spec == Init /\ [][Next]_vars

\* A connection does not rename a profile while another one is being admitted
\* to it: hub.go does not ask for this, and README.md tells what happens to
\* the names without it.
RenamesAlone ==
    \A c \in Conn, k \in Name :
        UpdateProfile(c, k) =>
           \A d \in Conn \ {c} :
              conn[d].pc \in {"verified", "reserved", "issued"} =>
                 conn[d].user # conn[c].user

OrderlySpec == Init /\ [][Next /\ RenamesAlone]_vars

\* The goroutine of a connection runs dispatchAuth to its end; what it
\* calls neither waits for a peer nor loops.
FairSpec == Spec /\ \A c \in Conn : WF_vars(Advance(c))

-----------------------------------------------------------------------------
(* Type invariant.                                                         *)

\* Every variable holds a value of the Go type it models.
TypeOK ==
    /\ IsMap(profiles, User, Profile)
    /\ DOMAIN profiles \subseteq assigned
    /\ assigned \subseteq User
    /\ clients \in [Uid -> Conn \union {NoConn}]
    /\ IsMap(displayOwners, Name, Uid)
    /\ IsMap(pendingAdmissions, Uid, Name)
    /\ pendingRegistrations \subseteq Name
    /\ IsMap(sessions, Token, User)
    /\ IsMap(sessionByUser, User, Token)
    /\ conn \in [Conn -> Attempt]

-----------------------------------------------------------------------------
(* Safety.                                                                 *)

\* Players online, players on their way in and registrations under way
\* never exceed the limit together, so nobody is admitted past it: Connect
\* and CommitRegistration count nobody any more.
WithinPlayerLimit == ReservedPlayerCount <= MaxOnlinePlayers

\* "Persistent profiles receive at most one live resume token"
\* (docs/PROTOCOL.md:209): the two session maps mirror each other through
\* rotation, expiry, resumption and revocation.
OneTokenPerProfile ==
    /\ \A t \in DOMAIN sessions :
          /\ sessions[t] \in DOMAIN sessionByUser
          /\ sessionByUser[sessions[t]] = t
    /\ \A u \in DOMAIN sessionByUser :
          /\ sessionByUser[u] \in DOMAIN sessions
          /\ sessions[sessionByUser[u]] = u

\* A deleted profile has no way in and nobody inside: no live connection,
\* no admission on its way and no token, whichever call of an attempt the
\* deletion came between.
AccessNeedsProfile ==
    \A u \in User :
        \/ u \in Online
        \/ u \in DOMAIN pendingAdmissions
        \/ \E t \in DOMAIN sessions : sessions[t] = u
        => u \in DOMAIN profiles

\* Every reservation is some attempt's that was verified against the
\* credentials the profile has now: whichever attempt it was made for, using
\* it admits nobody a reset or deletion has shut out.
ReservationsVerified ==
    \A u \in DOMAIN pendingAdmissions :
       \E c \in Conn :
          /\ conn[c].pc \in {"reserved", "issued"}
          /\ conn[c].user = u
          /\ conn[c].name = pendingAdmissions[u]
          /\ u \in User => Current(c)

\* The name of a registration under way belongs to nobody else until the
\* profile is committed, so a persisted account is never refused its name.
RegistrationHoldsName ==
    \A c \in Conn :
        conn[c].pc \in {"registering", "refused", "registered"} =>
           /\ conn[c].name \in pendingRegistrations
           /\ conn[c].name \notin DOMAIN displayOwners
           /\ ~ StoredForAnother(conn[c].name, conn[c].user)
           /\ \A d \in Conn \ {c} :
                 conn[d].pc \in {"registering", "refused", "registered"} =>
                    conn[d].name # conn[c].name

\* A name that is taken is in use: its user is online with it or about to
\* be, and it is free again as soon as he is not.
NamesComeBack ==
    \A k \in DOMAIN displayOwners :
       LET u == displayOwners[k]
       IN  \/ u \in Online /\ conn[clients[u]].name = k
           \/ u \in DOMAIN pendingAdmissions /\ pendingAdmissions[u] = k

\* Users that one peer at most can authenticate as, guests among them.
Unshared(u) ==
    \A c, d \in Conn : u \in AccountsOf[c] \intersect AccountsOf[d] => c = d

\* displayOwners has the name of everybody who is online.
OnlineOwn ==
    \A u \in Online : Unshared(u) =>
       LET k == conn[clients[u]].name
       IN  k \in DOMAIN displayOwners /\ displayOwners[k] = u

\* A name is given to one user at a time and comes back: a registration has
\* it to itself while the store writes the profile, a user as long as he is
\* online, and nobody any longer.  OnlineOwn is stated for users whom one peer
\* has: an older connection that ends takes along the name of a newer one of
\* its user that is on its way (hub.go:361).
NamesAreHeld == RegistrationHoldsName /\ OnlineOwn /\ NamesComeBack

\* No two users are online under one name, and none under a name that the
\* store keeps for another profile.
LiveNamesDistinct ==
    \A u \in Online :
        LET k == conn[clients[u]].name
        IN  /\ ~ StoredForAnother(k, u)
            /\ \A v \in Online \ {u} : conn[clients[v]].name # k

-----------------------------------------------------------------------------
(* Action properties.                                                      *)

\* Whoever is admitted to a profile was verified against the credentials
\* the profile has now: "Resetting or deleting a profile revokes saved
\* resume credentials, pending admissions, and any active connection for
\* that account" (README.md:274).  Where several peers have the profile a
\* reservation serves any of them, see ReservationsVerified.
AdmittedAreCurrent ==
    [][\A c \in Conn :
          /\ conn[c].pc # "live" /\ conn'[c].pc = "live"
          /\ conn'[c].user \in User /\ Unshared(conn'[c].user)
          => Current(c)]_vars

-----------------------------------------------------------------------------
(* Liveness.                                                               *)

\* No reservation outlives its attempt: an admission that was reserved is
\* taken or withdrawn.
AdmissionsResolve ==
    \A u \in Uid :
        u \in DOMAIN pendingAdmissions ~> u \notin DOMAIN pendingAdmissions

\* No registration blocks its name for good.
RegistrationsResolve ==
    \A k \in Name : k \in pendingRegistrations ~> k \notin pendingRegistrations

\* An attempt gives back what it reserved, however it ends.
AttemptsResolve == AdmissionsResolve /\ RegistrationsResolve
=============================================================================
