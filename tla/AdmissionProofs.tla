-------------------------- MODULE AdmissionProofs --------------------------
(***************************************************************************)
(* Proofs about Admission, for any number of profiles, guests, names,      *)
(* connections and tokens.                                                 *)
(*                                                                         *)
(* Types, access, tokens, the names of registrations, the player limit and *)
(* the credentials behind every reservation hold whatever the peers know   *)
(* and however many connections share a profile.  The names of users hold  *)
(* for OrderlySpec, whose one restriction is RenamesAlone;                 *)
(* MCAdmission_duplicate.cfg shows what happens without it.  The argument: *)
(* everybody who is on his way to a profile, or online with it, has the    *)
(* name the store has (NamesStored), and a rename reaches all of them;     *)
(* names of guests are protected by displayOwners (GuestsHold), which      *)
(* never holds a name that is stored for somebody else (OwnersStored).     *)
(***************************************************************************)
EXTENDS Admission, FiniteSetTheorems, TLAPS

-----------------------------------------------------------------------------
(* Maps.                                                                   *)

\* Storing a value of the right type keeps a map a map.
LEMMA PutMap ==
    ASSUME NEW S, NEW T, NEW f, IsMap(f, S, T), NEW k \in S, NEW v \in T
    PROVE  IsMap(Put(f, k, v), S, T)
BY DEF IsMap, Put

\* Deleting keys keeps a map a map.
LEMMA WithoutMap ==
    ASSUME NEW S, NEW T, NEW f, IsMap(f, S, T), NEW D
    PROVE  IsMap(Without(f, D), S, T)
BY DEF IsMap, Without

\* What a lookup finds.
LEMMA MapValue ==
    ASSUME NEW S, NEW T, NEW f, IsMap(f, S, T), NEW k \in DOMAIN f
    PROVE  k \in S /\ f[k] \in T
BY DEF IsMap

-----------------------------------------------------------------------------
(* Type correctness.                                                       *)

\* What the calls before it have left in the attempt: TypeOK alone does not
\* say that the name a call reserves is one.
WellNamed(x) ==
    /\ x.pc # "idle" => x.name \in Name
    /\ x.pc \notin {"idle", "registering", "refused"} => x.user \in Uid
    /\ x.pc \in {"registered", "verified", "issued"} => x.user \in User
    /\ x.pc = "guest" => x.user \in Guest

\* The inductive invariant, by groups of variables.
StoreOK ==
    /\ IsMap(profiles, User, Profile)
    /\ DOMAIN profiles \subseteq assigned
    /\ assigned \subseteq User
NamesOK ==
    /\ IsMap(displayOwners, Name, Uid)
    /\ IsMap(pendingAdmissions, Uid, Name)
    /\ pendingRegistrations \subseteq Name
SessionsOK ==
    /\ IsMap(sessions, Token, User)
    /\ IsMap(sessionByUser, User, Token)
ClientsOK == clients \in [Uid -> Conn \union {NoConn}]
ConnOK ==
    /\ conn \in [Conn -> Attempt]
    /\ \A c \in Conn : WellNamed(conn[c])

TypeInv == StoreOK /\ NamesOK /\ SessionsOK /\ ClientsOK /\ ConnOK

\* A variable that keeps its value keeps its type.
LEMMA SameStore == ASSUME StoreOK, UNCHANGED storeVars PROVE StoreOK'
BY DEF StoreOK, storeVars, IsMap

\* A step that does not touch a part keeps the type of that part.
LEMMA SameNames == ASSUME NamesOK, UNCHANGED nameVars PROVE NamesOK'
BY DEF NamesOK, nameVars, IsMap

\* And so for the sessions,
LEMMA SameSessions == ASSUME SessionsOK, UNCHANGED sessionVars PROVE SessionsOK'
BY DEF SessionsOK, sessionVars, IsMap

\* the clients
LEMMA SameClients == ASSUME ClientsOK, UNCHANGED clients PROVE ClientsOK'
BY DEF ClientsOK

\* and the attempts.
LEMMA SameConn == ASSUME ConnOK, UNCHANGED conn PROVE ConnOK'
BY DEF ConnOK

\* An attempt becomes another one,
LEMMA MoveConn ==
    ASSUME ConnOK, NEW c \in Conn, NEW x \in Attempt, WellNamed(x),
           conn' = [conn EXCEPT ![c] = x]
    PROVE  ConnOK'
<1>1. conn' \in [Conn -> Attempt] BY DEF ConnOK
<1>2. \A d \in Conn : conn'[d] = IF d = c THEN x ELSE conn[d]
  BY DEF ConnOK
<1>3. \A d \in Conn : WellNamed(conn'[d]) BY <1>2 DEF ConnOK
<1> QED BY <1>1, <1>3 DEF ConnOK

\* is given up,
LEMMA GiveUpConn == ASSUME ConnOK, NEW c \in Conn, GiveUp(c) PROVE ConnOK'
<1>1. Idle \in Attempt /\ WellNamed(Idle)
  BY MaxResetsAssumption DEF Idle, Unverified, Attempt, Step, WellNamed
<1> QED BY <1>1, MoveConn DEF GiveUp

\* or reaches its next call, of which the users must be known.
LEMMA GotoConn ==
    ASSUME ConnOK, NEW c \in Conn, NEW pc \in Step \ {"guest"}, Goto(c, pc),
           conn[c].pc # "idle",
           pc \notin {"idle", "registering", "refused"} => conn[c].user \in Uid,
           pc \in {"registered", "verified", "issued"} => conn[c].user \in User
    PROVE  ConnOK'
<1> DEFINE x == [conn[c] EXCEPT !.pc = pc]
<1>1. conn[c] \in Attempt /\ conn[c].name \in Name
  BY DEF ConnOK, WellNamed
<1>2. x \in Attempt /\ WellNamed(x)
  BY <1>1 DEF Attempt, WellNamed
<1>3. conn' = [conn EXCEPT ![c] = x]
  BY DEF Goto
<1> QED BY <1>2, <1>3, MoveConn

\* reserveProfileLocked writes a name and a user.
LEMMA ReserveType ==
    ASSUME NamesOK, NEW u \in Uid, NEW k \in Name, Reserve(u, k),
           pendingRegistrations' \subseteq pendingRegistrations
    PROVE  NamesOK'
<1>1. IsMap(displayOwners', Name, Uid)
  BY PutMap DEF NamesOK, Reserve
<1>2. IsMap(pendingAdmissions', Uid, Name)
  BY PutMap DEF NamesOK, Reserve
<1> QED BY <1>1, <1>2 DEF NamesOK

\* revokeProfileSessionsLocked only deletes tokens.
LEMMA RevokeSessionsType ==
    ASSUME SessionsOK, NEW u, RevokeSessions(u)
    PROVE  SessionsOK'
<1>1. IsMap(sessions', Token, User)
  BY WithoutMap DEF SessionsOK, RevokeSessions
<1>2. IsMap(sessionByUser', User, Token)
  BY WithoutMap DEF SessionsOK, RevokeSessions
<1> QED BY <1>1, <1>2 DEF SessionsOK

\* A token that goes, with or without its entry in sessionByUser.
LEMMA DropTokenType ==
    ASSUME SessionsOK, NEW t, NEW u,
           sessions' = Without(sessions, {t}),
           sessionByUser' \in {sessionByUser, Without(sessionByUser, {u})}
    PROVE  SessionsOK'
<1>1. IsMap(sessions', Token, User)
  BY WithoutMap DEF SessionsOK
<1>2. IsMap(Without(sessionByUser, {u}), User, Token)
  BY WithoutMap DEF SessionsOK
<1>3. IsMap(sessionByUser', User, Token)
  <2>1. CASE sessionByUser' = sessionByUser
    BY <2>1 DEF SessionsOK
  <2>2. CASE sessionByUser' = Without(sessionByUser, {u})
    BY <1>2, <2>2
  <2> QED BY <2>1, <2>2
<1> QED BY <1>1, <1>3 DEF SessionsOK

\* revokeProfileAccessLocked.
LEMMA RevokeProfileAccessType ==
    ASSUME NamesOK, SessionsOK, ClientsOK, NEW u \in User,
           RevokeProfileAccess(u), UNCHANGED pendingRegistrations
    PROVE  NamesOK' /\ SessionsOK' /\ ClientsOK'
<1> DEFINE D == IF u \in Online THEN {conn[clients[u]].name} ELSE {}
           owners == Without(displayOwners, D)
           k == pendingAdmissions[u]
<1>1. SessionsOK'
  BY RevokeSessionsType DEF RevokeProfileAccess
<1>2. ClientsOK'
  BY DEF RevokeProfileAccess, ClientsOK, Uid
<1>3. IsMap(pendingAdmissions', Uid, Name)
  BY WithoutMap DEF RevokeProfileAccess, NamesOK
<1>4. IsMap(owners, Name, Uid) /\ IsMap(Without(owners, {k}), Name, Uid)
  BY WithoutMap DEF NamesOK
<1>5. IsMap(displayOwners', Name, Uid)
  <2>1. displayOwners' = owners \/ displayOwners' = Without(owners, {k})
    BY DEF RevokeProfileAccess
  <2> HIDE DEF owners
  <2> QED BY <1>4, <2>1
<1>6. NamesOK'
  BY <1>3, <1>5 DEF NamesOK
<1> QED BY <1>1, <1>2, <1>6

\* disconnectLocked.
LEMMA DisconnectLockedType ==
    ASSUME NamesOK, ClientsOK, NEW u \in Uid, DisconnectLocked(u),
           UNCHANGED <<pendingAdmissions, pendingRegistrations>>
    PROVE  NamesOK' /\ ClientsOK'
<1>1. IsMap(displayOwners', Name, Uid)
  BY WithoutMap DEF NamesOK, DisconnectLocked
<1>2. ClientsOK'
  BY DEF ClientsOK, DisconnectLocked
<1>3. IsMap(pendingAdmissions', Uid, Name)
  BY DEF NamesOK, IsMap
<1> QED BY <1>1, <1>2, <1>3 DEF NamesOK

\* Every call of an attempt preserves the types.
\* An attempt that gets a token, or loses the one it has.
Told(c, pc, t) == conn' = [conn EXCEPT ![c].pc = pc, ![c].token = t]

LEMMA ToldConn ==
    ASSUME ConnOK, NEW c \in Conn, NEW pc \in {"issued", "revoked", "live"},
           NEW t \in Token \union {NoToken}, Told(c, pc, t),
           conn[c].pc # "idle", conn[c].user \in Uid,
           pc = "issued" => conn[c].user \in User
    PROVE  ConnOK'
<1> DEFINE x == [conn[c] EXCEPT !.pc = pc, !.token = t]
<1>1. conn[c] \in Attempt /\ conn[c].name \in Name
  BY DEF ConnOK, WellNamed
<1>2. x \in Attempt /\ WellNamed(x)
  BY <1>1 DEF Attempt, WellNamed, Step
<1>3. conn' = [conn EXCEPT ![c] = x]
  BY <1>1 DEF Told, Attempt
<1> QED BY <1>2, <1>3, MoveConn

LEMMA ReturnConn ==
    ASSUME ConnOK, NEW c \in Conn, NEW pc \in {"revoked", "live"}, Return(c, pc),
           conn[c].pc # "idle", conn[c].user \in Uid
    PROVE  ConnOK'
<1>1. Told(c, pc, NoToken) BY DEF Return, Told
<1> QED BY <1>1, ToldConn

\* The calls of an attempt preserve the types.
LEMMA TypeAdvance ==
    ASSUME TypeInv, NEW c \in Conn, Advance(c)
    PROVE  TypeInv'
<1> USE DEF TypeInv, At
<1> DEFINE u == conn[c].user
           k == conn[c].name
<1>0. conn[c] \in Attempt /\ WellNamed(conn[c])
  BY DEF ConnOK
<1>1. ASSUME ReserveProfile(c) PROVE TypeInv'
  <2>1. u \in Uid /\ k \in Name /\ conn[c].pc = "guest"
    BY <1>0, <1>1 DEF ReserveProfile, WellNamed, Uid
  <2>2. StoreOK' /\ SessionsOK' /\ ClientsOK'
    BY <1>1, SameStore, SameSessions, SameClients DEF ReserveProfile
  <2>3. CASE Reserve(u, k) /\ Goto(c, "reserved")
    BY <1>1, <2>1, <2>2, <2>3, ReserveType, GotoConn DEF ReserveProfile, Step
  <2>4. CASE GiveUp(c) /\ UNCHANGED <<displayOwners, pendingAdmissions>>
    BY <1>1, <2>2, <2>4, GiveUpConn, SameNames DEF ReserveProfile, nameVars
  <2> QED BY <1>1, <2>3, <2>4 DEF ReserveProfile
<1>2. ASSUME Register(c) PROVE TypeInv'
  <2>1. k \in Name /\ conn[c].pc = "registering"
    BY <1>0, <1>2 DEF Register, WellNamed
  <2>2. NamesOK' /\ SessionsOK' /\ ClientsOK'
    BY <1>2, SameNames, SameSessions, SameClients DEF Register
  <2>3. ASSUME NEW v \in AccountsOf[c] \ assigned,
               profiles' = Put(profiles, v, [name |-> k, stamp |-> 0]),
               assigned' = assigned \union {v},
               conn' = [conn EXCEPT ![c].pc = "registered", ![c].user = v]
        PROVE  TypeInv'
    <3>1. v \in User BY AccountsOfAssumption
    <3>2. [name |-> k, stamp |-> 0] \in Profile
      BY <2>1, MaxResetsAssumption DEF Profile
    <3>3. IsMap(profiles', User, Profile)
      BY <2>3, <3>1, <3>2, PutMap DEF StoreOK
    <3>4. DOMAIN profiles' = DOMAIN profiles \union {v}
      BY <2>3 DEF Put
    <3>5. StoreOK'
      BY <2>3, <3>1, <3>3, <3>4 DEF StoreOK
    <3> DEFINE x == [conn[c] EXCEPT !.pc = "registered", !.user = v]
    <3>6. x \in Attempt /\ WellNamed(x)
      BY <1>0, <2>1, <3>1 DEF Attempt, WellNamed, Uid, Step
    <3>7. conn' = [conn EXCEPT ![c] = x]
      BY <2>3 DEF ConnOK
    <3>8. ConnOK' BY <3>6, <3>7, MoveConn
    <3> QED BY <2>2, <3>5, <3>8
  <2>4. CASE Goto(c, "refused") /\ UNCHANGED storeVars
    BY <2>1, <2>2, <2>4, GotoConn, SameStore DEF Step
  <2> QED BY <1>2, <2>3, <2>4 DEF Register
<1>3. ASSUME ReleaseRegistration(c) PROVE TypeInv'
  <2>1. NamesOK'
    BY <1>3 DEF ReleaseRegistration, NamesOK, IsMap
  <2> QED
    BY <1>3, <2>1, SameStore, SameSessions, SameClients, GiveUpConn
    DEF ReleaseRegistration
<1>4. ASSUME CommitRegistration(c) PROVE TypeInv'
  <2>1. u \in User /\ u \in Uid /\ k \in Name /\ conn[c].pc = "registered"
    BY <1>0, <1>4 DEF CommitRegistration, WellNamed, Uid
  <2>2. StoreOK' /\ SessionsOK' /\ ClientsOK'
    BY <1>4, SameStore, SameSessions, SameClients DEF CommitRegistration
  <2>3. pendingRegistrations' \subseteq pendingRegistrations
    BY <1>4 DEF CommitRegistration
  <2>4. CASE Reserve(u, k) /\ Goto(c, "reserved")
    BY <2>1, <2>2, <2>3, <2>4, ReserveType, GotoConn DEF Step
  <2>5. CASE GiveUp(c) /\ UNCHANGED <<displayOwners, pendingAdmissions>>
    BY <2>2, <2>3, <2>5, GiveUpConn DEF NamesOK, IsMap
  <2> QED BY <1>4, <2>4, <2>5 DEF CommitRegistration
<1>5. ASSUME ReserveAuthenticated(c) PROVE TypeInv'
  <2>1. u \in Uid /\ k \in Name /\ conn[c].pc = "verified"
    BY <1>0, <1>5 DEF ReserveAuthenticated, WellNamed, Uid
  <2>2. StoreOK' /\ SessionsOK' /\ ClientsOK'
    BY <1>5, SameStore, SameSessions, SameClients DEF ReserveAuthenticated
  <2>3. CASE Reserve(u, k) /\ Goto(c, "reserved")
    BY <1>5, <2>1, <2>2, <2>3, ReserveType, GotoConn DEF ReserveAuthenticated, Step
  <2>4. CASE GiveUp(c) /\ UNCHANGED <<displayOwners, pendingAdmissions>>
    BY <1>5, <2>2, <2>4, GiveUpConn, SameNames DEF ReserveAuthenticated, nameVars
  <2> QED BY <1>5, <2>3, <2>4 DEF ReserveAuthenticated
<1>6. ASSUME IssueSession(c) PROVE TypeInv'
  <2>1. u \in User /\ u \in Uid /\ conn[c].pc = "reserved"
    BY <1>6 DEF IssueSession, Uid
  <2>2. StoreOK' /\ NamesOK' /\ ClientsOK'
    BY <1>6, SameStore, SameNames, SameClients DEF IssueSession
  <2>3. ASSUME NEW t \in Token, sessions' = Rotated(u, t),
               sessionByUser' = Put(sessionByUser, u, t), Told(c, "issued", t)
        PROVE  TypeInv'
    <3> DEFINE D == IF u \in DOMAIN sessionByUser THEN {sessionByUser[u]} ELSE {}
    <3>1. IsMap(Without(sessions, D), Token, User)
      BY WithoutMap DEF SessionsOK
    <3>2. IsMap(sessions', Token, User)
      BY <2>1, <2>3, <3>1, PutMap DEF Rotated
    <3>3. IsMap(sessionByUser', User, Token)
      BY <2>1, <2>3, PutMap DEF SessionsOK
    <3>4. ConnOK' BY <2>1, <2>3, ToldConn
    <3> QED BY <2>2, <3>2, <3>3, <3>4 DEF SessionsOK
  <2>4. CASE Return(c, "revoked") /\ UNCHANGED sessionVars
    BY <2>1, <2>2, <2>4, ReturnConn, SameSessions
  <2> QED BY <1>6, <2>3, <2>4 DEF IssueSession, Told
<1>7. ASSUME Connect(c) PROVE TypeInv'
  <2>1. u \in Uid /\ conn[c].pc \in {"issued", "reserved"}
    BY <1>0, <1>7 DEF Connect, WellNamed, Uid
  <2>2. StoreOK'
    BY <1>7, SameStore DEF Connect
  <2>3. NamesOK'
    <3>1. /\ IsMap(Without(displayOwners, {k}), Name, Uid)
          /\ IsMap(Without(pendingAdmissions, {u}), Uid, Name)
      BY WithoutMap DEF NamesOK
    <3>2. IsMap(displayOwners', Name, Uid)
      BY <1>7, <3>1 DEF Connect, NamesOK
    <3>3. IsMap(pendingAdmissions', Uid, Name)
      BY <1>7, <3>1 DEF Connect, NamesOK
    <3> QED BY <1>7, <3>2, <3>3 DEF Connect, NamesOK
  <2>4. CASE /\ clients' = [clients EXCEPT ![u] = c]
             /\ Return(c, "live") /\ UNCHANGED sessionVars
    <3>1. ClientsOK' BY <2>4 DEF ClientsOK
    <3> QED BY <2>1, <2>2, <2>3, <2>4, <3>1, ReturnConn, SameSessions
  <2>5. CASE RevokeSessions(u) /\ Return(c, "revoked") /\ UNCHANGED clients
    BY <2>1, <2>2, <2>3, <2>5, RevokeSessionsType, ReturnConn, SameClients
  <2> QED BY <1>7, <2>4, <2>5 DEF Connect
<1>8. ASSUME ReleaseProfileReservation(c) PROVE TypeInv'
  <2>1. NamesOK'
    <3>1. /\ IsMap(Without(displayOwners, {k}), Name, Uid)
          /\ IsMap(Without(pendingAdmissions, {u}), Uid, Name)
      BY WithoutMap DEF NamesOK
    <3>2. IsMap(displayOwners', Name, Uid)
      BY <1>8, <3>1 DEF ReleaseProfileReservation, NamesOK
    <3>3. IsMap(pendingAdmissions', Uid, Name)
      BY <1>8, <3>1 DEF ReleaseProfileReservation, NamesOK
    <3> QED BY <1>8, <3>2, <3>3 DEF ReleaseProfileReservation, NamesOK
  <2> QED
    BY <1>8, <2>1, SameStore, SameSessions, SameClients, GiveUpConn
    DEF ReleaseProfileReservation
<1> QED BY <1>1, <1>2, <1>3, <1>4, <1>5, <1>6, <1>7, <1>8 DEF Advance

\* Every other step preserves the types too.
LEMMA TypeStep ==
    ASSUME TypeInv, [Next]_vars
    PROVE  TypeInv'
<1> USE DEF TypeInv, At
<1>1. ASSUME NEW c \in Conn, NEW u \in Guest, NEW k \in Name, NewGuest(c, u, k)
      PROVE  TypeInv'
  <2> DEFINE x == Unverified("guest", u, k)
  <2>1. x \in Attempt /\ WellNamed(x)
    BY MaxResetsAssumption DEF Unverified, Attempt, Step, WellNamed, Uid
  <2>2. conn' = [conn EXCEPT ![c] = x]
    BY <1>1 DEF NewGuest
  <2>3. ConnOK'
    BY <2>1, <2>2, MoveConn
  <2> QED
    BY <1>1, <2>3, SameStore, SameNames, SameSessions, SameClients DEF NewGuest
<1>2. ASSUME NEW c \in Conn, NEW k \in Name, ReserveRegistration(c, k)
      PROVE  TypeInv'
  <2> DEFINE x == Unverified("registering", NoUser, k)
  <2>1. x \in Attempt /\ WellNamed(x)
    BY MaxResetsAssumption DEF Unverified, Attempt, Step, WellNamed
  <2>2. conn' = [conn EXCEPT ![c] = x]
    BY <1>2 DEF ReserveRegistration
  <2>3. ConnOK'
    BY <2>1, <2>2, MoveConn
  <2>4. NamesOK'
    BY <1>2 DEF ReserveRegistration, NamesOK, IsMap
  <2> QED
    BY <1>2, <2>3, <2>4, SameStore, SameSessions, SameClients
    DEF ReserveRegistration
<1>3. ASSUME NEW c \in Conn, NEW u \in User, Authenticate(c, u)
      PROVE  TypeInv'
  <2> DEFINE x == [pc |-> "verified", user |-> u, name |-> profiles[u].name,
                   stamp |-> profiles[u].stamp, token |-> NoToken]
  <2>1. profiles[u] \in Profile
    BY <1>3, MapValue DEF Authenticate, StoreOK
  <2>2. x \in Attempt /\ WellNamed(x)
    BY <2>1 DEF Attempt, Step, WellNamed, Uid, Profile
  <2>3. ConnOK'
    BY <1>3, <2>2, MoveConn DEF Authenticate
  <2> QED
    BY <1>3, <2>3, SameStore, SameNames, SameSessions, SameClients
    DEF Authenticate
<1>4. ASSUME NEW c \in Conn, NEW t \in Token, ResumeAndReserve(c, t)
      PROVE  TypeInv'
  <2> DEFINE u == sessions[t]
             x == [pc |-> "reserved", user |-> u, name |-> profiles[u].name,
                   stamp |-> profiles[u].stamp, token |-> t]
  <2>1. u \in User /\ u \in Uid
    BY <1>4, MapValue DEF ResumeAndReserve, SessionsOK, Uid
  <2>2. SessionsOK'
    <3>1. /\ sessions' = Without(sessions, {t})
          /\ sessionByUser' \in {sessionByUser, Without(sessionByUser, {u})}
      BY <1>4 DEF ResumeAndReserve
    <3> HIDE DEF u
    <3> QED BY <3>1, DropTokenType
  <2>3. StoreOK' /\ ClientsOK'
    BY <1>4, SameStore, SameClients DEF ResumeAndReserve
  <2>4. CASE /\ u \in DOMAIN profiles
             /\ Reserve(u, profiles[u].name)
             /\ conn' = [conn EXCEPT ![c] = x]
    <3>1. profiles[u] \in Profile
      BY <2>4, MapValue DEF StoreOK
    <3>2. x \in Attempt /\ WellNamed(x)
      BY <2>1, <3>1 DEF Attempt, Step, WellNamed, Profile
    <3>3. ConnOK'
      BY <2>4, <3>2, MoveConn
    <3>4. NamesOK'
      BY <1>4, <2>1, <2>4, <3>1, ReserveType DEF ResumeAndReserve, Profile
    <3> QED BY <2>2, <2>3, <3>3, <3>4
  <2>5. CASE UNCHANGED <<displayOwners, pendingAdmissions, conn>>
    BY <1>4, <2>2, <2>3, <2>5, SameNames, SameConn DEF ResumeAndReserve, nameVars
  <2> QED BY <1>4, <2>4, <2>5 DEF ResumeAndReserve
<1>5. ASSUME NEW t \in Token, SessionExpires(t) PROVE TypeInv'
  <2> DEFINE u == sessions[t]
  <2>1. /\ sessions' = Without(sessions, {t})
        /\ sessionByUser' \in {sessionByUser, Without(sessionByUser, {u})}
    BY <1>5 DEF SessionExpires
  <2> HIDE DEF u
  <2>2. SessionsOK' BY <2>1, DropTokenType
  <2> QED
    BY <1>5, <2>2, SameStore, SameNames, SameClients, SameConn
    DEF SessionExpires
<1>6. ASSUME NEW c \in Conn, NEW k \in Name, UpdateProfile(c, k)
      PROVE  TypeInv'
  <2> DEFINE u == conn[c].user
             x == [conn[c] EXCEPT !.name = k]
  <2>1. conn[c] \in Attempt /\ WellNamed(conn[c]) /\ conn[c].pc = "live"
    BY <1>6 DEF UpdateProfile, ConnOK
  <2>2. u \in Uid
    BY <2>1 DEF WellNamed
  <2>3. x \in Attempt /\ WellNamed(x)
    BY <2>1 DEF Attempt, WellNamed
  <2>4. ConnOK'
    <3>1. conn' = [conn EXCEPT ![c] = x]
      BY <1>6 DEF UpdateProfile
    <3> QED BY <2>3, <3>1, MoveConn
  <2>5. StoreOK'
    <3>1. CASE profiles' = profiles
      BY <1>6, <3>1, SameStore DEF UpdateProfile, storeVars
    <3>2. CASE profiles' = [profiles EXCEPT ![u].name = k]
      BY <1>6, <3>2 DEF UpdateProfile, StoreOK, IsMap, Profile
    <3> QED BY <1>6, <3>1, <3>2 DEF UpdateProfile
  <2>6. IsMap(displayOwners', Name, Uid)
    <3> DEFINE m == IF conn[c].name \in DOMAIN displayOwners
                       /\ displayOwners[conn[c].name] = u
                    THEN Without(displayOwners, {conn[c].name})
                    ELSE displayOwners
    <3>1. IsMap(m, Name, Uid)
      BY WithoutMap DEF NamesOK
    <3>2. displayOwners' = Put(m, k, u)
      BY <1>6 DEF UpdateProfile, NewOwners
    <3> HIDE DEF m
    <3> QED BY <2>2, <3>1, <3>2, PutMap
  <2>7. NamesOK'
    BY <1>6, <2>6 DEF UpdateProfile, NamesOK, IsMap
  <2> QED
    BY <1>6, <2>4, <2>5, <2>7, SameSessions, SameClients DEF UpdateProfile
<1>7. ASSUME NEW c \in Conn, Disconnect(c) PROVE TypeInv'
  <2>1. conn[c].user \in Uid
    BY <1>7 DEF Disconnect, ConnOK, WellNamed
  <2>2. NamesOK' /\ ClientsOK'
    <3>1. CASE DisconnectLocked(conn[c].user)
      BY <1>7, <2>1, <3>1, DisconnectLockedType DEF Disconnect
    <3>2. CASE UNCHANGED <<clients, displayOwners>>
      BY <1>7, <3>2, SameNames, SameClients DEF Disconnect, nameVars
    <3> QED BY <1>7, <3>1, <3>2 DEF Disconnect
  <2> QED
    BY <1>7, <2>2, SameStore, SameSessions, GiveUpConn DEF Disconnect
<1>8. ASSUME NEW u \in Uid, AdminDisconnect(u) PROVE TypeInv'
  BY <1>8, DisconnectLockedType, SameStore, SameSessions, SameConn
  DEF AdminDisconnect
<1>9. ASSUME NEW u \in User, AdminResetPassword(u) PROVE TypeInv'
  <2>1. profiles[u] \in Profile
    BY <1>9, MapValue DEF AdminResetPassword, StoreOK
  <2>2. [profiles[u] EXCEPT !.stamp = @ + 1] \in Profile
    BY <1>9, <2>1, MaxResetsAssumption DEF AdminResetPassword, Profile
  <2>3. StoreOK'
    BY <1>9, <2>2 DEF AdminResetPassword, StoreOK, IsMap
  <2> QED
    BY <1>9, <2>3, RevokeProfileAccessType, SameConn DEF AdminResetPassword
<1>10. ASSUME NEW u \in User, AdminDeleteProfile(u) PROVE TypeInv'
  <2>1. IsMap(profiles', User, Profile)
    BY <1>10, WithoutMap DEF AdminDeleteProfile, StoreOK
  <2>2. DOMAIN profiles' \subseteq DOMAIN profiles
    BY <1>10 DEF AdminDeleteProfile, Without
  <2>3. StoreOK'
    BY <1>10, <2>1, <2>2 DEF AdminDeleteProfile, StoreOK
  <2> QED
    BY <1>10, <2>3, RevokeProfileAccessType, SameConn DEF AdminDeleteProfile
<1>11. ASSUME UNCHANGED vars PROVE TypeInv'
  BY <1>11, SameStore, SameNames, SameSessions, SameClients, SameConn DEF vars
<1> QED
  BY <1>1, <1>2, <1>3, <1>4, <1>5, <1>6, <1>7, <1>8, <1>9, <1>10, <1>11,
     TypeAdvance DEF Next

\* The types are right initially.
LEMMA TypeInit == Init => TypeInv
<1> SUFFICES ASSUME Init PROVE TypeInv
  OBVIOUS
<1>1. StoreOK
  BY InitialNameAssumption, MaxResetsAssumption DEF Init, StoreOK, IsMap, Profile
<1>2. NamesOK /\ SessionsOK /\ ClientsOK
  BY DEF Init, EmptyMap, NamesOK, SessionsOK, ClientsOK, IsMap
<1>3. Idle \in Attempt /\ WellNamed(Idle)
  BY MaxResetsAssumption DEF Idle, Unverified, Attempt, Step, WellNamed
<1>4. ConnOK
  BY <1>3 DEF Init, ConnOK
<1> QED BY <1>1, <1>2, <1>4 DEF TypeInv

\* The type of every variable, and what each attempt has been told, hold in
\* every reachable state.
LEMMA TypeInvHolds == Spec => []TypeInv
<1>1. TypeInv /\ [Next]_vars => TypeInv'
  BY TypeStep
<1> QED BY <1>1, TypeInit, PTL DEF Spec

\* TypeOK holds in every reachable state.
THEOREM TypeCorrect == Spec => []TypeOK
<1>1. TypeInv => TypeOK
  BY DEF TypeInv, StoreOK, NamesOK, SessionsOK, ClientsOK, ConnOK, TypeOK
<1> QED BY <1>1, TypeInvHolds, PTL

-----------------------------------------------------------------------------
(* A deleted profile has no way in.                                        *)

HasAccess(u) ==
    \/ u \in Online
    \/ u \in DOMAIN pendingAdmissions
    \/ \E t \in DOMAIN sessions : sessions[t] = u

\* Nobody gets access, and no profile goes.
NoNewAccess ==
    /\ \A u \in User : HasAccess(u)' => HasAccess(u)
    /\ DOMAIN profiles \subseteq DOMAIN profiles'

\* A step that gives nobody access and keeps the profiles.
LEMMA NoNewAccessStep ==
    ASSUME AccessNeedsProfile, NoNewAccess PROVE AccessNeedsProfile'
BY DEF AccessNeedsProfile, NoNewAccess, HasAccess

\* A user with a profile gets access, and no profile goes.
LEMMA GrantStep ==
    ASSUME AccessNeedsProfile, NEW v, v \in DOMAIN profiles',
           \A u \in User \ {v} : HasAccess(u)' => HasAccess(u),
           DOMAIN profiles \subseteq DOMAIN profiles'
    PROVE  AccessNeedsProfile'
BY DEF AccessNeedsProfile, HasAccess

\* revokeProfileSessionsLocked gives no token to anyone.
LEMMA RevokedSessions ==
    ASSUME NEW u, RevokeSessions(u)
    PROVE  \A t \in DOMAIN sessions' :
              t \in DOMAIN sessions /\ sessions'[t] = sessions[t] /\ sessions[t] # u
BY DEF RevokeSessions, Without

\* revokeProfileAccessLocked closes every way in.
LEMMA RevokedAccess ==
    ASSUME TypeInv, NEW u \in User, RevokeProfileAccess(u)
    PROVE  /\ ~ HasAccess(u)'
           /\ \A v \in User : HasAccess(v)' => HasAccess(v)
<1>1. \A v \in Uid : clients'[v] = IF v = u THEN NoConn ELSE clients[v]
  BY DEF RevokeProfileAccess, TypeInv, ClientsOK
<1>2. DOMAIN pendingAdmissions' = DOMAIN pendingAdmissions \ {u}
  BY DEF RevokeProfileAccess, Without
<1>3. \A t \in DOMAIN sessions' :
         t \in DOMAIN sessions /\ sessions'[t] = sessions[t] /\ sessions[t] # u
  BY RevokedSessions DEF RevokeProfileAccess
<1> QED BY <1>1, <1>2, <1>3 DEF HasAccess, Online

\* Between which calls ever an administrator deletes a profile: no live
\* connection, no admission on its way and no token of it is left.
THEOREM AccessCorrect == Spec => []AccessNeedsProfile
<1> USE DEF At
<1>1. Init => AccessNeedsProfile
  BY DEF Init, EmptyMap, AccessNeedsProfile, Online
<1>2. TypeInv /\ AccessNeedsProfile /\ [Next]_vars => AccessNeedsProfile'
  <2> SUFFICES ASSUME TypeInv, AccessNeedsProfile, [Next]_vars
               PROVE  AccessNeedsProfile'
    OBVIOUS
  <2>1. ASSUME UNCHANGED <<clients, pendingAdmissions, sessions>>,
               DOMAIN profiles \subseteq DOMAIN profiles'
        PROVE  AccessNeedsProfile'
    BY <2>1, NoNewAccessStep DEF NoNewAccess, HasAccess, Online
  <2>2. ASSUME NEW c \in Conn, ReserveProfile(c) PROVE AccessNeedsProfile'
    <3>1. conn[c].user \notin User
      BY <2>2, GuestAssumption DEF ReserveProfile, TypeInv, ConnOK, WellNamed
    <3>2. \A u \in User : u \in DOMAIN pendingAdmissions' =>
                             u \in DOMAIN pendingAdmissions
      BY <2>2, <3>1 DEF ReserveProfile, Reserve, Put
    <3> QED
      BY <2>2, <3>2, NoNewAccessStep
      DEF ReserveProfile, NoNewAccess, HasAccess, Online, storeVars, sessionVars
  <2>3. ASSUME NEW u \in DOMAIN profiles, NEW k, Reserve(u, k),
               clients' = clients, profiles' = profiles,
               \A t \in DOMAIN sessions' :
                  t \in DOMAIN sessions /\ sessions'[t] = sessions[t]
        PROVE  AccessNeedsProfile'
    <3>1. DOMAIN pendingAdmissions' = DOMAIN pendingAdmissions \union {u}
      BY <2>3 DEF Reserve, Put
    <3>2. \A v \in User \ {u} : HasAccess(v)' => HasAccess(v)
      BY <2>3, <3>1 DEF HasAccess, Online
    <3> QED BY <2>3, <3>2, GrantStep
  <2>4. ASSUME NEW c \in Conn, CommitRegistration(c) PROVE AccessNeedsProfile'
    BY <2>1, <2>3, <2>4
    DEF CommitRegistration, Current, storeVars, sessionVars
  <2>5. ASSUME NEW c \in Conn, ReserveAuthenticated(c) PROVE AccessNeedsProfile'
    BY <2>1, <2>3, <2>5
    DEF ReserveAuthenticated, Current, storeVars, sessionVars
  <2>6. ASSUME NEW c \in Conn, NEW t \in Token, ResumeAndReserve(c, t)
        PROVE  AccessNeedsProfile'
    <3> DEFINE u == sessions[t]
    <3>1. \A s \in DOMAIN sessions' :
             s \in DOMAIN sessions /\ sessions'[s] = sessions[s]
      BY <2>6 DEF ResumeAndReserve, Without
    <3>2. clients' = clients /\ profiles' = profiles
      BY <2>6 DEF ResumeAndReserve, storeVars
    <3>3. CASE u \in DOMAIN profiles /\ Reserve(u, profiles[u].name)
      BY <2>3, <3>1, <3>2, <3>3
    <3>4. CASE pendingAdmissions' = pendingAdmissions
      BY <3>1, <3>2, <3>4, NoNewAccessStep DEF NoNewAccess, HasAccess, Online
    <3> QED BY <2>6, <3>3, <3>4 DEF ResumeAndReserve
  <2>7. ASSUME NEW t \in Token, SessionExpires(t) PROVE AccessNeedsProfile'
    <3>1. \A s \in DOMAIN sessions' :
             s \in DOMAIN sessions /\ sessions'[s] = sessions[s]
      BY <2>7 DEF SessionExpires, Without
    <3> QED
      BY <2>7, <3>1, NoNewAccessStep
      DEF SessionExpires, NoNewAccess, HasAccess, Online, storeVars, nameVars
  <2>8. ASSUME NEW c \in Conn, IssueSession(c) PROVE AccessNeedsProfile'
    <3> DEFINE u == conn[c].user
    <3>1. clients' = clients /\ profiles' = profiles
          /\ pendingAdmissions' = pendingAdmissions
      BY <2>8 DEF IssueSession, storeVars, nameVars
    <3>2. CASE Admitted(c) /\ \E t \in Token : sessions' = Rotated(u, t)
      <4>1. u \in DOMAIN profiles
        BY <2>8, <3>2 DEF IssueSession, Admitted, AccessNeedsProfile
      <4>2. \A s \in DOMAIN sessions' :
               sessions'[s] = u \/ (s \in DOMAIN sessions /\ sessions'[s] = sessions[s])
        BY <3>2 DEF Rotated, Put, Without
      <4>3. \A v \in User \ {u} : HasAccess(v)' => HasAccess(v)
        BY <3>1, <4>2 DEF HasAccess, Online
      <4> QED BY <3>1, <4>1, <4>3, GrantStep
    <3>3. CASE sessions' = sessions
      BY <2>1, <3>1, <3>3
    <3> QED BY <2>8, <3>2, <3>3 DEF IssueSession, sessionVars
  <2>9. ASSUME NEW c \in Conn, Connect(c) PROVE AccessNeedsProfile'
    <3> DEFINE u == conn[c].user
    <3>1. profiles' = profiles
      BY <2>9 DEF Connect, storeVars
    <3>2. CASE /\ Admitted(c)
               /\ pendingAdmissions' = Without(pendingAdmissions, {u})
               /\ clients' = [clients EXCEPT ![u] = c]
               /\ UNCHANGED sessionVars
      <4>1. DOMAIN pendingAdmissions' \subseteq DOMAIN pendingAdmissions
        BY <3>2 DEF Without
      <4>2. \A v \in Uid \ {u} : clients'[v] = clients[v]
        BY <3>2 DEF TypeInv, ClientsOK
      <4>3. \A v \in User \ {u} : HasAccess(v)' => HasAccess(v)
        BY <3>2, <4>1, <4>2 DEF HasAccess, Online, sessionVars, Uid
      <4>4. CASE u \in User
        <5>1. u \in DOMAIN profiles
          BY <3>2, <4>4 DEF Admitted, AccessNeedsProfile
        <5> QED BY <3>1, <4>3, <5>1, GrantStep
      <4>5. CASE u \notin User
        BY <3>1, <4>3, <4>5, NoNewAccessStep DEF NoNewAccess
      <4> QED BY <4>4, <4>5
    <3>3. CASE RevokeSessions(u) /\ UNCHANGED <<pendingAdmissions, clients>>
      <4>1. \A t \in DOMAIN sessions' :
               t \in DOMAIN sessions /\ sessions'[t] = sessions[t]
        BY <3>3, RevokedSessions
      <4> QED
        BY <3>1, <3>3, <4>1, NoNewAccessStep DEF NoNewAccess, HasAccess, Online
    <3> QED BY <2>9, <3>2, <3>3 DEF Connect
  <2>10. ASSUME NEW c \in Conn, ReleaseProfileReservation(c)
         PROVE  AccessNeedsProfile'
    <3>1. DOMAIN pendingAdmissions' \subseteq DOMAIN pendingAdmissions
      BY <2>10 DEF ReleaseProfileReservation, Without
    <3> QED
      BY <2>10, <3>1, NoNewAccessStep
      DEF ReleaseProfileReservation, NoNewAccess, HasAccess, Online, storeVars,
          sessionVars
  <2>11. ASSUME NEW u \in Uid, DisconnectLocked(u), profiles' = profiles,
                pendingAdmissions' = pendingAdmissions, sessions' = sessions
         PROVE  AccessNeedsProfile'
    <3>1. \A v \in Uid : clients'[v] # NoConn => clients[v] # NoConn
      BY <2>11 DEF DisconnectLocked, TypeInv, ClientsOK
    <3> QED BY <2>11, <3>1, NoNewAccessStep DEF NoNewAccess, HasAccess, Online
  <2>12. ASSUME NEW c \in Conn, Disconnect(c) PROVE AccessNeedsProfile'
    <3>1. conn[c].user \in Uid
      BY <2>12 DEF Disconnect, TypeInv, ConnOK, WellNamed
    <3> QED
      BY <2>1, <2>11, <2>12, <3>1 DEF Disconnect, storeVars, sessionVars
  <2>13. ASSUME NEW u \in Uid, AdminDisconnect(u) PROVE AccessNeedsProfile'
    BY <2>11, <2>13 DEF AdminDisconnect, storeVars, sessionVars
  <2>14. ASSUME NEW u \in User, AdminResetPassword(u) PROVE AccessNeedsProfile'
    BY <2>14, RevokedAccess, NoNewAccessStep DEF AdminResetPassword, NoNewAccess
  <2>15. ASSUME NEW u \in User, AdminDeleteProfile(u) PROVE AccessNeedsProfile'
    <3>1. /\ ~ HasAccess(u)'
          /\ \A v \in User : HasAccess(v)' => HasAccess(v)
      BY <2>15, RevokedAccess DEF AdminDeleteProfile
    <3>2. DOMAIN profiles' = DOMAIN profiles \ {u}
      BY <2>15 DEF AdminDeleteProfile, Without
    <3> QED BY <3>1, <3>2 DEF AccessNeedsProfile, HasAccess
  <2>16. ASSUME NEW c \in Conn, NEW k \in Name, UpdateProfile(c, k)
         PROVE  AccessNeedsProfile'
    BY <2>1, <2>16 DEF UpdateProfile, sessionVars
  <2>17. ASSUME NEW c \in Conn, Register(c) PROVE AccessNeedsProfile'
    BY <2>1, <2>17 DEF Register, Put, storeVars, nameVars, sessionVars
  <2> QED
    BY <2>1, <2>2, <2>4, <2>5, <2>6, <2>7, <2>8, <2>9, <2>10, <2>12, <2>13,
       <2>14, <2>15, <2>16, <2>17
    DEF Next, Advance, NewGuest, ReserveRegistration, Authenticate,
        ReleaseRegistration, vars, storeVars, nameVars, sessionVars
<1> QED BY <1>1, <1>2, TypeInvHolds, PTL DEF Spec

-----------------------------------------------------------------------------
(* One resume token per profile.                                           *)

\* Deleting the token of a user from both maps keeps them mirrors.
LEMMA DropBoth ==
    ASSUME OneTokenPerProfile, NEW t \in DOMAIN sessions,
           sessions' = Without(sessions, {t}),
           sessionByUser' = IF /\ sessions[t] \in DOMAIN sessionByUser
                               /\ sessionByUser[sessions[t]] = t
                            THEN Without(sessionByUser, {sessions[t]})
                            ELSE sessionByUser
    PROVE  OneTokenPerProfile'
BY DEF OneTokenPerProfile, Without

\* So does deleting every token of a user.
LEMMA DropUser ==
    ASSUME OneTokenPerProfile, NEW u, RevokeSessions(u)
    PROVE  OneTokenPerProfile'
BY DEF OneTokenPerProfile, RevokeSessions, Without

\* h.sessions and h.sessionByUser are inverse to each other: a profile has
\* at most one live token, and the newest replaces any other.
THEOREM OneTokenCorrect == Spec => []OneTokenPerProfile
<1>1. Init => OneTokenPerProfile
  BY DEF Init, EmptyMap, OneTokenPerProfile
<1>2. OneTokenPerProfile /\ [Next]_vars => OneTokenPerProfile'
  <2> SUFFICES ASSUME OneTokenPerProfile, [Next]_vars
               PROVE  OneTokenPerProfile'
    OBVIOUS
  <2>1. ASSUME UNCHANGED sessionVars PROVE OneTokenPerProfile'
    BY <2>1 DEF sessionVars, OneTokenPerProfile
  <2>2. ASSUME NEW c, NEW t, ResumeAndReserve(c, t) PROVE OneTokenPerProfile'
    BY <2>2, DropBoth DEF ResumeAndReserve
  <2>3. ASSUME NEW t, SessionExpires(t) PROVE OneTokenPerProfile'
    BY <2>3, DropBoth DEF SessionExpires
  <2>4. ASSUME NEW c, IssueSession(c) PROVE OneTokenPerProfile'
    <3> DEFINE u == conn[c].user
    <3>1. ASSUME NEW t \in Token \ Referred, sessions' = Rotated(u, t),
                 sessionByUser' = Put(sessionByUser, u, t)
          PROVE  OneTokenPerProfile'
      <4>1. /\ DOMAIN sessionByUser' = DOMAIN sessionByUser \union {u}
            /\ sessionByUser'[u] = t
            /\ \A v \in DOMAIN sessionByUser \ {u} :
                  sessionByUser'[v] = sessionByUser[v]
        BY <3>1 DEF Put
      <4>2. /\ t \in DOMAIN sessions' /\ sessions'[t] = u
            /\ \A s \in DOMAIN sessions' \ {t} :
                  /\ s \in DOMAIN sessions /\ sessions'[s] = sessions[s]
                  /\ u \in DOMAIN sessionByUser => s # sessionByUser[u]
            /\ \A s \in DOMAIN sessions :
                  \/ s \in DOMAIN sessions'
                  \/ u \in DOMAIN sessionByUser /\ s = sessionByUser[u]
        BY <3>1 DEF Rotated, Referred, Put, Without
      <4> HIDE DEF u
      <4> QED BY <3>1, <4>1, <4>2 DEF OneTokenPerProfile, Referred
    <3> QED BY <2>1, <2>4, <3>1 DEF IssueSession
  <2>5. ASSUME NEW c, Connect(c) PROVE OneTokenPerProfile'
    BY <2>1, <2>5, DropUser DEF Connect
  <2>6. ASSUME NEW u, RevokeProfileAccess(u) PROVE OneTokenPerProfile'
    BY <2>6, DropUser DEF RevokeProfileAccess
  <2> QED
    BY <2>1, <2>2, <2>3, <2>4, <2>5, <2>6
    DEF Next, Advance, vars, NewGuest, ReserveProfile, ReserveRegistration,
        Register, ReleaseRegistration, CommitRegistration, Authenticate,
        ReserveAuthenticated, ReleaseProfileReservation, UpdateProfile,
        Disconnect, AdminDisconnect, AdminResetPassword, AdminDeleteProfile
<1> QED BY <1>1, <1>2, PTL DEF Spec

-----------------------------------------------------------------------------
(* Registrations hold their names.                                         *)

Registering(c) == conn[c].pc \in {"registering", "refused", "registered"}

\* What other calls owe to a registration under way: it goes on as it was,
\* or is over, and its name is given to nobody.
LeavesRegistrations ==
    /\ \A d \in Conn : Registering(d)' =>
          /\ Registering(d) /\ conn'[d] = conn[d]
          /\ conn[d].name \in pendingRegistrations'
    /\ \A d \in Conn, k \in DOMAIN displayOwners' :
          Registering(d)' /\ k \notin DOMAIN displayOwners => k # conn[d].name
    /\ \A d \in Conn, v \in DOMAIN profiles' :
          Registering(d)' => \/ v \in DOMAIN profiles
                                /\ profiles'[v].name = profiles[v].name
                             \/ profiles'[v].name # conn[d].name

\* That is all they have to do.
LEMMA RegistrationsLeft ==
    ASSUME RegistrationHoldsName, LeavesRegistrations
    PROVE  RegistrationHoldsName'
<1> SUFFICES ASSUME NEW c \in Conn, Registering(c)'
             PROVE  /\ conn'[c].name \in pendingRegistrations'
                    /\ conn'[c].name \notin DOMAIN displayOwners'
                    /\ ~ StoredForAnother(conn[c].name, conn[c].user)'
                    /\ \A d \in Conn \ {c} : Registering(d)' =>
                                                conn'[d].name # conn'[c].name
  BY DEF RegistrationHoldsName, Registering
<1>1. /\ Registering(c) /\ conn'[c] = conn[c]
      /\ conn[c].name \in pendingRegistrations'
  BY DEF LeavesRegistrations
<1>2. /\ conn[c].name \notin DOMAIN displayOwners
      /\ \A v \in DOMAIN profiles :
            profiles[v].name = conn[c].name => v = conn[c].user
      /\ \A d \in Conn \ {c} : Registering(d) => conn[d].name # conn[c].name
  BY <1>1 DEF RegistrationHoldsName, Registering, StoredForAnother
<1>3. conn'[c].name \notin DOMAIN displayOwners'
  BY <1>1, <1>2 DEF LeavesRegistrations
<1>4. \A v \in DOMAIN profiles' :
         profiles'[v].name = conn[c].name => v = conn[c].user
  BY <1>2 DEF LeavesRegistrations
<1>5. \A d \in Conn \ {c} : Registering(d)' => conn'[d].name # conn'[c].name
  BY <1>1, <1>2 DEF LeavesRegistrations
<1> QED BY <1>1, <1>3, <1>4, <1>5 DEF StoredForAnother

\* A step that makes no attempt a registration, names nobody and stores
\* nothing.
LEMMA QuietForRegistrations ==
    ASSUME RegistrationHoldsName,
           \A d \in Conn : Registering(d)' => Registering(d) /\ conn'[d] = conn[d],
           pendingRegistrations' = pendingRegistrations,
           DOMAIN displayOwners' \subseteq DOMAIN displayOwners,
           \A v \in DOMAIN profiles' :
              v \in DOMAIN profiles /\ profiles'[v].name = profiles[v].name
    PROVE  RegistrationHoldsName'
<1>1. LeavesRegistrations
  BY DEF LeavesRegistrations, RegistrationHoldsName, Registering
<1> QED BY <1>1, RegistrationsLeft

\* reserveProfileLocked gives a name that no registration has.
LEMMA ReserveForRegistrations ==
    ASSUME RegistrationHoldsName, NEW u, NEW k, Reserve(u, k),
           \A d \in Conn : Registering(d)' =>
              Registering(d) /\ conn'[d] = conn[d] /\ conn[d].name # k,
           \A d \in Conn : Registering(d)' =>
              conn[d].name \in pendingRegistrations',
           profiles' = profiles
    PROVE  RegistrationHoldsName'
<1>1. DOMAIN displayOwners' = DOMAIN displayOwners \union {k}
  BY DEF Reserve, Put
<1>2. LeavesRegistrations
  BY <1>1 DEF LeavesRegistrations
<1> QED BY <1>2, RegistrationsLeft

\* The attempt of c moves on and is not a registration then; all others stay.
LEMMA MovedOn ==
    ASSUME ConnOK, NEW c \in Conn, NEW x,
           x.pc \notin {"registering", "refused", "registered"},
           conn' = [conn EXCEPT ![c] = x]
    PROVE  \A d \in Conn : Registering(d)' =>
              d # c /\ Registering(d) /\ conn'[d] = conn[d]
BY DEF ConnOK, Registering

\* As an assignment to its pc, or to its pc and token, or as Idle.
LEMMA WentOn ==
    ASSUME ConnOK, NEW c \in Conn, NEW pc,
           pc \notin {"registering", "refused", "registered"},
           Goto(c, pc) \/ (\E t : Told(c, pc, t)) \/ GiveUp(c)
    PROVE  \A d \in Conn : Registering(d)' =>
              d # c /\ Registering(d) /\ conn'[d] = conn[d]
<1>1. CASE Goto(c, pc)
  <2>1. conn' = [conn EXCEPT ![c] = [conn[c] EXCEPT !.pc = pc]]
    BY <1>1 DEF Goto, ConnOK
  <2>2. [conn[c] EXCEPT !.pc = pc].pc = pc
    BY DEF ConnOK, Attempt
  <2> QED BY <2>1, <2>2, MovedOn
<1>2. CASE GiveUp(c)
  BY <1>2, MovedOn DEF GiveUp, Idle, Unverified
<1>3. ASSUME NEW t, Told(c, pc, t)
      PROVE  \A d \in Conn : Registering(d)' =>
                d # c /\ Registering(d) /\ conn'[d] = conn[d]
  <2>1. conn' = [conn EXCEPT ![c] = [conn[c] EXCEPT !.pc = pc, !.token = t]]
    BY <1>3 DEF Told, ConnOK, Attempt
  <2>2. [conn[c] EXCEPT !.pc = pc, !.token = t].pc = pc
    BY DEF ConnOK, Attempt
  <2> QED BY <2>1, <2>2, MovedOn
<1> QED BY <1>1, <1>2, <1>3

\* The calls of an attempt keep the names of the registrations.
LEMMA RegistrationsAdvance ==
    ASSUME TypeInv, RegistrationHoldsName, NEW c \in Conn, Advance(c)
    PROVE  RegistrationHoldsName'
<1> USE DEF At
<1> DEFINE u == conn[c].user
           k == conn[c].name
<1>0. ConnOK /\ conn[c] \in Attempt
  BY DEF TypeInv, ConnOK
<1>1. ASSUME CanReserve(u, k), Reserve(u, k), Goto(c, "reserved"),
             UNCHANGED <<profiles, pendingRegistrations>>
      PROVE  RegistrationHoldsName'
  <2>1. \A d \in Conn : Registering(d)' =>
           d # c /\ Registering(d) /\ conn'[d] = conn[d]
    BY <1>0, <1>1, WentOn
  <2>2. \A d \in Conn : Registering(d) =>
           conn[d].name \in pendingRegistrations /\ conn[d].name # k
    BY <1>1 DEF CanReserve, RegistrationHoldsName, Registering
  <2> HIDE DEF u, k
  <2> QED BY <1>1, <2>1, <2>2, ReserveForRegistrations
<1>2. ASSUME NEW pc \in {"live", "issued", "revoked"},
             (\E t : Told(c, pc, t)) \/ GiveUp(c),
             UNCHANGED <<profiles, pendingRegistrations>>,
             DOMAIN displayOwners' \subseteq DOMAIN displayOwners
      PROVE  RegistrationHoldsName'
  BY <1>0, <1>2, WentOn, QuietForRegistrations
<1>3. ASSUME ReserveProfile(c) PROVE RegistrationHoldsName'
  <2>1. UNCHANGED <<profiles, pendingRegistrations>>
    BY <1>3 DEF ReserveProfile, storeVars
  <2> QED BY <1>1, <1>2, <1>3, <2>1 DEF ReserveProfile
<1>4. ASSUME ReserveAuthenticated(c) PROVE RegistrationHoldsName'
  <2>1. UNCHANGED <<profiles, pendingRegistrations>>
    BY <1>4 DEF ReserveAuthenticated, storeVars
  <2> QED BY <1>1, <1>2, <1>4, <2>1 DEF ReserveAuthenticated
<1>5. ASSUME Register(c) PROVE RegistrationHoldsName'
  <2>1. /\ Registering(c)
        /\ UNCHANGED <<displayOwners, pendingRegistrations>>
    BY <1>5 DEF Register, Registering, nameVars
  <2>2. /\ k \in pendingRegistrations /\ k \notin DOMAIN displayOwners
        /\ \A d \in Conn \ {c} : Registering(d) => conn[d].name # k
    BY <2>1 DEF RegistrationHoldsName, Registering
  <2>3. ASSUME NEW v \in AccountsOf[c] \ assigned,
               \A w \in DOMAIN profiles : profiles[w].name # k,
               profiles' = Put(profiles, v, [name |-> k, stamp |-> 0]),
               conn' = [conn EXCEPT ![c].pc = "registered", ![c].user = v]
        PROVE  RegistrationHoldsName'
    <3>1. /\ conn'[c].name = k /\ conn'[c].user = v
          /\ \A d \in Conn \ {c} : conn'[d] = conn[d]
      BY <1>0, <2>3 DEF ConnOK, Attempt
    <3>2. \A w \in DOMAIN profiles' :
             \/ w = v /\ profiles'[w].name = k
             \/ w \in DOMAIN profiles /\ profiles'[w] = profiles[w]
      BY <2>3 DEF Put
    <3>3. \A d \in Conn \ {c}, w \in DOMAIN profiles' : Registering(d) =>
             (profiles'[w].name = conn[d].name => w = conn[d].user)
      BY <2>2, <3>2 DEF RegistrationHoldsName, Registering, StoredForAnother
    <3>4. \A w \in DOMAIN profiles' : profiles'[w].name = k => w = v
      BY <2>3, <3>2
    <3> HIDE DEF k
    <3> QED
      BY <2>1, <2>2, <3>1, <3>3, <3>4
      DEF RegistrationHoldsName, Registering, StoredForAnother
  <2>4. CASE Goto(c, "refused") /\ UNCHANGED storeVars
    <3>1. /\ conn'[c].name = k /\ conn'[c].user = u
          /\ \A d \in Conn \ {c} : conn'[d] = conn[d]
      BY <1>0, <2>4 DEF Goto, ConnOK, Attempt
    <3>2. profiles' = profiles BY <2>4 DEF storeVars
    <3> QED
      BY <2>1, <2>2, <3>1, <3>2
      DEF RegistrationHoldsName, Registering, StoredForAnother
  <2> QED BY <1>5, <2>3, <2>4 DEF Register
<1>6. ASSUME ReleaseRegistration(c) PROVE RegistrationHoldsName'
  <2>1. \A d \in Conn : Registering(d)' =>
           d # c /\ Registering(d) /\ conn'[d] = conn[d]
    BY <1>0, <1>6, WentOn DEF ReleaseRegistration
  <2>2. \A d \in Conn \ {c} : Registering(d) =>
           conn[d].name \in pendingRegistrations /\ conn[d].name # k
    BY <1>6 DEF ReleaseRegistration, RegistrationHoldsName, Registering
  <2>3. LeavesRegistrations
    BY <1>6, <2>1, <2>2 DEF ReleaseRegistration, LeavesRegistrations, storeVars
  <2> QED BY <2>3, RegistrationsLeft
<1>7. ASSUME CommitRegistration(c) PROVE RegistrationHoldsName'
  <2>1. \A d \in Conn : Registering(d)' =>
           d # c /\ Registering(d) /\ conn'[d] = conn[d]
    BY <1>0, <1>7, WentOn DEF CommitRegistration
  <2>2. \A d \in Conn \ {c} : Registering(d) =>
           conn[d].name \in pendingRegistrations /\ conn[d].name # k
    BY <1>7 DEF CommitRegistration, RegistrationHoldsName, Registering
  <2>3. /\ pendingRegistrations' = pendingRegistrations \ {k}
        /\ profiles' = profiles
        /\ Reserve(u, k) \/ displayOwners' = displayOwners
    BY <1>7 DEF CommitRegistration, storeVars
  <2> HIDE DEF u, k
  <2>4. CASE Reserve(u, k)
    BY <2>1, <2>2, <2>3, <2>4, ReserveForRegistrations
  <2>5. CASE displayOwners' = displayOwners
    <3>1. LeavesRegistrations
      BY <2>1, <2>2, <2>3, <2>5 DEF LeavesRegistrations
    <3> QED BY <3>1, RegistrationsLeft
  <2> QED BY <2>3, <2>4, <2>5
<1>8. ASSUME IssueSession(c) PROVE RegistrationHoldsName'
  BY <1>2, <1>8 DEF IssueSession, Return, Told, storeVars, nameVars
<1>9. ASSUME Connect(c) PROVE RegistrationHoldsName'
  BY <1>2, <1>9 DEF Connect, Return, Told, storeVars
<1>10. ASSUME ReleaseProfileReservation(c) PROVE RegistrationHoldsName'
  <2>1. DOMAIN displayOwners' \subseteq DOMAIN displayOwners
    BY <1>10 DEF ReleaseProfileReservation, Without
  <2> QED BY <1>2, <1>10, <2>1 DEF ReleaseProfileReservation, storeVars
<1> QED
  BY <1>3, <1>4, <1>5, <1>6, <1>7, <1>8, <1>9, <1>10 DEF Advance

\* So does everything else that happens meanwhile.
LEMMA RegistrationsStep ==
    ASSUME TypeInv, RegistrationHoldsName, [Next]_vars
    PROVE  RegistrationHoldsName'
<1> USE DEF At
<1>0. ConnOK BY DEF TypeInv
<1>1. ASSUME NEW c \in Conn, NEW u \in Guest, NEW k \in Name, NewGuest(c, u, k)
      PROVE  RegistrationHoldsName'
  <2>1. \A d \in Conn : Registering(d)' => Registering(d) /\ conn'[d] = conn[d]
    BY <1>0, <1>1, MovedOn DEF NewGuest, Unverified
  <2> QED BY <1>1, <2>1, QuietForRegistrations DEF NewGuest, storeVars, nameVars
<1>2. ASSUME NEW c \in Conn, NEW k \in Name, ReserveRegistration(c, k)
      PROVE  RegistrationHoldsName'
  <2>1. /\ conn'[c].name = k /\ conn'[c].user = NoUser
        /\ \A d \in Conn \ {c} : conn'[d] = conn[d]
    BY <1>0, <1>2 DEF ReserveRegistration, ConnOK, Unverified
  <2>2. /\ k \notin pendingRegistrations /\ k \notin DOMAIN displayOwners
        /\ \A u \in DOMAIN profiles : profiles[u].name # k
        /\ pendingRegistrations' = pendingRegistrations \union {k}
        /\ displayOwners' = displayOwners /\ profiles' = profiles
    BY <1>2 DEF ReserveRegistration, storeVars
  <2> QED
    BY <2>1, <2>2 DEF RegistrationHoldsName, Registering, StoredForAnother
<1>3. ASSUME NEW c \in Conn, NEW u \in User, Authenticate(c, u)
      PROVE  RegistrationHoldsName'
  <2>1. \A d \in Conn : Registering(d)' => Registering(d) /\ conn'[d] = conn[d]
    BY <1>0, <1>3, MovedOn DEF Authenticate
  <2> QED BY <1>3, <2>1, QuietForRegistrations DEF Authenticate, storeVars, nameVars
<1>4. ASSUME NEW c \in Conn, NEW t \in Token, ResumeAndReserve(c, t)
      PROVE  RegistrationHoldsName'
  <2> DEFINE u == sessions[t]
             k == profiles[u].name
  <2>1. profiles' = profiles /\ pendingRegistrations' = pendingRegistrations
    BY <1>4 DEF ResumeAndReserve, storeVars
  <2>2. CASE /\ CanReserve(u, k) /\ Reserve(u, k)
             /\ conn' = [conn EXCEPT ![c] =
                    [pc |-> "reserved", user |-> u, name |-> k,
                     stamp |-> profiles[u].stamp, token |-> t]]
    <3>1. \A d \in Conn : Registering(d)' => Registering(d) /\ conn'[d] = conn[d]
      BY <1>0, <2>2, MovedOn
    <3>2. \A d \in Conn : Registering(d) =>
             conn[d].name \in pendingRegistrations /\ conn[d].name # k
      BY <2>2 DEF CanReserve, RegistrationHoldsName, Registering
    <3>3. Reserve(u, k) BY <2>2
    <3> HIDE DEF u, k
    <3> QED BY <2>1, <3>1, <3>2, <3>3, ReserveForRegistrations
  <2>3. CASE UNCHANGED <<displayOwners, conn>>
    BY <2>1, <2>3, QuietForRegistrations DEF Registering
  <2> QED BY <1>4, <2>2, <2>3 DEF ResumeAndReserve
<1>5. ASSUME NEW c \in Conn, NEW k \in Name, UpdateProfile(c, k)
      PROVE  RegistrationHoldsName'
  <2> DEFINE u == conn[c].user
  <2>1. \A d \in Conn : Registering(d)' =>
           d # c /\ Registering(d) /\ conn'[d] = conn[d]
    BY <1>0, <1>5 DEF UpdateProfile, ConnOK, Attempt, Registering
  <2>2. \A d \in Conn : Registering(d) =>
           conn[d].name \in pendingRegistrations /\ conn[d].name # k
    BY <1>5 DEF UpdateProfile, RegistrationHoldsName, Registering
  <2>3. DOMAIN displayOwners' \subseteq DOMAIN displayOwners \union {k}
    BY <1>5 DEF UpdateProfile, NewOwners, Put, Without
  <2>4. \A v \in DOMAIN profiles' :
           /\ v \in DOMAIN profiles
           /\ profiles'[v].name = profiles[v].name \/ profiles'[v].name = k
    BY <1>5 DEF UpdateProfile, TypeInv, StoreOK, IsMap, Profile
  <2>5. pendingRegistrations' = pendingRegistrations
    BY <1>5 DEF UpdateProfile
  <2>6. LeavesRegistrations
    BY <2>1, <2>2, <2>3, <2>4, <2>5 DEF LeavesRegistrations
  <2> QED BY <2>6, RegistrationsLeft
<1>6. ASSUME NEW c \in Conn, Disconnect(c) PROVE RegistrationHoldsName'
  <2>1. \A d \in Conn : Registering(d)' => Registering(d) /\ conn'[d] = conn[d]
    BY <1>0, <1>6, WentOn DEF Disconnect
  <2>2. DOMAIN displayOwners' \subseteq DOMAIN displayOwners
    BY <1>6 DEF Disconnect, DisconnectLocked, Without
  <2> QED BY <1>6, <2>1, <2>2, QuietForRegistrations DEF Disconnect, storeVars
<1>7. ASSUME NEW u, DisconnectLocked(u) \/ RevokeProfileAccess(u),
             UNCHANGED <<pendingRegistrations, conn>>,
             \A v \in DOMAIN profiles' :
                v \in DOMAIN profiles /\ profiles'[v].name = profiles[v].name
      PROVE  RegistrationHoldsName'
  <2>1. DOMAIN displayOwners' \subseteq DOMAIN displayOwners
    BY <1>7 DEF DisconnectLocked, RevokeProfileAccess, Without
  <2> QED BY <1>7, <2>1, QuietForRegistrations DEF Registering
<1>8. ASSUME NEW u \in Uid, AdminDisconnect(u) PROVE RegistrationHoldsName'
  BY <1>7, <1>8 DEF AdminDisconnect, storeVars
<1>9. ASSUME NEW u \in User, AdminResetPassword(u) PROVE RegistrationHoldsName'
  <2>1. \A v \in DOMAIN profiles' :
           v \in DOMAIN profiles /\ profiles'[v].name = profiles[v].name
    BY <1>9 DEF AdminResetPassword, TypeInv, StoreOK, IsMap, Profile
  <2> QED BY <1>7, <1>9, <2>1 DEF AdminResetPassword
<1>10. ASSUME NEW u \in User, AdminDeleteProfile(u) PROVE RegistrationHoldsName'
  <2>1. \A v \in DOMAIN profiles' :
           v \in DOMAIN profiles /\ profiles'[v].name = profiles[v].name
    BY <1>10 DEF AdminDeleteProfile, Without
  <2> QED BY <1>7, <1>10, <2>1 DEF AdminDeleteProfile
<1>11. ASSUME UNCHANGED <<storeVars, nameVars, conn>> PROVE RegistrationHoldsName'
  BY <1>11, QuietForRegistrations DEF storeVars, nameVars, Registering
<1> QED
  BY <1>1, <1>2, <1>3, <1>4, <1>5, <1>6, <1>8, <1>9, <1>10, <1>11,
     RegistrationsAdvance DEF Next, SessionExpires, vars

\* The name of a registration under way belongs to nobody else until the
\* profile is committed, whoever else is registering, logging in or renaming.
THEOREM RegistrationsCorrect == Spec => []RegistrationHoldsName
<1>1. Init => RegistrationHoldsName
  BY DEF Init, Idle, Unverified, RegistrationHoldsName
<1>2. TypeInv /\ RegistrationHoldsName /\ [Next]_vars => RegistrationHoldsName'
  BY RegistrationsStep
<1> QED BY <1>1, <1>2, TypeInvHolds, PTL DEF Spec

-----------------------------------------------------------------------------
(* The player limit.                                                       *)

\* The users who are online or on their way in.
Present == Online \union DOMAIN pendingAdmissions

\* reservedPlayerCountLocked counts finite maps.
CountedInv ==
    /\ IsFiniteSet(Present)
    /\ IsFiniteSet(pendingRegistrations)
    /\ Cardinality(Present) + Cardinality(pendingRegistrations)
          <= MaxOnlinePlayers

\* Nobody is counted twice.
LEMMA CountedOnce ==
    ASSUME IsFiniteSet(Present), IsFiniteSet(pendingRegistrations)
    PROVE  ReservedPlayerCount =
               Cardinality(Present) + Cardinality(pendingRegistrations)
<1> DEFINE P == DOMAIN pendingAdmissions
<1>1. IsFiniteSet(Online) /\ IsFiniteSet(P \ Online)
  BY FS_Subset DEF Present
<1>2. Online \intersect (P \ Online) = {} /\ Online \union (P \ Online) = Present
  BY DEF Present
<1>3. Cardinality(Present) =
         Cardinality(Online) + Cardinality(P \ Online) - Cardinality({})
  BY <1>1, <1>2, FS_Union
<1>4. /\ Cardinality(Online) \in Nat /\ Cardinality(P \ Online) \in Nat
      /\ Cardinality(pendingRegistrations) \in Nat /\ Cardinality({}) = 0
  BY <1>1, FS_CardinalityType, FS_EmptySet
<1> QED BY <1>3, <1>4 DEF ReservedPlayerCount

\* A step that lets nobody in.
LEMMA NobodyCounted ==
    ASSUME CountedInv, Present' \subseteq Present,
           pendingRegistrations' \subseteq pendingRegistrations
    PROVE  CountedInv'
<1>1. /\ IsFiniteSet(Present') /\ Cardinality(Present') <= Cardinality(Present)
      /\ IsFiniteSet(pendingRegistrations')
      /\ Cardinality(pendingRegistrations') <= Cardinality(pendingRegistrations)
  BY FS_Subset DEF CountedInv
<1>2. /\ Cardinality(Present') \in Nat /\ Cardinality(Present) \in Nat
      /\ Cardinality(pendingRegistrations') \in Nat
      /\ Cardinality(pendingRegistrations) \in Nat
  BY <1>1, FS_CardinalityType DEF CountedInv
<1> QED BY <1>1, <1>2, LimitAssumption DEF CountedInv

\* reserveProfileLocked takes a place for u unless he has one.
LEMMA ReserveCounted ==
    ASSUME CountedInv, NEW u, NEW k, CanReserve(u, k), Reserve(u, k),
           clients' = clients, pendingRegistrations' = pendingRegistrations
    PROVE  CountedInv'
<1>1. Present' = Present \union {u}
  BY DEF Present, Online, Reserve, Put
<1>2. CASE u \in Present
  BY <1>1, <1>2, NobodyCounted
<1>3. CASE u \notin Present
  <2>1. ReservedPlayerCount < MaxOnlinePlayers
    BY <1>3 DEF CanReserve, Present
  <2>2. Cardinality(Present) + Cardinality(pendingRegistrations) < MaxOnlinePlayers
    BY <2>1, CountedOnce DEF CountedInv
  <2>3. /\ IsFiniteSet(Present')
        /\ Cardinality(Present') = Cardinality(Present) + 1
    BY <1>1, <1>3, FS_AddElement DEF CountedInv
  <2>4. /\ Cardinality(Present) \in Nat
        /\ Cardinality(pendingRegistrations) \in Nat
    BY FS_CardinalityType DEF CountedInv
  <2> QED BY <2>2, <2>3, <2>4, LimitAssumption DEF CountedInv
<1> QED BY <1>2, <1>3

\* CommitRegistration gives the place of the registration to its user.
LEMMA CommitCounted ==
    ASSUME CountedInv, NEW u, NEW k \in pendingRegistrations,
           Present' = Present \union {u},
           pendingRegistrations' = pendingRegistrations \ {k}
    PROVE  CountedInv'
<1>1. /\ IsFiniteSet(Present')
      /\ Cardinality(Present') <= Cardinality(Present) + 1
  <2>1. Cardinality(Present) \in Nat
    BY FS_CardinalityType DEF CountedInv
  <2>2. /\ IsFiniteSet(Present \union {u})
        /\ \/ Cardinality(Present \union {u}) = Cardinality(Present)
           \/ Cardinality(Present \union {u}) = Cardinality(Present) + 1
    BY FS_AddElement DEF CountedInv
  <2> QED BY <2>1, <2>2
<1>2. /\ IsFiniteSet(pendingRegistrations')
      /\ Cardinality(pendingRegistrations') = Cardinality(pendingRegistrations) - 1
  BY FS_RemoveElement DEF CountedInv
<1>3. /\ Cardinality(Present) \in Nat /\ Cardinality(Present') \in Nat
      /\ Cardinality(pendingRegistrations) \in Nat
  BY <1>1, FS_CardinalityType DEF CountedInv
<1> QED BY <1>1, <1>2, <1>3, LimitAssumption DEF CountedInv

\* ReserveRegistration takes a place that is free.
LEMMA RegistrationCounted ==
    ASSUME CountedInv, NEW k, k \notin pendingRegistrations,
           ReservedPlayerCount < MaxOnlinePlayers, Present' = Present,
           pendingRegistrations' = pendingRegistrations \union {k}
    PROVE  CountedInv'
<1>1. Cardinality(Present) + Cardinality(pendingRegistrations) < MaxOnlinePlayers
  BY CountedOnce DEF CountedInv
<1>2. /\ IsFiniteSet(pendingRegistrations')
      /\ Cardinality(pendingRegistrations') = Cardinality(pendingRegistrations) + 1
  BY FS_AddElement DEF CountedInv
<1>3. /\ Cardinality(Present) \in Nat
      /\ Cardinality(pendingRegistrations) \in Nat
  BY FS_CardinalityType DEF CountedInv
<1> QED BY <1>1, <1>2, <1>3, LimitAssumption DEF CountedInv

\* Every step keeps the count.
LEMMA CountedStep ==
    ASSUME TypeInv, RegistrationHoldsName, CountedInv, [Next]_vars
    PROVE  CountedInv'
<1> USE DEF At
<1>0. ASSUME UNCHANGED <<clients, pendingAdmissions, pendingRegistrations>>
      PROVE  CountedInv'
  BY <1>0, NobodyCounted DEF Present, Online
<1>1. ASSUME NEW c \in Conn, NEW k \in Name, ReserveRegistration(c, k)
      PROVE  CountedInv'
  <2>1. Present' = Present
    BY <1>1 DEF ReserveRegistration, Present, Online
  <2> QED BY <1>1, <2>1, RegistrationCounted DEF ReserveRegistration
<1>2. ASSUME NEW c \in Conn, ReserveProfile(c) \/ ReserveAuthenticated(c)
      PROVE  CountedInv'
  <2> DEFINE u == conn[c].user
             k == conn[c].name
  <2>1. clients' = clients /\ pendingRegistrations' = pendingRegistrations
    BY <1>2 DEF ReserveProfile, ReserveAuthenticated
  <2>2. \/ CanReserve(u, k) /\ Reserve(u, k)
        \/ pendingAdmissions' = pendingAdmissions
    BY <1>2 DEF ReserveProfile, ReserveAuthenticated
  <2> HIDE DEF u, k
  <2> QED BY <1>0, <2>1, <2>2, ReserveCounted
<1>3. ASSUME NEW c \in Conn, NEW t \in Token, ResumeAndReserve(c, t)
      PROVE  CountedInv'
  <2> DEFINE u == sessions[t]
             k == profiles[u].name
  <2>1. clients' = clients /\ pendingRegistrations' = pendingRegistrations
    BY <1>3 DEF ResumeAndReserve
  <2>2. \/ CanReserve(u, k) /\ Reserve(u, k)
        \/ pendingAdmissions' = pendingAdmissions
    BY <1>3 DEF ResumeAndReserve
  <2> HIDE DEF u, k
  <2> QED BY <1>0, <2>1, <2>2, ReserveCounted
<1>4. ASSUME NEW c \in Conn, CommitRegistration(c) PROVE CountedInv'
  <2> DEFINE u == conn[c].user
             k == conn[c].name
  <2>1. k \in pendingRegistrations
    BY <1>4 DEF CommitRegistration, RegistrationHoldsName
  <2>2. clients' = clients /\ pendingRegistrations' = pendingRegistrations \ {k}
    BY <1>4 DEF CommitRegistration
  <2>3. CASE Reserve(u, k)
    <3>1. Present' = Present \union {u}
      BY <2>2, <2>3 DEF Reserve, Put, Present, Online
    <3> HIDE DEF u, k
    <3> QED BY <2>1, <2>2, <3>1, CommitCounted
  <2>4. CASE pendingAdmissions' = pendingAdmissions
    BY <2>2, <2>4, NobodyCounted DEF Present, Online
  <2> QED BY <1>4, <2>3, <2>4 DEF CommitRegistration
<1>5. ASSUME NEW c \in Conn, Connect(c) PROVE CountedInv'
  <2> DEFINE u == conn[c].user
  <2>1. CASE /\ Admitted(c)
             /\ pendingAdmissions' = Without(pendingAdmissions, {u})
             /\ clients' = [clients EXCEPT ![u] = c]
    <3>1. Present' \subseteq Present
      BY <2>1 DEF Present, Online, Admitted, Without, TypeInv, ClientsOK
    <3> QED BY <1>5, <3>1, NobodyCounted DEF Connect
  <2>2. CASE UNCHANGED <<pendingAdmissions, clients>>
    BY <1>0, <1>5, <2>2 DEF Connect
  <2> QED BY <1>5, <2>1, <2>2 DEF Connect
<1>6. ASSUME NEW c \in Conn, ReleaseProfileReservation(c) PROVE CountedInv'
  <2>1. Present' \subseteq Present
    BY <1>6 DEF ReleaseProfileReservation, Present, Online, Without
  <2> QED BY <1>6, <2>1, NobodyCounted DEF ReleaseProfileReservation
<1>7. ASSUME NEW u \in Uid, DisconnectLocked(u),
             UNCHANGED <<pendingAdmissions, pendingRegistrations>>
      PROVE  CountedInv'
  <2>1. Present' \subseteq Present
    BY <1>7 DEF DisconnectLocked, Present, Online, TypeInv, ClientsOK
  <2> QED BY <1>7, <2>1, NobodyCounted
<1>8. ASSUME NEW c \in Conn, Disconnect(c) PROVE CountedInv'
  <2>1. conn[c].user \in Uid
    BY <1>8 DEF Disconnect, TypeInv, ConnOK, WellNamed
  <2> QED BY <1>0, <1>7, <1>8, <2>1 DEF Disconnect
<1>9. ASSUME NEW u \in Uid, AdminDisconnect(u) PROVE CountedInv'
  BY <1>7, <1>9 DEF AdminDisconnect
<1>10. ASSUME NEW u \in User, AdminResetPassword(u) \/ AdminDeleteProfile(u)
       PROVE  CountedInv'
  <2>1. Present' \subseteq Present
    BY <1>10
    DEF AdminResetPassword, AdminDeleteProfile, RevokeProfileAccess, Present,
        Online, Without, TypeInv, ClientsOK
  <2> QED BY <1>10, <2>1, NobodyCounted DEF AdminResetPassword, AdminDeleteProfile
<1>11. ASSUME NEW c \in Conn, ReleaseRegistration(c) PROVE CountedInv'
  BY <1>11, NobodyCounted DEF ReleaseRegistration, Present, Online
<1>12. ASSUME NEW c \in Conn, Register(c) \/ IssueSession(c) PROVE CountedInv'
  BY <1>0, <1>12 DEF Register, IssueSession, nameVars
<1>13. ASSUME NEW c \in Conn, NEW k \in Name, UpdateProfile(c, k)
       PROVE  CountedInv'
  BY <1>0, <1>13 DEF UpdateProfile
<1> QED
  BY <1>0, <1>1, <1>2, <1>3, <1>4, <1>5, <1>6, <1>8, <1>9, <1>10, <1>11,
     <1>12, <1>13
  DEF Next, Advance, NewGuest, Authenticate, SessionExpires, vars, nameVars

\* Players online, players on their way in and registrations under way never
\* exceed cfg.MaxOnlinePlayers together, whatever the calls of the attempts
\* are interleaved with.
THEOREM LimitCorrect == Spec => []WithinPlayerLimit
<1>1. Init => CountedInv
  <2> SUFFICES ASSUME Init PROVE CountedInv
    OBVIOUS
  <2>1. Present = {} /\ pendingRegistrations = {}
    BY DEF Init, EmptyMap, Present, Online
  <2> QED BY <2>1, FS_EmptySet, LimitAssumption DEF CountedInv
<1>2. /\ TypeInv /\ RegistrationHoldsName /\ CountedInv /\ [Next]_vars
      => CountedInv'
  BY CountedStep
<1>3. CountedInv => WithinPlayerLimit
  BY CountedOnce DEF CountedInv, WithinPlayerLimit
<1> QED
  BY <1>1, <1>2, <1>3, TypeInvHolds, RegistrationsCorrect, PTL DEF Spec


-----------------------------------------------------------------------------
(* Who has a connection, and who is whose.                                 *)

\* A guest is on one connection, the id of a profile has been given out, and
\* the client of a user is a live connection of his.
GuestsDistinct ==
    \A c, d \in Conn :
        c # d /\ conn[c].user \in Guest => conn[d].user # conn[c].user
UsersAssigned ==
    \A c \in Conn : conn[c].user \in User => conn[c].user \in assigned
ClientsLive ==
    \A u \in Online : /\ clients[u] \in Conn
                      /\ conn[clients[u]].pc = "live"
                      /\ conn[clients[u]].user = u

UsersInv == GuestsDistinct /\ UsersAssigned

\* Nobody but c moves.
Moves(c) == \A d \in Conn \ {c} : conn'[d] = conn[d]

\* The attempt of c keeps its user, loses it, or has a new one.
LEMMA UsersMove ==
    ASSUME UsersInv, NEW c \in Conn, Moves(c), assigned \subseteq assigned',
           \/ conn'[c].user \in assigned' \union {conn[c].user, NoUser}
           \/ /\ conn'[c].user \in Guest
              /\ \A d \in Conn : conn[d].user # conn'[c].user,
           assigned' \subseteq User
    PROVE  UsersInv'
<1>1. assigned' \intersect Guest = {} /\ NoUser \notin Guest /\ NoUser \notin User
  BY GuestAssumption, NullAssumption DEF Uid
<1>2. GuestsDistinct'
  BY <1>1 DEF UsersInv, GuestsDistinct, Moves
<1>3. UsersAssigned'
  BY <1>1, GuestAssumption DEF UsersInv, UsersAssigned, Moves
<1> QED BY <1>2, <1>3 DEF UsersInv

\* What Goto, Told and GiveUp do, in full.
LEMMA GotoMove ==
    ASSUME ConnOK, NEW c \in Conn, NEW pc,
           Goto(c, pc) \/ \E t : Told(c, pc, t)
    PROVE  /\ Moves(c)
           /\ conn'[c].pc = pc /\ conn'[c].user = conn[c].user
           /\ conn'[c].name = conn[c].name /\ conn'[c].stamp = conn[c].stamp
BY DEF Goto, Told, Moves, ConnOK, Attempt

LEMMA GiveUpMove ==
    ASSUME ConnOK, NEW c \in Conn, GiveUp(c)
    PROVE  /\ Moves(c)
           /\ conn'[c] = Idle /\ conn'[c].pc = "idle"
           /\ conn'[c].user = NoUser /\ conn'[c].name = NoName
BY DEF GiveUp, Idle, Unverified, Moves, ConnOK

\* Registration: the attempt has the new id.
LEMMA RegisterMove ==
    ASSUME ConnOK, NEW c \in Conn, NEW v,
           conn' = [conn EXCEPT ![c].pc = "registered", ![c].user = v]
    PROVE  Moves(c) /\ conn'[c].pc = "registered" /\ conn'[c].user = v
BY DEF Moves, ConnOK, Attempt

\* A rename.
LEMMA RenameMove ==
    ASSUME ConnOK, NEW c \in Conn, NEW k, UpdateProfile(c, k)
    PROVE  /\ Moves(c)
           /\ conn[c].pc = "live" /\ clients[conn[c].user] = c
           /\ conn[c].user \in Uid
           /\ conn'[c].pc = "live" /\ conn'[c].user = conn[c].user
           /\ conn'[c].name = k
BY DEF UpdateProfile, At, Moves, ConnOK, WellNamed, Attempt

\* Which users an attempt may have after a step.
LEMMA UsersStep ==
    ASSUME TypeInv, TypeInv', UsersInv, [Next]_vars PROVE UsersInv'
<1> USE DEF At
<1>0. ConnOK /\ StoreOK /\ assigned' \subseteq User
  BY DEF TypeInv, StoreOK
<1>1. ASSUME conn' = conn, assigned' = assigned PROVE UsersInv'
  BY <1>1 DEF UsersInv, GuestsDistinct, UsersAssigned
<1>2. ASSUME NEW c \in Conn, NEW pc, assigned' = assigned,
             Goto(c, pc) \/ (\E t : Told(c, pc, t)) \/ GiveUp(c)
      PROVE  UsersInv'
  <2>1. Moves(c) /\ conn'[c].user \in {conn[c].user, NoUser}
    BY <1>0, <1>2, GotoMove, GiveUpMove
  <2> QED BY <1>0, <1>2, <2>1, UsersMove
<1>3. ASSUME NEW c \in Conn, NEW u \in Guest, NEW k \in Name, NewGuest(c, u, k)
      PROVE  UsersInv'
  <2>1. /\ Moves(c) /\ conn'[c].user = u /\ assigned' = assigned
        /\ \A d \in Conn : conn[d].user # u
    BY <1>0, <1>3 DEF NewGuest, Unverified, storeVars, Moves, ConnOK
  <2> QED BY <1>0, <2>1, UsersMove
<1>4. ASSUME NEW c \in Conn, NEW k \in Name,
             ReserveRegistration(c, k) \/ UpdateProfile(c, k)
      PROVE  UsersInv'
  <2>1. /\ Moves(c) /\ conn'[c].user \in {conn[c].user, NoUser}
        /\ assigned' = assigned
    BY <1>0, <1>4, RenameMove
    DEF Moves, ConnOK, ReserveRegistration, UpdateProfile, Unverified, storeVars
  <2> QED BY <1>0, <2>1, UsersMove
<1>5. ASSUME NEW c \in Conn, NEW u \in User, Authenticate(c, u) PROVE UsersInv'
  <2>1. /\ Moves(c) /\ conn'[c].user = u /\ assigned' = assigned
        /\ u \in assigned
    BY <1>0, <1>5 DEF Authenticate, storeVars, StoreOK, Moves, ConnOK
  <2> QED BY <1>0, <2>1, UsersMove
<1>6. ASSUME NEW c \in Conn, NEW t \in Token, ResumeAndReserve(c, t)
      PROVE  UsersInv'
  <2> DEFINE x == [pc |-> "reserved", user |-> sessions[t],
                   name |-> profiles[sessions[t]].name,
                   stamp |-> profiles[sessions[t]].stamp, token |-> t]
  <2>1. CASE conn' = [conn EXCEPT ![c] = x] /\ sessions[t] \in DOMAIN profiles
    <3>1. /\ Moves(c) /\ conn'[c].user = sessions[t]
          /\ sessions[t] \in assigned /\ assigned' = assigned
      BY <1>0, <1>6, <2>1 DEF ResumeAndReserve, storeVars, StoreOK, Moves, ConnOK
    <3> QED BY <1>0, <3>1, UsersMove
  <2>2. CASE conn' = conn
    BY <1>1, <1>6, <2>2 DEF ResumeAndReserve, storeVars
  <2> QED BY <1>6, <2>1, <2>2 DEF ResumeAndReserve
<1>7. ASSUME NEW c \in Conn, Register(c) PROVE UsersInv'
  <2>1. ASSUME NEW v \in AccountsOf[c], assigned' = assigned \union {v},
               conn' = [conn EXCEPT ![c].pc = "registered", ![c].user = v]
        PROVE  UsersInv'
    <3>1. Moves(c) /\ conn'[c].user = v
      BY <1>0, <2>1, RegisterMove
    <3>2. assigned \subseteq assigned' /\ v \in assigned'
      BY <2>1
    <3> QED BY <1>0, <3>1, <3>2, UsersMove
  <2> QED BY <1>2, <1>7, <2>1 DEF Register, storeVars
<1>8. ASSUME NEW c \in Conn, Advance(c) PROVE UsersInv'
  BY <1>2, <1>7, <1>8
  DEF Advance, ReserveProfile, ReleaseRegistration, CommitRegistration,
      ReserveAuthenticated, IssueSession, Connect, ReleaseProfileReservation,
      Return, Told, storeVars
<1>9. ASSUME NEW c \in Conn, Disconnect(c) PROVE UsersInv'
  BY <1>2, <1>9 DEF Disconnect, storeVars
<1>10. ASSUME NEW u, AdminDisconnect(u) \/ AdminResetPassword(u)
                     \/ AdminDeleteProfile(u)
       PROVE  UsersInv'
  BY <1>1, <1>10
  DEF AdminDisconnect, AdminResetPassword, AdminDeleteProfile, storeVars
<1>11. ASSUME NEW t \in Token, SessionExpires(t) PROVE UsersInv'
  BY <1>1, <1>11 DEF SessionExpires, storeVars
<1>12. ASSUME UNCHANGED vars PROVE UsersInv'
  BY <1>1, <1>12 DEF vars, storeVars
<1> QED
  BY <1>3, <1>4, <1>5, <1>6, <1>8, <1>9, <1>10, <1>11, <1>12 DEF Next

\* The client of a user is a live connection of his, whoever replaces whom.
LEMMA ClientsStep ==
    ASSUME TypeInv, ClientsLive, [Next]_vars PROVE ClientsLive'
<1> USE DEF At
<1>0. ConnOK /\ ClientsOK
  BY DEF TypeInv
<1>1. ASSUME NEW c \in Conn, Moves(c), clients' = clients,
             \/ conn[c].pc # "live" \/ clients[conn[c].user] # c
             \/ conn'[c].pc = "live" /\ conn'[c].user = conn[c].user
      PROVE  ClientsLive'
  BY <1>1 DEF ClientsLive, Online, Moves
<1>2. ASSUME \A v \in Uid : clients'[v] \in {clients[v], NoConn}, conn' = conn
      PROVE  ClientsLive'
  BY <1>2 DEF ClientsLive, Online
<1>3. ASSUME NEW c \in Conn, NEW pc, Goto(c, pc) \/ GiveUp(c),
             conn[c].pc # "live", clients' = clients
      PROVE  ClientsLive'
  BY <1>0, <1>1, <1>3, GotoMove, GiveUpMove
<1>4. ASSUME NEW c \in Conn, Connect(c) PROVE ClientsLive'
  <2> DEFINE u == conn[c].user
  <2>1. conn[c].pc \in {"reserved", "issued"} /\ u \in Uid
    BY <1>0, <1>4 DEF Connect, ConnOK, WellNamed
  <2>2. CASE clients' = [clients EXCEPT ![u] = c] /\ Return(c, "live")
    <3>1. Moves(c) /\ conn'[c].pc = "live" /\ conn'[c].user = u
      BY <1>0, <2>2, GotoMove DEF Return, Told
    <3>2. \A v \in Uid : clients'[v] = IF v = u THEN c ELSE clients[v]
      BY <1>0, <2>1, <2>2 DEF ClientsOK
    <3> HIDE DEF u
    <3> QED BY <2>1, <3>1, <3>2 DEF ClientsLive, Online, Moves
  <2>3. CASE clients' = clients /\ Return(c, "revoked")
    <3>1. Moves(c)
      BY <1>0, <2>3, GotoMove DEF Return, Told
    <3> QED BY <1>1, <2>1, <2>3, <3>1
  <2> QED BY <1>4, <2>2, <2>3 DEF Connect
<1>5. ASSUME NEW c \in Conn, IssueSession(c) PROVE ClientsLive'
  <2>1. conn[c].pc = "reserved" /\ clients' = clients
    BY <1>5 DEF IssueSession
  <2>2. Moves(c)
    BY <1>0, <1>5, GotoMove DEF IssueSession, Return, Told
  <2> QED BY <1>1, <2>1, <2>2
<1>6. ASSUME NEW c \in Conn, Register(c) PROVE ClientsLive'
  <2>1. conn[c].pc = "registering" /\ clients' = clients
    BY <1>6 DEF Register
  <2>2. Moves(c)
    BY <1>0, <1>6, GotoMove, RegisterMove DEF Register
  <2> QED BY <1>1, <2>1, <2>2
<1>7. ASSUME NEW c \in Conn, Advance(c) PROVE ClientsLive'
  BY <1>3, <1>4, <1>5, <1>6, <1>7
  DEF Advance, ReserveProfile, ReleaseRegistration, CommitRegistration,
      ReserveAuthenticated, ReleaseProfileReservation
<1>8. ASSUME NEW c \in Conn, conn[c].pc = "idle", clients' = clients,
             NEW x, conn' = [conn EXCEPT ![c] = x] \/ conn' = conn
      PROVE  ClientsLive'
  <2>1. Moves(c)
    BY <1>0, <1>8 DEF Moves, ConnOK
  <2> QED BY <1>1, <1>8, <2>1
<1>9. ASSUME NEW c \in Conn, NEW t \in Token, ResumeAndReserve(c, t)
      PROVE  ClientsLive'
  BY <1>8, <1>9 DEF ResumeAndReserve
<1>10. ASSUME NEW c \in Conn,
              \/ \E u \in Guest, k \in Name : NewGuest(c, u, k)
              \/ \E k \in Name : ReserveRegistration(c, k)
              \/ \E u \in User : Authenticate(c, u)
       PROVE  ClientsLive'
  BY <1>8, <1>10 DEF NewGuest, ReserveRegistration, Authenticate
<1>11. ASSUME NEW c \in Conn, NEW k \in Name, UpdateProfile(c, k)
       PROVE  ClientsLive'
  <2>1. clients' = clients
    BY <1>11 DEF UpdateProfile
  <2> QED BY <1>0, <1>1, <1>11, <2>1, RenameMove
<1>12. ASSUME NEW c \in Conn, Disconnect(c) PROVE ClientsLive'
  <2> DEFINE u == conn[c].user
  <2>1. Moves(c) /\ u \in Uid /\ conn[c].pc = "live"
    BY <1>0, <1>12, GiveUpMove DEF Disconnect, ConnOK, WellNamed
  <2>2. CASE clients[u] = c /\ DisconnectLocked(u)
    <3>1. \A v \in Uid : clients'[v] = IF v = u THEN NoConn ELSE clients[v]
      BY <1>0, <2>1, <2>2 DEF DisconnectLocked, ClientsOK
    <3> QED BY <2>1, <2>2, <3>1 DEF ClientsLive, Online, Moves
  <2>3. CASE clients[u] # c /\ clients' = clients
    BY <1>1, <2>1, <2>3
  <2> QED BY <1>12, <2>2, <2>3 DEF Disconnect
<1>13. ASSUME NEW u \in Uid, clients' = [clients EXCEPT ![u] = NoConn],
              conn' = conn
       PROVE  ClientsLive'
  BY <1>0, <1>2, <1>13 DEF ClientsOK
<1>14. ASSUME NEW u \in Uid, AdminDisconnect(u) PROVE ClientsLive'
  BY <1>13, <1>14 DEF AdminDisconnect, DisconnectLocked
<1>15. ASSUME NEW u \in User, AdminResetPassword(u) \/ AdminDeleteProfile(u)
       PROVE  ClientsLive'
  BY <1>13, <1>15
  DEF AdminResetPassword, AdminDeleteProfile, RevokeProfileAccess, Uid
<1>16. ASSUME UNCHANGED <<clients, conn>> PROVE ClientsLive'
  BY <1>2, <1>16
<1> QED
  BY <1>7, <1>9, <1>10, <1>11, <1>12, <1>14, <1>15, <1>16
  DEF Next, SessionExpires, vars

-----------------------------------------------------------------------------
(* Reservations and credentials.                                           *)

\* The attempt of d is one that the reservation of u may have been made for.
Backs(d, u) ==
    /\ conn[d].pc \in {"reserved", "issued"}
    /\ conn[d].user = u
    /\ conn[d].name = pendingAdmissions[u]
    /\ u \in User => Current(d)

\* The credentials of w stay.
StampKept(w) ==
    w \in DOMAIN profiles => /\ w \in DOMAIN profiles'
                             /\ profiles'[w].stamp = profiles[w].stamp

\* A reservation is verified because it was already, or is a new one.
LEMMA ReservationsKept ==
    ASSUME ReservationsVerified,
           \A u \in DOMAIN pendingAdmissions' :
              \/ \E d \in Conn : Backs(d, u)'
              \/ /\ u \in DOMAIN pendingAdmissions
                 /\ pendingAdmissions'[u] = pendingAdmissions[u]
                 /\ u \in User => StampKept(u)
                 /\ \A d \in Conn : Backs(d, u) =>
                       /\ conn'[d].pc \in {"reserved", "issued"}
                       /\ conn'[d].user = conn[d].user
                       /\ conn'[d].name = conn[d].name
                       /\ conn'[d].stamp = conn[d].stamp
    PROVE  ReservationsVerified'
<1> SUFFICES ASSUME NEW u \in DOMAIN pendingAdmissions'
             PROVE  \E d \in Conn : Backs(d, u)'
  BY DEF ReservationsVerified, Backs
<1>1. CASE \E d \in Conn : Backs(d, u)'
  BY <1>1
<1>2. CASE ~ \E d \in Conn : Backs(d, u)'
  <2>1. PICK d \in Conn : Backs(d, u)
    BY <1>2 DEF ReservationsVerified, Backs
  <2>2. Backs(d, u)'
    BY <1>2, <2>1 DEF Backs, Current, StampKept
  <2> QED BY <2>2
<1> QED BY <1>1, <1>2

\* A reset or a deletion takes the reservation away; an attempt that leaves
\* has used it, has given it back, or had none.
LEMMA ReservationsStep ==
    ASSUME TypeInv, ReservationsVerified, [Next]_vars
    PROVE  ReservationsVerified'
<1> USE DEF At
<1>0. ConnOK /\ StoreOK /\ NamesOK
  BY DEF TypeInv
<1>1. ASSUME NEW c \in Conn, Moves(c), conn[c].pc \notin {"reserved", "issued"},
             \A u \in DOMAIN pendingAdmissions' :
                /\ u \in DOMAIN pendingAdmissions
                /\ pendingAdmissions'[u] = pendingAdmissions[u]
                /\ u \in User => StampKept(u)
      PROVE  ReservationsVerified'
  BY <1>1, ReservationsKept DEF Moves, Backs
<1>2. ASSUME profiles' = profiles PROVE \A w \in User : StampKept(w)
  BY <1>2 DEF StampKept
<1>3. ASSUME NEW c \in Conn, NEW u, NEW k, Moves(c), Reserve(u, k),
             conn[c].pc \notin {"reserved", "issued"},
             conn'[c].pc = "reserved", conn'[c].user = u, conn'[c].name = k,
             u \in User => Current(c)', profiles' = profiles
      PROVE  ReservationsVerified'
  <2>1. /\ DOMAIN pendingAdmissions' = DOMAIN pendingAdmissions \union {u}
        /\ pendingAdmissions'[u] = k
        /\ \A v \in DOMAIN pendingAdmissions \ {u} :
              pendingAdmissions'[v] = pendingAdmissions[v]
    BY <1>3 DEF Reserve, Put
  <2>2. Backs(c, u)'
    BY <1>3, <2>1 DEF Backs
  <2>3. \A v \in DOMAIN pendingAdmissions' \ {u} :
           /\ v \in DOMAIN pendingAdmissions
           /\ pendingAdmissions'[v] = pendingAdmissions[v]
           /\ v \in User => StampKept(v)
           /\ \A d \in Conn : Backs(d, v) => conn'[d] = conn[d]
    BY <1>2, <1>3, <2>1 DEF Backs, Moves
  <2> QED BY <2>2, <2>3, ReservationsKept DEF Backs
<1>4. ASSUME NEW c \in Conn, GiveUp(c), conn[c].pc \notin {"reserved", "issued"},
             profiles' = profiles,
             \A u \in DOMAIN pendingAdmissions' :
                /\ u \in DOMAIN pendingAdmissions
                /\ pendingAdmissions'[u] = pendingAdmissions[u]
      PROVE  ReservationsVerified'
  BY <1>0, <1>1, <1>2, <1>4, GiveUpMove
<1>5. ASSUME NEW c \in Conn, ReserveProfile(c) PROVE ReservationsVerified'
  <2> DEFINE u == conn[c].user
             k == conn[c].name
  <2>1. u \notin User /\ profiles' = profiles /\ conn[c].pc = "guest"
    BY <1>0, <1>5, GuestAssumption
    DEF ReserveProfile, ConnOK, WellNamed, storeVars
  <2>2. CASE Reserve(u, k) /\ Goto(c, "reserved")
    <3>1. /\ Moves(c) /\ conn'[c].pc = "reserved" /\ conn'[c].user = u
          /\ conn'[c].name = k
      BY <1>0, <2>2, GotoMove
    <3> HIDE DEF u, k
    <3> QED BY <1>3, <2>1, <2>2, <3>1
  <2>3. CASE GiveUp(c) /\ pendingAdmissions' = pendingAdmissions
    BY <1>4, <2>1, <2>3
  <2> QED BY <1>5, <2>2, <2>3 DEF ReserveProfile
<1>6. ASSUME NEW c \in Conn, CommitRegistration(c) \/ ReserveAuthenticated(c)
      PROVE  ReservationsVerified'
  <2> DEFINE u == conn[c].user
             k == conn[c].name
  <2>1. profiles' = profiles /\ conn[c].pc \in {"registered", "verified"}
    BY <1>6 DEF CommitRegistration, ReserveAuthenticated, storeVars
  <2>2. CASE Current(c) /\ Reserve(u, k) /\ Goto(c, "reserved")
    <3>1. /\ Moves(c) /\ conn'[c].pc = "reserved" /\ conn'[c].user = u
          /\ conn'[c].name = k /\ conn'[c].stamp = conn[c].stamp
      BY <1>0, <2>2, GotoMove
    <3>2. Current(c)'
      BY <2>1, <2>2, <3>1 DEF Current
    <3>3. Reserve(u, k) BY <2>2
    <3> HIDE DEF u, k
    <3> QED BY <1>3, <2>1, <3>1, <3>2, <3>3
  <2>3. CASE GiveUp(c) /\ pendingAdmissions' = pendingAdmissions
    BY <1>4, <2>1, <2>3
  <2> QED BY <1>6, <2>2, <2>3 DEF CommitRegistration, ReserveAuthenticated
<1>7. ASSUME NEW c \in Conn, NEW t \in Token, ResumeAndReserve(c, t)
      PROVE  ReservationsVerified'
  <2> DEFINE u == sessions[t]
             k == profiles[u].name
             x == [pc |-> "reserved", user |-> u, name |-> k,
                   stamp |-> profiles[u].stamp, token |-> t]
  <2>1. profiles' = profiles /\ conn[c].pc = "idle"
    BY <1>7 DEF ResumeAndReserve, storeVars
  <2>2. CASE /\ u \in DOMAIN profiles /\ Reserve(u, k)
             /\ conn' = [conn EXCEPT ![c] = x]
    <3>1. /\ Moves(c) /\ conn'[c].pc = "reserved" /\ conn'[c].user = u
          /\ conn'[c].name = k /\ conn'[c].stamp = profiles[u].stamp
      BY <1>0, <2>2 DEF Moves, ConnOK
    <3>2. Current(c)'
      BY <2>1, <2>2, <3>1 DEF Current
    <3>3. Reserve(u, k) BY <2>2
    <3> HIDE DEF u, k
    <3> QED BY <1>3, <2>1, <3>1, <3>2, <3>3
  <2>3. CASE UNCHANGED <<pendingAdmissions, conn>>
    <3>1. Moves(c) BY <2>3 DEF Moves
    <3> QED BY <1>1, <1>2, <2>1, <2>3, <3>1
  <2> QED BY <1>7, <2>2, <2>3 DEF ResumeAndReserve
<1>8. ASSUME NEW c \in Conn, Register(c) PROVE ReservationsVerified'
  <2>1. \A w \in User : StampKept(w)
    BY <1>0, <1>8 DEF Register, StampKept, Put, storeVars, StoreOK
  <2>2. Moves(c) /\ conn[c].pc = "registering"
    BY <1>0, <1>8, GotoMove, RegisterMove DEF Register
  <2>3. pendingAdmissions' = pendingAdmissions
    BY <1>8 DEF Register, nameVars
  <2> QED BY <1>1, <2>1, <2>2, <2>3
<1>9. ASSUME NEW c \in Conn, ReleaseRegistration(c) \/ ReleaseProfileReservation(c)
                             \/ Disconnect(c)
      PROVE  ReservationsVerified'
  <2>1. /\ GiveUp(c) /\ profiles' = profiles
        /\ conn[c].pc \in {"refused", "revoked", "live"}
    BY <1>9 DEF ReleaseRegistration, ReleaseProfileReservation, Disconnect, storeVars
  <2>2. \A u \in DOMAIN pendingAdmissions' :
           /\ u \in DOMAIN pendingAdmissions
           /\ pendingAdmissions'[u] = pendingAdmissions[u]
    BY <1>9
    DEF ReleaseRegistration, ReleaseProfileReservation, Disconnect, Without
  <2> QED BY <1>4, <2>1, <2>2
<1>10. ASSUME NEW c \in Conn, IssueSession(c) PROVE ReservationsVerified'
  <2>1. profiles' = profiles /\ pendingAdmissions' = pendingAdmissions
    BY <1>10 DEF IssueSession, storeVars, nameVars
  <2>2. PICK pc : /\ \E t : Told(c, pc, t)
                  /\ pc = "issued" \/ ~ Admitted(c)
    BY <1>10 DEF IssueSession, Return, Told
  <2>3. /\ Moves(c) /\ conn'[c].pc = pc /\ conn'[c].user = conn[c].user
        /\ conn'[c].name = conn[c].name /\ conn'[c].stamp = conn[c].stamp
    BY <1>0, <2>2, GotoMove
  <2>4. \A u \in DOMAIN pendingAdmissions : Backs(c, u) => Admitted(c)
    BY DEF Backs, Admitted
  <2> QED
    BY <1>2, <2>1, <2>2, <2>3, <2>4, ReservationsKept DEF Moves, Backs
<1>11. ASSUME NEW c \in Conn, Connect(c) PROVE ReservationsVerified'
  <2>1. /\ profiles' = profiles
        /\ \A u \in DOMAIN pendingAdmissions' :
              /\ u \in DOMAIN pendingAdmissions
              /\ pendingAdmissions'[u] = pendingAdmissions[u]
              /\ ~ Backs(c, u)
    BY <1>11 DEF Connect, Without, storeVars, Backs, Admitted
  <2>2. Moves(c)
    BY <1>0, <1>11, GotoMove DEF Connect, Return, Told
  <2> QED BY <1>2, <2>1, <2>2, ReservationsKept DEF Moves, Backs
<1>12. ASSUME NEW c \in Conn, NEW k \in Name, UpdateProfile(c, k)
       PROVE  ReservationsVerified'
  <2>1. \A w \in User : StampKept(w)
    BY <1>0, <1>12 DEF UpdateProfile, StampKept, StoreOK, IsMap, Profile
  <2>2. pendingAdmissions' = pendingAdmissions
    BY <1>12 DEF UpdateProfile
  <2> QED BY <1>0, <1>1, <1>12, <2>1, <2>2, RenameMove
<1>13. ASSUME NEW u \in User, AdminResetPassword(u) \/ AdminDeleteProfile(u)
       PROVE  ReservationsVerified'
  <2>1. /\ conn' = conn
        /\ \A v \in DOMAIN pendingAdmissions' :
              /\ v \in DOMAIN pendingAdmissions \ {u}
              /\ pendingAdmissions'[v] = pendingAdmissions[v]
    BY <1>13
    DEF AdminResetPassword, AdminDeleteProfile, RevokeProfileAccess, Without
  <2>2. \A w \in User \ {u} : StampKept(w)
    BY <1>0, <1>13
    DEF AdminResetPassword, AdminDeleteProfile, StampKept, Without, StoreOK,
        IsMap, Profile
  <2> QED BY <2>1, <2>2, ReservationsKept DEF Backs
<1>14. ASSUME NEW c \in Conn, conn[c].pc = "idle", pendingAdmissions' = pendingAdmissions,
              profiles' = profiles, NEW x, conn' = [conn EXCEPT ![c] = x]
       PROVE  ReservationsVerified'
  <2>1. Moves(c)
    BY <1>0, <1>14 DEF Moves, ConnOK
  <2> QED BY <1>1, <1>2, <1>14, <2>1
<1>15. ASSUME NEW c \in Conn,
              \/ \E u \in Guest, k \in Name : NewGuest(c, u, k)
              \/ \E k \in Name : ReserveRegistration(c, k)
              \/ \E u \in User : Authenticate(c, u)
       PROVE  ReservationsVerified'
  BY <1>14, <1>15
  DEF NewGuest, ReserveRegistration, Authenticate, storeVars, nameVars
<1>16. ASSUME UNCHANGED <<profiles, pendingAdmissions, conn>>
       PROVE  ReservationsVerified'
  BY <1>2, <1>16, ReservationsKept DEF Backs
<1> QED
  BY <1>5, <1>6, <1>7, <1>8, <1>9, <1>10, <1>11, <1>12, <1>13, <1>15, <1>16
  DEF Next, Advance, AdminDisconnect, SessionExpires, vars, storeVars, nameVars

\* However many connections share a profile, a reservation is backed by the
\* credentials the profile has now.
THEOREM CredentialsCorrect == Spec => []ReservationsVerified
<1>1. Init => ReservationsVerified
  BY DEF Init, EmptyMap, ReservationsVerified
<1>2. TypeInv /\ ReservationsVerified /\ [Next]_vars => ReservationsVerified'
  BY ReservationsStep
<1> QED BY <1>1, <1>2, TypeInvHolds, PTL DEF Spec

-----------------------------------------------------------------------------
(* Names, as long as nobody renames a profile that somebody is being       *)
(* admitted to.                                                            *)

\* The attempt of c is on its way to the profile of its user, or is its
\* user's connection.
Promised(c) ==
    \/ conn[c].pc \in {"verified", "reserved", "issued"}
    \/ clients[conn[c].user] = c

\* Every such attempt has the name the store has; stored names differ.
NamesStored ==
    \A c \in Conn :
        conn[c].user \in DOMAIN profiles /\ Promised(c) =>
           conn[c].name = profiles[conn[c].user].name
StoreDistinct ==
    \A u, v \in DOMAIN profiles : profiles[u].name = profiles[v].name => u = v

\* A name that is taken is stored for nobody else; what a guest has or is
\* promised is his.
OwnersStored ==
    \A k \in DOMAIN displayOwners : ~ StoredForAnother(k, displayOwners[k])
GuestsHold ==
    \A u \in Guest :
        /\ u \in Online => /\ conn[clients[u]].name \in DOMAIN displayOwners
                           /\ displayOwners[conn[clients[u]].name] = u
        /\ u \in DOMAIN pendingAdmissions =>
              /\ pendingAdmissions[u] \in DOMAIN displayOwners
              /\ displayOwners[pendingAdmissions[u]] = u

NamesInv ==
    /\ TypeInv /\ RegistrationHoldsName /\ AccessNeedsProfile
    /\ UsersInv /\ ClientsLive /\ ReservationsVerified
    /\ StoreDistinct /\ NamesStored
    /\ OwnersStored /\ GuestsHold /\ NamesComeBack

\* A name that is held is stored for nobody else: what a step must respect.
LEMMA OwnersStoredKept ==
    ASSUME OwnersStored,
           \A k \in DOMAIN displayOwners', v \in DOMAIN profiles' :
              profiles'[v].name = k =>
                 \/ v = displayOwners'[k]
                 \/ /\ k \in DOMAIN displayOwners
                    /\ displayOwners'[k] = displayOwners[k]
                    /\ v \in DOMAIN profiles
                    /\ profiles[v].name = k
    PROVE  OwnersStored'
BY DEF OwnersStored, StoredForAnother

\* A reservation is refused for a name that is stored for somebody else.
LEMMA ReserveStored ==
    ASSUME OwnersStored, NEW u, NEW k, Reserve(u, k), ~ StoredForAnother(k, u),
           profiles' = profiles
    PROVE  OwnersStored'
<1>1. \A j \in DOMAIN displayOwners' :
         \/ j = k /\ displayOwners'[j] = u
         \/ j \in DOMAIN displayOwners /\ displayOwners'[j] = displayOwners[j]
  BY DEF Reserve, Put
<1> QED BY <1>1, OwnersStoredKept DEF StoredForAnother

\* Every step keeps the names that are held free for their owners.
LEMMA OwnersStoredStep ==
    ASSUME TypeInv, RegistrationHoldsName, OwnersStored, [Next]_vars
    PROVE  OwnersStored'
<1> USE DEF At
<1>1. ASSUME \A k \in DOMAIN displayOwners' :
                k \in DOMAIN displayOwners /\ displayOwners'[k] = displayOwners[k],
             \A v \in DOMAIN profiles' :
                v \in DOMAIN profiles /\ profiles'[v].name = profiles[v].name
      PROVE  OwnersStored'
  BY <1>1, OwnersStoredKept
<1>2. ASSUME UNCHANGED <<profiles, displayOwners>> PROVE OwnersStored'
  BY <1>1, <1>2
<1>3. ASSUME NEW c \in Conn, ReserveProfile(c) \/ ReserveAuthenticated(c)
      PROVE  OwnersStored'
  <2> DEFINE u == conn[c].user
             k == conn[c].name
  <2>1. /\ profiles' = profiles
        /\ \/ CanReserve(u, k) /\ Reserve(u, k)
           \/ displayOwners' = displayOwners
    BY <1>3 DEF ReserveProfile, ReserveAuthenticated, storeVars
  <2> HIDE DEF u, k
  <2> QED BY <1>2, <2>1, ReserveStored DEF CanReserve
<1>4. ASSUME NEW c \in Conn, NEW t \in Token, ResumeAndReserve(c, t)
      PROVE  OwnersStored'
  <2> DEFINE u == sessions[t]
             k == profiles[u].name
  <2>1. /\ profiles' = profiles
        /\ \/ CanReserve(u, k) /\ Reserve(u, k)
           \/ displayOwners' = displayOwners
    BY <1>4 DEF ResumeAndReserve, storeVars
  <2> HIDE DEF u, k
  <2> QED BY <1>2, <2>1, ReserveStored DEF CanReserve
<1>5. ASSUME NEW c \in Conn, CommitRegistration(c) PROVE OwnersStored'
  <2> DEFINE u == conn[c].user
             k == conn[c].name
  <2>1. /\ profiles' = profiles
        /\ Reserve(u, k) \/ displayOwners' = displayOwners
        /\ ~ StoredForAnother(k, u)
    BY <1>5 DEF CommitRegistration, storeVars, RegistrationHoldsName
  <2> HIDE DEF u, k
  <2> QED BY <1>2, <2>1, ReserveStored
<1>6. ASSUME NEW c \in Conn, Register(c) PROVE OwnersStored'
  <2> DEFINE k == conn[c].name
  <2>1. displayOwners' = displayOwners /\ k \notin DOMAIN displayOwners
    BY <1>6 DEF Register, nameVars, RegistrationHoldsName
  <2>2. \A v \in DOMAIN profiles' :
           \/ profiles'[v].name = k
           \/ v \in DOMAIN profiles /\ profiles'[v] = profiles[v]
    <3>1. ASSUME NEW u, profiles' = Put(profiles, u, [name |-> k, stamp |-> 0]),
                 NEW v \in DOMAIN profiles'
          PROVE  \/ profiles'[v].name = k
                 \/ v \in DOMAIN profiles /\ profiles'[v] = profiles[v]
      BY <3>1 DEF Put
    <3> QED BY <1>6, <3>1 DEF Register, storeVars
  <2> HIDE DEF k
  <2> QED BY <2>1, <2>2, OwnersStoredKept
<1>7. ASSUME NEW c \in Conn, NEW k \in Name, UpdateProfile(c, k)
      PROVE  OwnersStored'
  <2> DEFINE u == conn[c].user
  <2>1. /\ \A v \in DOMAIN profiles : profiles[v].name = k => v = u
        /\ \A j \in DOMAIN displayOwners' :
              \/ j = k /\ displayOwners'[j] = u
              \/ /\ j # k /\ j \in DOMAIN displayOwners
                 /\ displayOwners'[j] = displayOwners[j]
    BY <1>7 DEF UpdateProfile, NewOwners, Put, Without, StoredForAnother
  <2>2. \A v \in DOMAIN profiles' :
           /\ v \in DOMAIN profiles
           /\ \/ profiles'[v].name = profiles[v].name
              \/ v = u /\ profiles'[v].name = k
    BY <1>7 DEF UpdateProfile, TypeInv, StoreOK, IsMap, Profile
  <2> HIDE DEF u
  <2> QED BY <2>1, <2>2, OwnersStoredKept
<1>8. ASSUME NEW c \in Conn, Connect(c) \/ ReleaseProfileReservation(c)
      PROVE  OwnersStored'
  BY <1>1, <1>8 DEF Connect, ReleaseProfileReservation, Without, storeVars
<1>9. ASSUME NEW c \in Conn, Disconnect(c) PROVE OwnersStored'
  BY <1>1, <1>9 DEF Disconnect, DisconnectLocked, Without, storeVars
<1>10. ASSUME NEW u \in Uid, AdminDisconnect(u) PROVE OwnersStored'
  BY <1>1, <1>10 DEF AdminDisconnect, DisconnectLocked, Without, storeVars
<1>11. ASSUME NEW u \in User, AdminResetPassword(u) \/ AdminDeleteProfile(u)
       PROVE  OwnersStored'
  <2>1. \A v \in DOMAIN profiles' :
           v \in DOMAIN profiles /\ profiles'[v].name = profiles[v].name
    BY <1>11
    DEF AdminResetPassword, AdminDeleteProfile, Without, TypeInv, StoreOK,
        IsMap, Profile
  <2>2. \A k \in DOMAIN displayOwners' :
           k \in DOMAIN displayOwners /\ displayOwners'[k] = displayOwners[k]
    BY <1>11
    DEF AdminResetPassword, AdminDeleteProfile, RevokeProfileAccess, Without
  <2> QED BY <1>1, <2>1, <2>2
<1> QED
  BY <1>2, <1>3, <1>4, <1>5, <1>6, <1>7, <1>8, <1>9, <1>10, <1>11
  DEF Next, Advance, NewGuest, ReserveRegistration, ReleaseRegistration,
      Authenticate, IssueSession, SessionExpires, vars, storeVars, nameVars

\* No step gives a profile the name of another one.
LEMMA StoreDistinctStep ==
    ASSUME StoreOK, StoreDistinct, [Next]_vars
    PROVE  StoreDistinct'
<1> USE DEF At
<1>1. ASSUME \A w \in DOMAIN profiles' :
                w \in DOMAIN profiles /\ profiles'[w].name = profiles[w].name
      PROVE  StoreDistinct'
  BY <1>1 DEF StoreDistinct
<1>2. ASSUME profiles' = profiles PROVE StoreDistinct'
  BY <1>1, <1>2
<1>3. ASSUME NEW c \in Conn, Register(c) PROVE StoreDistinct'
  <2> DEFINE k == conn[c].name
  <2>1. ASSUME NEW u, profiles' = Put(profiles, u, [name |-> k, stamp |-> 0]),
               \A v \in DOMAIN profiles : profiles[v].name # k
        PROVE  StoreDistinct'
    <3>1. /\ profiles'[u].name = k
          /\ \A v \in DOMAIN profiles' \ {u} :
                v \in DOMAIN profiles /\ profiles'[v] = profiles[v]
      BY <2>1 DEF Put
    <3> HIDE DEF k
    <3> QED BY <2>1, <3>1 DEF StoreDistinct
  <2> QED BY <1>2, <1>3, <2>1 DEF Register, storeVars
<1>4. ASSUME NEW c \in Conn, NEW k \in Name, UpdateProfile(c, k)
      PROVE  StoreDistinct'
  <2> DEFINE u == conn[c].user
  <2>1. \A v \in DOMAIN profiles : profiles[v].name = k => v = u
    BY <1>4 DEF UpdateProfile, StoredForAnother
  <2>2. \A v \in DOMAIN profiles' :
           /\ v \in DOMAIN profiles
           /\ \/ profiles'[v].name = profiles[v].name
              \/ v = u /\ profiles'[v].name = k
    BY <1>4 DEF UpdateProfile, StoreOK, IsMap, Profile
  <2>3. \A v \in DOMAIN profiles' \ {u} : profiles'[v].name # k
    BY <2>1, <2>2
  <2> HIDE DEF u
  <2> QED BY <2>2, <2>3 DEF StoreDistinct
<1>5. ASSUME NEW u \in User, AdminResetPassword(u) \/ AdminDeleteProfile(u)
      PROVE  StoreDistinct'
  <2>1. \A v \in DOMAIN profiles' :
           v \in DOMAIN profiles /\ profiles'[v].name = profiles[v].name
    BY <1>5
    DEF AdminResetPassword, AdminDeleteProfile, Without, StoreOK, IsMap, Profile
  <2> QED BY <1>1, <2>1
<1> QED
  BY <1>2, <1>3, <1>4, <1>5
  DEF Next, Advance, NewGuest, ReserveProfile, ReserveRegistration,
      ReleaseRegistration, CommitRegistration, Authenticate,
      ReserveAuthenticated, ResumeAndReserve, SessionExpires, IssueSession,
      Connect, ReleaseProfileReservation, Disconnect, AdminDisconnect, vars,
      storeVars

\* An attempt has the stored name because it had it, or has it now.
LEMMA NamesStoredKept ==
    ASSUME NamesStored,
           \A d \in Conn :
              conn'[d].user \in DOMAIN profiles' /\ Promised(d)' =>
                 \/ conn'[d].name = profiles'[conn'[d].user].name
                 \/ /\ Promised(d)
                    /\ conn'[d].user = conn[d].user
                    /\ conn'[d].name = conn[d].name
                    /\ conn[d].user \in DOMAIN profiles
                    /\ profiles'[conn[d].user].name = profiles[conn[d].user].name
    PROVE  NamesStored'
BY DEF NamesStored

\* A rename reaches everybody it must: nobody else is on his way in.
LEMMA NamesStoredStep ==
    ASSUME TypeInv, TypeInv', UsersInv, ClientsLive, NamesStored,
           [Next /\ RenamesAlone]_vars
    PROVE  NamesStored'
<1> USE DEF At
<1>0. /\ ConnOK /\ StoreOK /\ ClientsOK
      /\ DOMAIN profiles' \subseteq User /\ NoUser \notin User
      /\ Guest \intersect User = {} /\ User \subseteq Uid
  BY NullAssumption, GuestAssumption DEF TypeInv, StoreOK, Uid
<1>1. \A c \in Conn, v \in Uid : clients[v] = c => conn[c].pc = "live"
  BY NullAssumption DEF ClientsLive, Online
<1>2. ASSUME NEW c \in Conn, Moves(c),
             \A w \in DOMAIN profiles' :
                w \in DOMAIN profiles /\ profiles'[w].name = profiles[w].name,
             \A v \in Uid, d \in Conn \ {c} : clients'[v] = d => clients[v] = d,
             conn'[c].user \in DOMAIN profiles' /\ Promised(c)' =>
                conn'[c].name = profiles'[conn'[c].user].name
      PROVE  NamesStored'
  BY <1>0, <1>2, NamesStoredKept DEF Moves, Promised
<1>3. ASSUME NEW c \in Conn, Moves(c), profiles' = profiles, clients' = clients,
             conn'[c].user \in DOMAIN profiles =>
                conn'[c].name = profiles[conn'[c].user].name
      PROVE  NamesStored'
  BY <1>2, <1>3
<1>4. ASSUME NEW c \in Conn, GiveUp(c), profiles' = profiles, clients' = clients
      PROVE  NamesStored'
  BY <1>0, <1>3, <1>4, GiveUpMove
<1>5. ASSUME NEW c \in Conn, NEW pc, profiles' = profiles, clients' = clients,
             Goto(c, pc) \/ \E t : Told(c, pc, t),
             conn[c].user \in DOMAIN profiles =>
                conn[c].name = profiles[conn[c].user].name
      PROVE  NamesStored'
  BY <1>0, <1>3, <1>5, GotoMove
<1>6. ASSUME NEW c \in Conn, ReserveProfile(c) PROVE NamesStored'
  <2>1. conn[c].user \notin DOMAIN profiles
    BY <1>0, <1>6 DEF ReserveProfile, ConnOK, WellNamed, StoreOK
  <2> QED BY <1>4, <1>5, <1>6, <2>1 DEF ReserveProfile, storeVars
<1>7. ASSUME NEW c \in Conn, ReserveAuthenticated(c) \/ CommitRegistration(c)
      PROVE  NamesStored'
  <2>1. GiveUp(c) \/ /\ Goto(c, "reserved")
                     /\ \/ conn[c].pc = "verified"
                        \/ conn[c].name = profiles[conn[c].user].name
    BY <1>7 DEF ReserveAuthenticated, CommitRegistration
  <2> QED
    BY <1>4, <1>5, <1>7, <2>1
    DEF ReserveAuthenticated, CommitRegistration, storeVars, NamesStored, Promised
<1>8. ASSUME NEW c \in Conn, Register(c) PROVE NamesStored'
  <2> DEFINE k == conn[c].name
  <2>1. clients' = clients /\ conn[c].pc = "registering"
    BY <1>8 DEF Register
  <2>2. ASSUME NEW v \in User \ assigned,
               profiles' = Put(profiles, v, [name |-> k, stamp |-> 0]),
               conn' = [conn EXCEPT ![c].pc = "registered", ![c].user = v]
        PROVE  NamesStored'
    <3>1. Moves(c) /\ conn'[c].user = v /\ conn'[c].name = k
      BY <1>0, <2>2 DEF Moves, ConnOK, Attempt
    <3>2. /\ profiles'[v].name = k
          /\ \A w \in DOMAIN profiles' \ {v} :
                w \in DOMAIN profiles /\ profiles'[w] = profiles[w]
      BY <2>2 DEF Put
    <3>3. \A d \in Conn \ {c} : conn'[d] = conn[d] /\ conn[d].user # v
      BY <2>2, <3>1 DEF Moves, UsersInv, UsersAssigned
    <3> HIDE DEF k
    <3> QED BY <2>1, <3>1, <3>2, <3>3, NamesStoredKept DEF Promised
  <2>3. CASE Goto(c, "refused") /\ profiles' = profiles
    <3>1. /\ Moves(c) /\ conn'[c].pc = "refused"
          /\ conn'[c].user = conn[c].user
      BY <1>0, <2>3, GotoMove
    <3>2. conn[c].user \in DOMAIN profiles => ~ Promised(c)'
      BY <1>0, <1>1, <2>1, <2>3, <3>1 DEF Promised
    <3> QED BY <1>2, <2>1, <2>3, <3>1, <3>2
  <2>4. \A v \in AccountsOf[c] \ assigned : v \in User \ assigned
    BY AccountsOfAssumption
  <2> QED BY <1>8, <2>2, <2>3, <2>4 DEF Register, storeVars
<1>9. ASSUME NEW c \in Conn, ReleaseRegistration(c) \/ ReleaseProfileReservation(c)
      PROVE  NamesStored'
  BY <1>4, <1>9 DEF ReleaseRegistration, ReleaseProfileReservation, storeVars
<1>10. ASSUME NEW c \in Conn, IssueSession(c) PROVE NamesStored'
  <2>1. /\ profiles' = profiles /\ clients' = clients
        /\ \E pc, t : Told(c, pc, t)
    BY <1>10 DEF IssueSession, Return, Told, storeVars
  <2>2. conn[c].user \in DOMAIN profiles =>
           conn[c].name = profiles[conn[c].user].name
    BY <1>10 DEF IssueSession, NamesStored, Promised
  <2> QED BY <1>5, <2>1, <2>2
<1>11. ASSUME NEW c \in Conn, Connect(c) PROVE NamesStored'
  <2>1. /\ Moves(c) /\ profiles' = profiles
        /\ conn'[c].user = conn[c].user /\ conn'[c].name = conn[c].name
    BY <1>0, <1>11, GotoMove DEF Connect, Return, Told, storeVars
  <2>2. conn[c].user \in DOMAIN profiles =>
           conn[c].name = profiles[conn[c].user].name
    BY <1>11 DEF Connect, NamesStored, Promised
  <2>3. \A v \in Uid, d \in Conn \ {c} : clients'[v] = d => clients[v] = d
    BY <1>0, <1>11 DEF Connect, ClientsOK
  <2> QED BY <1>2, <2>1, <2>2, <2>3
<1>12. ASSUME NEW c \in Conn, NEW u \in Guest, NEW k \in Name, NewGuest(c, u, k)
       PROVE  NamesStored'
  <2>1. Moves(c) /\ conn'[c].user = u /\ u \notin DOMAIN profiles
    BY <1>0, <1>12 DEF NewGuest, Moves, ConnOK, Unverified, StoreOK
  <2> QED BY <1>3, <1>12, <2>1 DEF NewGuest, storeVars
<1>13. ASSUME NEW c \in Conn, NEW k \in Name, ReserveRegistration(c, k)
       PROVE  NamesStored'
  <2>1. Moves(c) /\ conn'[c].user = NoUser /\ NoUser \notin DOMAIN profiles
    BY <1>0, <1>13 DEF ReserveRegistration, Moves, ConnOK, Unverified, StoreOK
  <2> QED BY <1>3, <1>13, <2>1 DEF ReserveRegistration, storeVars
<1>14. ASSUME NEW c \in Conn, NEW u \in User, Authenticate(c, u)
       PROVE  NamesStored'
  <2>1. Moves(c) /\ conn'[c].user = u /\ conn'[c].name = profiles[u].name
    BY <1>0, <1>14 DEF Authenticate, Moves, ConnOK
  <2> QED BY <1>3, <1>14, <2>1 DEF Authenticate, storeVars
<1>15. ASSUME NEW c \in Conn, NEW t \in Token, ResumeAndReserve(c, t)
       PROVE  NamesStored'
  <2> DEFINE u == sessions[t]
             x == [pc |-> "reserved", user |-> u, name |-> profiles[u].name,
                   stamp |-> profiles[u].stamp, token |-> t]
  <2>1. profiles' = profiles /\ clients' = clients
    BY <1>15 DEF ResumeAndReserve, storeVars
  <2>2. CASE conn' = [conn EXCEPT ![c] = x]
    <3>1. Moves(c) /\ conn'[c].user = u /\ conn'[c].name = profiles[u].name
      BY <1>0, <2>2 DEF Moves, ConnOK
    <3> QED BY <1>3, <2>1, <3>1
  <2>3. CASE conn' = conn
    BY <2>1, <2>3 DEF NamesStored, Promised
  <2> QED BY <1>15, <2>2, <2>3 DEF ResumeAndReserve
<1>16. ASSUME NEW c \in Conn, NEW k \in Name, UpdateProfile(c, k), RenamesAlone
       PROVE  NamesStored'
  <2> DEFINE u == conn[c].user
  <2>1. /\ Moves(c) /\ conn'[c].user = u /\ conn'[c].name = k
        /\ clients' = clients /\ clients[u] = c /\ u \in Uid
    BY <1>0, <1>16, RenameMove DEF UpdateProfile
  <2>2. \A d \in Conn \ {c} : conn[d].user = u => ~ Promised(d)
    <3>1. \A d \in Conn \ {c} :
             conn[d].pc \in {"verified", "reserved", "issued"} =>
                conn[d].user # u
      BY <1>16 DEF RenamesAlone
    <3> QED BY <2>1, <3>1 DEF Promised
  <2>3. \A v \in DOMAIN profiles' :
           /\ v \in DOMAIN profiles
           /\ profiles'[v].name = IF v = u THEN k ELSE profiles[v].name
    BY <1>0, <1>16 DEF UpdateProfile, StoreOK, IsMap, Profile
  <2>4. \A d \in Conn \ {c} : conn'[d] = conn[d] /\ (Promised(d)' <=> Promised(d))
    BY <2>1 DEF Moves, Promised
  <2> HIDE DEF u
  <2> QED BY <2>1, <2>2, <2>3, <2>4, NamesStoredKept
<1>17. ASSUME NEW c \in Conn, Disconnect(c) PROVE NamesStored'
  <2>1. /\ Moves(c) /\ conn'[c].user = NoUser /\ profiles' = profiles
        /\ conn[c].user \in Uid
    BY <1>0, <1>17, GiveUpMove DEF Disconnect, storeVars, ConnOK, WellNamed
  <2>2. \A v \in Uid, d \in Conn : clients'[v] = d => clients[v] = d
    BY <1>0, <1>17, <2>1, NullAssumption DEF Disconnect, DisconnectLocked, ClientsOK
  <2> QED BY <1>0, <1>2, <2>1, <2>2 DEF StoreOK
<1>18. ASSUME conn' = conn,
              \A w \in DOMAIN profiles' :
                 w \in DOMAIN profiles /\ profiles'[w].name = profiles[w].name,
              \A v \in Uid, d \in Conn : clients'[v] = d => clients[v] = d
       PROVE  NamesStored'
  BY <1>0, <1>18, NamesStoredKept DEF Promised
<1>19. ASSUME NEW u \in Uid, AdminDisconnect(u) PROVE NamesStored'
  BY <1>0, <1>18, <1>19, NullAssumption
  DEF AdminDisconnect, DisconnectLocked, ClientsOK, storeVars
<1>20. ASSUME NEW u \in User, AdminResetPassword(u) \/ AdminDeleteProfile(u)
       PROVE  NamesStored'
  <2>1. \A v \in DOMAIN profiles' :
           v \in DOMAIN profiles /\ profiles'[v].name = profiles[v].name
    BY <1>0, <1>20
    DEF AdminResetPassword, AdminDeleteProfile, Without, StoreOK, IsMap, Profile
  <2>2. conn' = conn /\ clients' = [clients EXCEPT ![u] = NoConn]
    BY <1>20 DEF AdminResetPassword, AdminDeleteProfile, RevokeProfileAccess
  <2>3. \A v \in Uid, d \in Conn : clients'[v] = d => clients[v] = d
    BY <1>0, <2>2, NullAssumption DEF ClientsOK
  <2> QED BY <1>18, <2>1, <2>2, <2>3
<1>21. ASSUME UNCHANGED <<profiles, clients, conn>> PROVE NamesStored'
  BY <1>18, <1>21
<1>22. ASSUME NEW c \in Conn, Advance(c) PROVE NamesStored'
  BY <1>6, <1>7, <1>8, <1>9, <1>10, <1>11, <1>22 DEF Advance
<1> QED
  BY <1>12, <1>13, <1>14, <1>15, <1>16, <1>17, <1>19, <1>20, <1>21, <1>22
  DEF Next, SessionExpires, vars, storeVars

-----------------------------------------------------------------------------
(* Who owns a name.                                                        *)

\* Whoever is on his way to a profile has the stored name.
LEMMA PendingName ==
    ASSUME NamesInv, NEW u \in User, u \in DOMAIN pendingAdmissions
    PROVE  u \in DOMAIN profiles /\ pendingAdmissions[u] = profiles[u].name
<1>1. PICK d \in Conn : /\ conn[d].pc \in {"reserved", "issued"}
                        /\ conn[d].user = u
                        /\ conn[d].name = pendingAdmissions[u]
                        /\ Current(d)
  BY DEF NamesInv, ReservationsVerified
<1> QED BY <1>1 DEF NamesInv, NamesStored, Promised, Current

\* So has whoever is online.
LEMMA OnlineName ==
    ASSUME NamesInv, NEW u \in User, u \in Online
    PROVE  u \in DOMAIN profiles /\ conn[clients[u]].name = profiles[u].name
BY DEF NamesInv, ClientsLive, AccessNeedsProfile, NamesStored, Promised

\* A guest is not on his way in twice.
LEMMA GuestOnce ==
    ASSUME NamesInv, NEW u \in Guest, u \in DOMAIN pendingAdmissions
    PROVE  /\ u \notin Online
           /\ \A c \in Conn : conn[c].user = u => conn[c].pc \in {"reserved", "issued"}
<1>1. PICK d \in Conn : conn[d].pc \in {"reserved", "issued"} /\ conn[d].user = u
  BY DEF NamesInv, ReservationsVerified
<1> QED BY <1>1 DEF NamesInv, UsersInv, GuestsDistinct, ClientsLive

\* A user who comes back while he is online comes back under his name.
LEMMA OneName ==
    ASSUME NamesInv, NEW u \in Uid, u \in Online, u \in DOMAIN pendingAdmissions
    PROVE  pendingAdmissions[u] = conn[clients[u]].name
BY PendingName, OnlineName, GuestOnce DEF Uid

\* The name of a user who is online is his, if it is taken at all.
LEMMA LiveNameOwned ==
    ASSUME NamesInv, NEW u \in Online,
           conn[clients[u]].name \in DOMAIN displayOwners
    PROVE  displayOwners[conn[clients[u]].name] = u
<1>1. CASE u \in Guest
  BY <1>1 DEF NamesInv, GuestsHold
<1>2. CASE u \in User
  BY <1>2, OnlineName DEF NamesInv, OwnersStored, StoredForAnother
<1> QED BY <1>1, <1>2 DEF Online, Uid

HeldInv == GuestsHold /\ NamesComeBack

\* Nothing that matters to the names moves.
LEMMA QuietNames ==
    ASSUME NamesInv, NEW c \in Conn, Moves(c),
           UNCHANGED <<clients, pendingAdmissions, displayOwners>>,
           conn[c].pc # "live" \/ clients[conn[c].user] # c
    PROVE  HeldInv'
<1>1. \A u \in Online : /\ clients[u] \in Conn \ {c}
                        /\ conn'[clients[u]] = conn[clients[u]]
  BY DEF NamesInv, ClientsLive, Moves
<1> QED BY <1>1 DEF NamesInv, HeldInv, GuestsHold, NamesComeBack, Online

\* The attempt of c reserves the name k for the user u.
LEMMA TakeNames ==
    ASSUME NamesInv, NEW c \in Conn, Moves(c), conn[c].pc # "live",
           clients' = clients, NEW u \in Uid, NEW k, Reserve(u, k),
           ~ OwnedByAnother(k, u),
           u \in User => k = profiles[u].name,
           u \in Guest => u \notin DOMAIN pendingAdmissions
    PROVE  HeldInv'
<1>1. \A v \in Online : /\ clients[v] \in Conn \ {c}
                        /\ conn'[clients[v]] = conn[clients[v]]
  BY DEF NamesInv, ClientsLive, Moves
<1>2. /\ DOMAIN pendingAdmissions' = DOMAIN pendingAdmissions \union {u}
      /\ pendingAdmissions'[u] = k
      /\ \A v \in DOMAIN pendingAdmissions \ {u} :
            pendingAdmissions'[v] = pendingAdmissions[v]
  BY DEF Reserve, Put
<1>3. /\ DOMAIN displayOwners' = DOMAIN displayOwners \union {k}
      /\ displayOwners'[k] = u
      /\ \A j \in DOMAIN displayOwners \ {k} : displayOwners'[j] = displayOwners[j]
      /\ k \in DOMAIN displayOwners => displayOwners[k] = u
  BY DEF Reserve, Put, OwnedByAnother
<1>4. u \in DOMAIN pendingAdmissions => pendingAdmissions[u] = k
  BY PendingName DEF Uid
<1>5. GuestsHold'
  BY <1>1, <1>2, <1>3 DEF NamesInv, GuestsHold, Online
<1>6. NamesComeBack'
  BY <1>1, <1>2, <1>3, <1>4 DEF NamesInv, NamesComeBack, Online
<1> QED BY <1>5, <1>6 DEF HeldInv

\* Connect: what was promised is his now.
LEMMA ConnectNames ==
    ASSUME NamesInv, NEW c \in Conn, Moves(c), NEW u \in Uid,
           conn[c].user = u, conn[c].pc \in {"reserved", "issued"}, Admitted(c),
           conn'[c].name = conn[c].name,
           pendingAdmissions' = Without(pendingAdmissions, {u}),
           clients' = [clients EXCEPT ![u] = c],
           displayOwners' = displayOwners
    PROVE  HeldInv'
<1>1. \A v \in Online : /\ clients[v] \in Conn \ {c}
                        /\ conn'[clients[v]] = conn[clients[v]]
  BY DEF NamesInv, ClientsLive, Moves
<1>2. /\ DOMAIN pendingAdmissions' = DOMAIN pendingAdmissions \ {u}
      /\ \A v \in DOMAIN pendingAdmissions \ {u} :
            pendingAdmissions'[v] = pendingAdmissions[v]
  BY DEF Without
<1>3. \A v \in Uid : clients'[v] = IF v = u THEN c ELSE clients[v]
  BY DEF NamesInv, TypeInv, ClientsOK
<1>4. u \in DOMAIN pendingAdmissions /\ pendingAdmissions[u] = conn'[c].name
  BY DEF Admitted
<1>5. u \in Online => conn[clients[u]].name = conn'[c].name
  BY <1>4, OneName
<1>6. c # NoConn /\ u \in Online'
  BY <1>3, NullAssumption DEF Online
<1>7. GuestsHold'
  <2>1. ASSUME NEW v \in Guest, v \in Online'
        PROVE  /\ conn'[clients'[v]].name \in DOMAIN displayOwners
               /\ displayOwners[conn'[clients'[v]].name] = v
    <3>1. CASE v = u
      BY <1>3, <1>4, <3>1 DEF NamesInv, GuestsHold
    <3>2. CASE v # u
      <4>1. v \in Uid /\ v \in Online
        BY <1>3, <2>1, <3>2 DEF Online
      <4> QED BY <1>1, <1>3, <3>2, <4>1 DEF NamesInv, GuestsHold
    <3> QED BY <3>1, <3>2
  <2>2. ASSUME NEW v \in Guest, v \in DOMAIN pendingAdmissions'
        PROVE  /\ pendingAdmissions'[v] \in DOMAIN displayOwners
               /\ displayOwners[pendingAdmissions'[v]] = v
    BY <1>2, <2>2 DEF NamesInv, GuestsHold
  <2> QED BY <2>1, <2>2 DEF GuestsHold
<1>8. ASSUME NEW j \in DOMAIN displayOwners, NEW v, v = displayOwners[j]
      PROVE  \/ v \in Online' /\ conn'[clients'[v]].name = j
             \/ v \in DOMAIN pendingAdmissions' /\ pendingAdmissions'[v] = j
  <2>1. \/ v \in Online /\ conn[clients[v]].name = j
        \/ v \in DOMAIN pendingAdmissions /\ pendingAdmissions[v] = j
    BY <1>8 DEF NamesInv, NamesComeBack
  <2>2. CASE v = u
    BY <1>3, <1>4, <1>5, <1>6, <2>1, <2>2
  <2>3. CASE v # u
    BY <1>1, <1>2, <1>3, <2>1, <2>3 DEF Online
  <2> QED BY <2>2, <2>3
<1>9. NamesComeBack'
  BY <1>8 DEF NamesComeBack
<1> QED BY <1>7, <1>9 DEF HeldInv

\* ReleaseProfileReservation: what nobody else has a right to is free again.
LEMMA ReleaseNames ==
    ASSUME NamesInv, NEW c \in Conn, ReleaseProfileReservation(c)
    PROVE  HeldInv'
<1> DEFINE u == conn[c].user
           k == conn[c].name
<1>0. /\ Moves(c) /\ conn[c].pc = "revoked" /\ u \in Uid /\ clients' = clients
  BY GiveUpMove
  DEF ReleaseProfileReservation, At, NamesInv, TypeInv, ConnOK, WellNamed
<1>1. \A v \in Online : /\ clients[v] \in Conn \ {c}
                        /\ conn'[clients[v]] = conn[clients[v]]
  BY <1>0 DEF NamesInv, ClientsLive, Moves
<1>2. /\ \A v \in DOMAIN pendingAdmissions :
            ~ (v = u /\ pendingAdmissions[v] = k) => v \in DOMAIN pendingAdmissions'
      /\ \A v \in DOMAIN pendingAdmissions' :
            /\ v \in DOMAIN pendingAdmissions
            /\ pendingAdmissions'[v] = pendingAdmissions[v]
            /\ ~ (v = u /\ pendingAdmissions[v] = k)
  BY DEF ReleaseProfileReservation, Admitted, Without
<1>3. /\ \A j \in DOMAIN displayOwners' :
            /\ j \in DOMAIN displayOwners
            /\ displayOwners'[j] = displayOwners[j]
            /\ j = k /\ displayOwners[j] = u => u \in Online
      /\ \A j \in DOMAIN displayOwners :
            \/ j \in DOMAIN displayOwners'
            \/ j = k /\ displayOwners[j] = u /\ u \notin Online
  BY DEF ReleaseProfileReservation, Without
<1>4. u \in Online /\ u \in DOMAIN pendingAdmissions =>
         pendingAdmissions[u] = conn[clients[u]].name
  BY <1>0, OneName
<1> HIDE DEF u, k
<1>5. GuestsHold'
  <2>1. ASSUME NEW v \in Guest, v \in Online'
        PROVE  /\ conn'[clients'[v]].name \in DOMAIN displayOwners'
               /\ displayOwners'[conn'[clients'[v]].name] = v
    <3>1. v \in Online
      BY <1>0, <2>1 DEF Online
    <3>2. /\ conn[clients[v]].name \in DOMAIN displayOwners
          /\ displayOwners[conn[clients[v]].name] = v
      BY <3>1 DEF NamesInv, GuestsHold
    <3> QED BY <1>0, <1>1, <1>3, <3>1, <3>2
  <2>2. ASSUME NEW v \in Guest, v \in DOMAIN pendingAdmissions'
        PROVE  /\ pendingAdmissions'[v] \in DOMAIN displayOwners'
               /\ displayOwners'[pendingAdmissions'[v]] = v
    <3>1. /\ pendingAdmissions[v] \in DOMAIN displayOwners
          /\ displayOwners[pendingAdmissions[v]] = v
      BY <1>2, <2>2 DEF NamesInv, GuestsHold
    <3> QED BY <1>2, <1>3, <2>2, <3>1
  <2> QED BY <2>1, <2>2 DEF GuestsHold
<1>6. ASSUME NEW j \in DOMAIN displayOwners', NEW v, v = displayOwners'[j]
      PROVE  \/ v \in Online' /\ conn'[clients'[v]].name = j
             \/ v \in DOMAIN pendingAdmissions' /\ pendingAdmissions'[v] = j
  <2>1. /\ v = displayOwners[j]
        /\ \/ v \in Online /\ conn[clients[v]].name = j
           \/ v \in DOMAIN pendingAdmissions /\ pendingAdmissions[v] = j
    BY <1>3, <1>6 DEF NamesInv, NamesComeBack
  <2>2. CASE v \in Online /\ conn[clients[v]].name = j
    BY <1>0, <1>1, <2>2 DEF Online
  <2>3. CASE v \in DOMAIN pendingAdmissions /\ pendingAdmissions[v] = j
    <3>1. CASE v = u /\ j = k
      <4>1. u \in Online BY <1>3, <2>1, <3>1
      <4> QED BY <1>4, <2>2, <2>3, <3>1, <4>1
    <3>2. CASE ~ (v = u /\ j = k)
      BY <1>2, <2>3, <3>2
    <3> QED BY <3>1, <3>2
  <2> QED BY <2>1, <2>2, <2>3
<1>7. NamesComeBack'
  BY <1>6 DEF NamesComeBack
<1> QED BY <1>5, <1>7 DEF HeldInv

\* disconnectLocked: the name of whoever goes offline is free again.
LEMMA DropNames ==
    ASSUME NamesInv, NEW u \in Online, DisconnectLocked(u),
           pendingAdmissions' = pendingAdmissions,
           \A d \in Conn \ {clients[u]} : conn'[d] = conn[d]
    PROVE  HeldInv'
<1> DEFINE n == conn[clients[u]].name
<1>0. u \in Uid BY DEF Online
<1>1. \A v \in Uid : clients'[v] = IF v = u THEN NoConn ELSE clients[v]
  BY <1>0 DEF DisconnectLocked, NamesInv, TypeInv, ClientsOK
<1>2. \A v \in Online \ {u} : /\ clients[v] \in Conn \ {clients[u]}
                              /\ conn'[clients[v]] = conn[clients[v]]
  BY DEF NamesInv, ClientsLive
<1>3. /\ DOMAIN displayOwners' = DOMAIN displayOwners \ {n}
      /\ \A j \in DOMAIN displayOwners' : displayOwners'[j] = displayOwners[j]
      /\ n \in DOMAIN displayOwners => displayOwners[n] = u
  BY LiveNameOwned DEF DisconnectLocked, Without
<1>4. u \in Guest => u \notin DOMAIN pendingAdmissions
  BY GuestOnce
<1>5. \A v \in Online' : v \in Online \ {u} /\ clients'[v] = clients[v]
  BY <1>1 DEF Online
<1>6. \A v \in Online \ {u} : v \in Online' /\ clients'[v] = clients[v]
  BY <1>1 DEF Online
<1> HIDE DEF n
<1>7. GuestsHold'
  <2>1. ASSUME NEW v \in Guest, v \in Online'
        PROVE  /\ conn'[clients'[v]].name \in DOMAIN displayOwners'
               /\ displayOwners'[conn'[clients'[v]].name] = v
    BY <1>2, <1>3, <1>5, <2>1 DEF NamesInv, GuestsHold
  <2>2. ASSUME NEW v \in Guest, v \in DOMAIN pendingAdmissions
        PROVE  /\ pendingAdmissions[v] \in DOMAIN displayOwners'
               /\ displayOwners'[pendingAdmissions[v]] = v
    BY <1>3, <1>4, <2>2 DEF NamesInv, GuestsHold
  <2> QED BY <2>1, <2>2 DEF GuestsHold
<1>8. ASSUME NEW j \in DOMAIN displayOwners', NEW v, v = displayOwners'[j]
      PROVE  \/ v \in Online' /\ conn'[clients'[v]].name = j
             \/ v \in DOMAIN pendingAdmissions /\ pendingAdmissions[v] = j
  <2>1. /\ v = displayOwners[j] /\ j # n
        /\ \/ v \in Online /\ conn[clients[v]].name = j
           \/ v \in DOMAIN pendingAdmissions /\ pendingAdmissions[v] = j
    BY <1>3, <1>8 DEF NamesInv, NamesComeBack
  <2>2. CASE v \in Online /\ conn[clients[v]].name = j
    <3>1. v # u BY <2>1, <2>2 DEF n
    <3> QED BY <1>2, <1>6, <2>2, <3>1
  <2> QED BY <2>1, <2>2
<1>9. NamesComeBack'
  BY <1>8 DEF NamesComeBack
<1> QED BY <1>7, <1>9 DEF HeldInv

\* updateProfile gives back the old name and takes the new one.
LEMMA RenameNames ==
    ASSUME NamesInv, NEW c \in Conn, NEW k \in Name, UpdateProfile(c, k),
           RenamesAlone
    PROVE  HeldInv'
<1> DEFINE u == conn[c].user
           old == conn[c].name
<1>0. /\ ConnOK /\ c # NoConn
      /\ clients' = clients /\ pendingAdmissions' = pendingAdmissions
  BY NullAssumption DEF UpdateProfile, NamesInv, TypeInv
<1>1. /\ Moves(c) /\ clients[u] = c /\ u \in Uid /\ conn'[c].name = k
      /\ conn[c].pc = "live"
  BY <1>0, RenameMove
<1>2. u \in Online BY <1>0, <1>1 DEF Online
<1>3. u \notin DOMAIN pendingAdmissions
  <2>1. CASE u \in Guest
    BY <1>2, <2>1, GuestOnce
  <2>2. CASE u \in User
    <3>1. \A d \in Conn \ {c} :
             conn[d].pc \in {"verified", "reserved", "issued"} =>
                conn[d].user # u
      BY DEF RenamesAlone
    <3> QED BY <1>1, <3>1 DEF NamesInv, ReservationsVerified
  <2> QED BY <1>1, <2>1, <2>2 DEF Uid
<1>4. /\ \A j \in DOMAIN displayOwners' :
            \/ j = k /\ displayOwners'[j] = u
            \/ /\ j # k /\ j \in DOMAIN displayOwners
               /\ displayOwners'[j] = displayOwners[j]
               /\ ~ (j = old /\ displayOwners[j] = u)
      /\ \A j \in DOMAIN displayOwners : displayOwners[j] # u =>
            j \in DOMAIN displayOwners' /\ displayOwners'[j] = displayOwners[j]
      /\ k \in DOMAIN displayOwners' /\ displayOwners'[k] = u
  BY DEF UpdateProfile, NewOwners, Put, Without, OwnedByAnother
<1>5. \A v \in Online \ {u} : /\ clients[v] \in Conn \ {c}
                              /\ conn'[clients[v]] = conn[clients[v]]
  BY <1>1 DEF NamesInv, ClientsLive, Moves
<1>6. Online' = Online BY <1>0 DEF Online
<1>7. clients[u] = c /\ conn[clients[u]].name = old
  BY <1>1
<1> HIDE DEF u, old
<1>8. GuestsHold'
  <2>1. ASSUME NEW v \in Guest, v \in Online
        PROVE  /\ conn'[clients[v]].name \in DOMAIN displayOwners'
               /\ displayOwners'[conn'[clients[v]].name] = v
    <3>1. CASE v = u
      BY <1>1, <1>4, <1>7, <3>1
    <3>2. CASE v # u
      BY <1>4, <1>5, <2>1, <3>2 DEF NamesInv, GuestsHold
    <3> QED BY <3>1, <3>2
  <2>2. ASSUME NEW v \in Guest, v \in DOMAIN pendingAdmissions
        PROVE  /\ pendingAdmissions[v] \in DOMAIN displayOwners'
               /\ displayOwners'[pendingAdmissions[v]] = v
    BY <1>3, <1>4, <2>2 DEF NamesInv, GuestsHold
  <2> QED BY <1>0, <1>6, <2>1, <2>2 DEF GuestsHold
<1>9. ASSUME NEW j \in DOMAIN displayOwners', NEW v, v = displayOwners'[j]
      PROVE  \/ v \in Online /\ conn'[clients[v]].name = j
             \/ v \in DOMAIN pendingAdmissions /\ pendingAdmissions[v] = j
  <2>1. CASE j = k /\ displayOwners'[j] = u
    BY <1>1, <1>2, <1>7, <1>9, <2>1
  <2>2. CASE /\ j # k /\ j \in DOMAIN displayOwners
             /\ displayOwners'[j] = displayOwners[j]
             /\ ~ (j = old /\ displayOwners[j] = u)
    <3>1. \/ v \in Online /\ conn[clients[v]].name = j
          \/ v \in DOMAIN pendingAdmissions /\ pendingAdmissions[v] = j
      BY <1>9, <2>2 DEF NamesInv, NamesComeBack
    <3>2. CASE v \in Online /\ conn[clients[v]].name = j
      <4>1. v # u BY <1>7, <1>9, <2>2, <3>2
      <4> QED BY <1>5, <3>2, <4>1
    <3> QED BY <3>1, <3>2
  <2> QED BY <1>4, <2>1, <2>2
<1>10. NamesComeBack'
  BY <1>0, <1>6, <1>9 DEF NamesComeBack
<1> QED BY <1>8, <1>10 DEF HeldInv

\* revokeProfileAccessLocked takes from u what he has and what he is promised.
LEMMA RevokeNames ==
    ASSUME NamesInv, NEW u \in User, RevokeProfileAccess(u), conn' = conn
    PROVE  HeldInv'
<1> DEFINE n == conn[clients[u]].name
           k == pendingAdmissions[u]
<1>0. u \in Uid /\ u \notin Guest
  BY GuestAssumption DEF Uid
<1>1. \A v \in Uid : clients'[v] = IF v = u THEN NoConn ELSE clients[v]
  BY <1>0 DEF RevokeProfileAccess, NamesInv, TypeInv, ClientsOK
<1>2. /\ DOMAIN pendingAdmissions' = DOMAIN pendingAdmissions \ {u}
      /\ \A v \in DOMAIN pendingAdmissions' :
            pendingAdmissions'[v] = pendingAdmissions[v]
  BY DEF RevokeProfileAccess, Without
<1>3. /\ \A j \in DOMAIN displayOwners' :
            /\ j \in DOMAIN displayOwners
            /\ displayOwners'[j] = displayOwners[j]
            /\ u \in Online => j # n
            /\ u \in DOMAIN pendingAdmissions /\ displayOwners[j] = u => j # k
      /\ \A j \in DOMAIN displayOwners :
            \/ j \in DOMAIN displayOwners'
            \/ u \in Online /\ j = n
            \/ displayOwners[j] = u
  BY DEF RevokeProfileAccess, Without
<1>4. u \in Online /\ n \in DOMAIN displayOwners => displayOwners[n] = u
  BY LiveNameOwned
<1>5. Online' = Online \ {u}
  BY <1>1 DEF Online
<1> HIDE DEF n, k
<1>6. \A j \in DOMAIN displayOwners : displayOwners[j] # u =>
         j \in DOMAIN displayOwners' /\ displayOwners'[j] = displayOwners[j]
  BY <1>3, <1>4
<1>7. GuestsHold'
  <2>1. ASSUME NEW v \in Guest, v \in Online'
        PROVE  /\ conn[clients'[v]].name \in DOMAIN displayOwners'
               /\ displayOwners'[conn[clients'[v]].name] = v
    <3>1. v # u /\ v \in Online /\ v \in Uid
      BY <1>0, <1>5, <2>1 DEF Uid
    <3> QED BY <1>1, <1>6, <3>1 DEF NamesInv, GuestsHold
  <2>2. ASSUME NEW v \in Guest, v \in DOMAIN pendingAdmissions'
        PROVE  /\ pendingAdmissions'[v] \in DOMAIN displayOwners'
               /\ displayOwners'[pendingAdmissions'[v]] = v
    BY <1>0, <1>2, <1>6, <2>2 DEF NamesInv, GuestsHold
  <2> QED BY <2>1, <2>2 DEF GuestsHold
<1>8. ASSUME NEW j \in DOMAIN displayOwners', NEW v, v = displayOwners'[j]
      PROVE  \/ v \in Online' /\ conn[clients'[v]].name = j
             \/ v \in DOMAIN pendingAdmissions' /\ pendingAdmissions'[v] = j
  <2>1. /\ v = displayOwners[j] /\ j \in DOMAIN displayOwners
        /\ \/ v \in Online /\ conn[clients[v]].name = j
           \/ v \in DOMAIN pendingAdmissions /\ pendingAdmissions[v] = j
    BY <1>3, <1>8 DEF NamesInv, NamesComeBack
  <2>2. v # u
    BY <1>3, <2>1, <1>8 DEF n, k
  <2> QED BY <1>1, <1>2, <1>5, <2>1, <2>2 DEF Online
<1>9. NamesComeBack'
  BY <1>8 DEF NamesComeBack
<1> QED BY <1>7, <1>9 DEF HeldInv

\* Every step keeps names and users together.
LEMMA HeldStep ==
    ASSUME NamesInv, [Next /\ RenamesAlone]_vars
    PROVE  HeldInv'
<1> USE DEF At
<1>0. /\ ConnOK /\ SessionsOK /\ StoreOK /\ User \subseteq Uid
      /\ \A u \in Guest : u \notin User
  BY GuestAssumption DEF NamesInv, TypeInv, Uid
<1>1. ASSUME NEW c \in Conn, NEW pc,
             Goto(c, pc) \/ (\E t : Told(c, pc, t)) \/ GiveUp(c),
             conn[c].pc # "live",
             UNCHANGED <<clients, pendingAdmissions, displayOwners>>
      PROVE  HeldInv'
  BY <1>0, <1>1, GotoMove, GiveUpMove, QuietNames
<1>2. ASSUME NEW c \in Conn, ReserveProfile(c) PROVE HeldInv'
  <2> DEFINE u == conn[c].user
             k == conn[c].name
  <2>1. /\ u \in Guest /\ u \in Uid /\ conn[c].pc = "guest" /\ clients' = clients
    BY <1>0, <1>2 DEF ReserveProfile, ConnOK, WellNamed, Uid
  <2>2. u \notin DOMAIN pendingAdmissions
    BY <2>1, GuestOnce
  <2>3. CASE CanReserve(u, k) /\ Reserve(u, k) /\ Goto(c, "reserved")
    <3>1. Moves(c) /\ Reserve(u, k) /\ ~ OwnedByAnother(k, u)
      BY <1>0, <2>3, GotoMove DEF CanReserve
    <3> HIDE DEF u, k
    <3> QED BY <1>0, <2>1, <2>2, <3>1, TakeNames
  <2>4. CASE GiveUp(c) /\ UNCHANGED <<displayOwners, pendingAdmissions>>
    BY <1>1, <2>1, <2>4
  <2> QED BY <1>2, <2>3, <2>4 DEF ReserveProfile
<1>3. ASSUME NEW c \in Conn, ReserveAuthenticated(c) \/ CommitRegistration(c)
      PROVE  HeldInv'
  <2> DEFINE u == conn[c].user
             k == conn[c].name
  <2>1. /\ u \in User /\ u \notin Guest /\ u \in Uid /\ clients' = clients
        /\ conn[c].pc \in {"verified", "registered"}
    BY <1>0, <1>3
    DEF ReserveAuthenticated, CommitRegistration, ConnOK, WellNamed
  <2>2. CASE /\ Reserve(u, k) /\ Goto(c, "reserved")
             /\ Current(c)
             /\ \/ conn[c].pc = "verified" /\ CanReserve(u, k)
                \/ conn[c].pc = "registered" /\ profiles[u].name = k
    <3>1. Moves(c) /\ Reserve(u, k)
      BY <1>0, <2>2, GotoMove
    <3>2. k = profiles[u].name
      BY <2>2 DEF NamesInv, NamesStored, Promised, Current
    <3>3. ~ OwnedByAnother(k, u)
      BY <2>2
      DEF CanReserve, NamesInv, RegistrationHoldsName, OwnedByAnother
    <3> HIDE DEF u, k
    <3> QED BY <2>1, <3>1, <3>2, <3>3, TakeNames
  <2>3. CASE GiveUp(c) /\ UNCHANGED <<displayOwners, pendingAdmissions>>
    BY <1>1, <2>1, <2>3
  <2> QED
    BY <1>3, <2>2, <2>3 DEF ReserveAuthenticated, CommitRegistration
<1>4. ASSUME NEW c \in Conn, NEW t \in Token, ResumeAndReserve(c, t)
      PROVE  HeldInv'
  <2> DEFINE u == sessions[t]
             k == profiles[u].name
             x == [pc |-> "reserved", user |-> u, name |-> k,
                   stamp |-> profiles[u].stamp, token |-> t]
  <2>1. /\ u \in User /\ u \notin Guest /\ u \in Uid /\ clients' = clients
        /\ conn[c].pc = "idle"
    BY <1>0, <1>4, MapValue DEF ResumeAndReserve, SessionsOK
  <2>2. CASE /\ CanReserve(u, k) /\ Reserve(u, k)
             /\ conn' = [conn EXCEPT ![c] = x]
    <3>1. Moves(c) /\ Reserve(u, k) /\ ~ OwnedByAnother(k, u)
      BY <1>0, <2>2 DEF Moves, ConnOK, CanReserve
    <3>2. k = profiles[u].name
      OBVIOUS
    <3> HIDE DEF u, k
    <3> QED BY <2>1, <3>1, <3>2, TakeNames
  <2>3. CASE UNCHANGED <<displayOwners, pendingAdmissions, conn>>
    <3>1. Moves(c) BY <2>3 DEF Moves
    <3> QED BY <2>1, <2>3, <3>1, QuietNames
  <2> QED BY <1>4, <2>2, <2>3 DEF ResumeAndReserve
<1>5. ASSUME NEW c \in Conn, Register(c) PROVE HeldInv'
  <2>1. /\ conn[c].pc = "registering"
        /\ UNCHANGED <<clients, pendingAdmissions, displayOwners>>
    BY <1>5 DEF Register, nameVars
  <2>2. Moves(c)
    BY <1>0, <1>5, GotoMove, RegisterMove DEF Register
  <2> QED BY <2>1, <2>2, QuietNames
<1>6. ASSUME NEW c \in Conn, ReleaseRegistration(c) PROVE HeldInv'
  BY <1>1, <1>6 DEF ReleaseRegistration
<1>7. ASSUME NEW c \in Conn, IssueSession(c) PROVE HeldInv'
  <2>1. /\ conn[c].pc = "reserved" /\ \E pc, t : Told(c, pc, t)
        /\ UNCHANGED <<clients, pendingAdmissions, displayOwners>>
    BY <1>7 DEF IssueSession, Return, Told, nameVars
  <2> QED BY <1>1, <2>1
<1>8. ASSUME NEW c \in Conn, Connect(c) PROVE HeldInv'
  <2> DEFINE u == conn[c].user
  <2>1. /\ u \in Uid /\ conn[c].pc \in {"issued", "reserved"}
        /\ displayOwners' = displayOwners
    BY <1>0, <1>8 DEF Connect, ConnOK, WellNamed
  <2>2. Moves(c) /\ conn'[c].name = conn[c].name
    BY <1>0, <1>8, GotoMove DEF Connect, Return, Told
  <2>3. CASE /\ Admitted(c)
             /\ pendingAdmissions' = Without(pendingAdmissions, {u})
             /\ clients' = [clients EXCEPT ![u] = c]
    BY <2>1, <2>2, <2>3, ConnectNames
  <2>4. CASE UNCHANGED <<pendingAdmissions, clients>>
    BY <2>1, <2>2, <2>4, QuietNames
  <2> QED BY <1>8, <2>3, <2>4 DEF Connect
<1>9. ASSUME NEW c \in Conn, Advance(c) PROVE HeldInv'
  BY <1>2, <1>3, <1>5, <1>6, <1>7, <1>8, <1>9, ReleaseNames DEF Advance
<1>10. ASSUME NEW c \in Conn, conn[c].pc = "idle",
              NEW x, conn' = [conn EXCEPT ![c] = x],
              UNCHANGED <<clients, pendingAdmissions, displayOwners>>
       PROVE  HeldInv'
  <2>1. Moves(c) BY <1>0, <1>10 DEF Moves, ConnOK
  <2> QED BY <1>10, <2>1, QuietNames
<1>11. ASSUME NEW c \in Conn,
              \/ \E u \in Guest, k \in Name : NewGuest(c, u, k)
              \/ \E k \in Name : ReserveRegistration(c, k)
              \/ \E u \in User : Authenticate(c, u)
       PROVE  HeldInv'
  BY <1>10, <1>11 DEF NewGuest, ReserveRegistration, Authenticate, nameVars
<1>12. ASSUME NEW c \in Conn, Disconnect(c) PROVE HeldInv'
  <2> DEFINE u == conn[c].user
  <2>1. /\ Moves(c) /\ u \in Uid /\ c # NoConn
        /\ pendingAdmissions' = pendingAdmissions
    BY <1>0, <1>12, GiveUpMove, NullAssumption DEF Disconnect, ConnOK, WellNamed
  <2>2. CASE clients[u] = c /\ DisconnectLocked(u)
    <3>1. u \in Online BY <2>1, <2>2 DEF Online
    <3>2. \A d \in Conn \ {clients[u]} : conn'[d] = conn[d]
      BY <2>1, <2>2 DEF Moves
    <3> HIDE DEF u
    <3> QED BY <2>1, <2>2, <3>1, <3>2, DropNames
  <2>3. CASE clients[u] # c /\ UNCHANGED <<clients, displayOwners>>
    BY <2>1, <2>3, QuietNames
  <2> QED BY <1>12, <2>2, <2>3 DEF Disconnect
<1>13. ASSUME NEW u \in Uid, AdminDisconnect(u) PROVE HeldInv'
  BY <1>13, DropNames DEF AdminDisconnect
<1>14. ASSUME NEW u \in User, AdminResetPassword(u) \/ AdminDeleteProfile(u)
       PROVE  HeldInv'
  BY <1>14, RevokeNames DEF AdminResetPassword, AdminDeleteProfile
<1>15. ASSUME UNCHANGED <<clients, pendingAdmissions, displayOwners, conn>>
       PROVE  HeldInv'
  BY <1>15 DEF NamesInv, HeldInv, GuestsHold, NamesComeBack, Online
<1>16. ASSUME NEW c \in Conn, NEW k \in Name, UpdateProfile(c, k), RenamesAlone
       PROVE  HeldInv'
  BY <1>16, RenameNames
<1> QED
  BY <1>4, <1>9, <1>11, <1>12, <1>13, <1>14, <1>15, <1>16
  DEF Next, SessionExpires, vars, nameVars

\* A step of Next under RenamesAlone is a step of Next.
LEMMA OrderlyIsSpec == OrderlySpec => Spec
<1>1. [Next /\ RenamesAlone]_vars => [Next]_vars
  OBVIOUS
<1> QED BY <1>1, PTL DEF OrderlySpec, Spec

\* The invariant behind the names.
LEMMA NamesInvHolds == OrderlySpec => []NamesInv
<1>1. Init /\ TypeInv /\ RegistrationHoldsName /\ AccessNeedsProfile
           /\ ReservationsVerified
      => NamesInv
  <2> SUFFICES ASSUME Init
               PROVE  /\ UsersInv /\ ClientsLive
                      /\ StoreDistinct /\ NamesStored
                      /\ OwnersStored /\ GuestsHold /\ NamesComeBack
    BY DEF NamesInv
  <2>1. /\ \A c \in Conn : conn[c].pc = "idle" /\ conn[c].user = NoUser
        /\ Online = {}
        /\ DOMAIN displayOwners = {} /\ DOMAIN pendingAdmissions = {}
    BY DEF Init, EmptyMap, Idle, Unverified, Online
  <2>2. /\ DOMAIN profiles = DOMAIN InitialName
        /\ \A u \in DOMAIN profiles : profiles[u].name = InitialName[u]
        /\ NoUser \notin DOMAIN profiles
    BY InitialNameAssumption, NullAssumption DEF Init, IsMap, Uid
  <2>3. UsersInv /\ NamesStored
    BY <2>1, <2>2, NullAssumption
    DEF UsersInv, GuestsDistinct, UsersAssigned, NamesStored, Uid
  <2>4. StoreDistinct
    BY <2>2, InitialNameAssumption DEF StoreDistinct
  <2>5. ClientsLive /\ OwnersStored /\ GuestsHold /\ NamesComeBack
    BY <2>1 DEF ClientsLive, OwnersStored, GuestsHold, NamesComeBack
  <2> QED BY <2>3, <2>4, <2>5
<1>2. /\ NamesInv /\ TypeInv' /\ RegistrationHoldsName' /\ AccessNeedsProfile'
      /\ ReservationsVerified' /\ [Next /\ RenamesAlone]_vars
      => NamesInv'
  <2> SUFFICES ASSUME NamesInv, TypeInv', RegistrationHoldsName',
                      AccessNeedsProfile', ReservationsVerified',
                      [Next /\ RenamesAlone]_vars
               PROVE  NamesInv'
    OBVIOUS
  <2>1. [Next]_vars OBVIOUS
  <2>2. StoreOK BY DEF NamesInv, TypeInv
  <2>3. UsersInv' /\ ClientsLive' /\ StoreDistinct' /\ OwnersStored'
    BY <2>1, <2>2, UsersStep, ClientsStep, StoreDistinctStep, OwnersStoredStep
    DEF NamesInv
  <2>4. NamesStored'
    BY NamesStoredStep DEF NamesInv
  <2>5. GuestsHold' /\ NamesComeBack'
    BY HeldStep DEF HeldInv
  <2> QED BY <2>3, <2>4, <2>5 DEF NamesInv
<1> QED
  BY <1>1, <1>2, OrderlyIsSpec, TypeInvHolds, RegistrationsCorrect,
     AccessCorrect, CredentialsCorrect, PTL
  DEF OrderlySpec

\* However many connections share a profile, as long as none renames it
\* while another one is being admitted to it: a name that is taken is in use
\* and comes back,
THEOREM NamesCorrect == OrderlySpec => []NamesComeBack
<1>1. NamesInv => NamesComeBack
  BY DEF NamesInv
<1> QED BY <1>1, NamesInvHolds, PTL

\* and no two users are online under one name, nor one under a name that the
\* store keeps for another profile.
THEOREM LiveNamesCorrect == OrderlySpec => []LiveNamesDistinct
<1>1. NamesInv => LiveNamesDistinct
  <2> SUFFICES ASSUME NamesInv, NEW u \in Online
               PROVE  LET k == conn[clients[u]].name
                      IN  /\ ~ StoredForAnother(k, u)
                          /\ \A v \in Online \ {u} : conn[clients[v]].name # k
    BY DEF LiveNamesDistinct
  <2> DEFINE k == conn[clients[u]].name
  <2>1. \A v \in Online : v \in User \/ v \in Guest
    BY DEF Online, Uid
  <2>2. \A v \in Online : v \in Guest =>
           /\ conn[clients[v]].name \in DOMAIN displayOwners
           /\ displayOwners[conn[clients[v]].name] = v
    BY DEF NamesInv, GuestsHold
  <2>3. \A v \in Online : v \in User =>
           v \in DOMAIN profiles /\ profiles[v].name = conn[clients[v]].name
    BY OnlineName
  <2>4. ASSUME NEW v \in Online, v \in Guest, NEW w \in DOMAIN profiles,
               profiles[w].name = conn[clients[v]].name
        PROVE  w = v
    BY <2>2, <2>4 DEF NamesInv, OwnersStored, StoredForAnother
  <2>5. \A v, w \in DOMAIN profiles : profiles[v].name = profiles[w].name => v = w
    BY DEF NamesInv, StoreDistinct
  <2>6. ~ StoredForAnother(k, u)
    BY <2>1, <2>3, <2>4, <2>5 DEF StoredForAnother
  <2>7. ASSUME NEW v \in Online \ {u}, conn[clients[v]].name = k PROVE FALSE
    BY <2>1, <2>2, <2>3, <2>4, <2>5, <2>7
  <2> QED BY <2>6, <2>7
<1> QED BY <1>1, NamesInvHolds, PTL
=============================================================================
