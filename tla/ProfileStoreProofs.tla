------------------------- MODULE ProfileStoreProofs -------------------------
(***************************************************************************)
(* Proofs about ProfileStore.tla: what is committed is consistent, results *)
(* are counted once, and every call is one step of Profiles.tla or none.   *)
(*                                                                         *)
(* The argument.  A call checks what is committed and writes later; nobody *)
(* else commits in between, for the transaction holds the write lock.  The *)
(* inductive invariant StoreInv says so: next to the properties it holds   *)
(* CallInv, by which an open transaction is the rest of one call, what the *)
(* call checked is still true of what is committed, and the database of    *)
(* the transaction is what is committed with the statements applied that   *)
(* are no longer left.  So a commit puts into force the statements of one  *)
(* call together, whose effect on a consistent database the After lemmas   *)
(* give; a rollback and a crash put nothing into force.                    *)
(*                                                                         *)
(* ResultsCountedOnce counts games and needs finitely many of them to have *)
(* started, which CountInv says; that only games in the state reported     *)
(* have counted, and only for the ids of their roster, all of them given,  *)
(* makes a new id and a new report count for nobody before.                *)
(*                                                                         *)
(* For the refinement the database of the transaction is invisible: only   *)
(* Commit changes what Profiles.tla sees, and it is the action of the call *)
(* that CallInv names.                                                     *)
(***************************************************************************)
EXTENDS ProfileStore, FiniteSetTheorems, TLAPS

-----------------------------------------------------------------------------
(* The inductive invariant.                                                *)

InsertProfile(u, n) ==
    [kind |-> "insert profile", at |-> 1, username |-> u, name |-> n]
UpdateName(id, n) == [kind |-> "update name", at |-> 1, id |-> id, name |-> n]
RemoveProfile(id) == [kind |-> "delete profile", at |-> 1, id |-> id]
InsertRequest(from, target) ==
    [kind |-> "insert request", at |-> 1, from |-> from, target |-> target]
DeleteRequest(from, target) ==
    [kind |-> "delete request", at |-> 1, from |-> from, target |-> target]
InsertBuddies(pair) == [kind |-> "insert buddies", at |-> 2, pair |-> pair]
DeleteBuddies(pair) == [kind |-> "delete buddies", at |-> 1, pair |-> pair]
DeleteRequests(pair) == [kind |-> "delete requests", at |-> 2, pair |-> pair]
UpdateStats(id, played, change) ==
    [kind |-> "update stats", at |-> id, id |-> id, games |-> played,
     rating |-> change]

\* What a game changes for one of its players.
Result(id, winners) == UpdateStats(id, 1, IF id \in winners THEN 1 ELSE -1)

\* The transaction of a call with one statement: it is still to be executed,
\* or it was executed on what is committed.
HoldsOne(s) ==
    /\ tx.game = NoGame
    /\ \/ tx.left = {s} /\ tx.db = db
       \/ tx.left = {} /\ Executable(db, s) /\ tx.db = Executed(db, s)

\* That of a call with two, in their order.
HoldsTwo(first, second) ==
    /\ tx.game = NoGame
    /\ \/ tx.left = {first, second} /\ tx.db = db
       \/ tx.left = {second} /\ tx.db = Executed(db, first)
       \/ tx.left = {} /\ tx.db = Executed(Executed(db, first), second)

\* The profiles after the results of some players were added.
WithResults(profiles, done, winners) ==
    [id \in DOMAIN profiles |->
        IF id \in done THEN AddStats(profiles[id], Result(id, winners))
        ELSE profiles[id]]

Resulting(d, done, winners) ==
    [d EXCEPT !.profiles = WithResults(@, done, winners)]

\* That of a report: the results of the players in left are still to be
\* written, those of the others are.
HoldsResults(g, winners, left) ==
    /\ tx.game = g
    /\ games[g].state = "started"
    /\ tx.rows \subseteq games[g].roster \intersect DOMAIN db.profiles
    /\ left \subseteq tx.rows
    /\ tx.left = {Result(id, winners) : id \in left}
    /\ \A id \in tx.rows \ left : Fits(db.profiles[id], Result(id, winners))
    /\ tx.db = Resulting(db, tx.rows \ left, winners)

\* What the call checked holds of what is committed until it commits.
HoldsRegister(u, n) ==
    /\ HasRoom
    /\ db.lastId < MaxId
    /\ \A id \in DOMAIN db.profiles :
          db.profiles[id].username # u /\ db.profiles[id].name # n
    /\ HoldsOne(InsertProfile(u, n))

HoldsRename(id, n) ==
    /\ id \in DOMAIN db.profiles
    /\ \A other \in DOMAIN db.profiles :
          db.profiles[other].name = n => other = id
    /\ HoldsOne(UpdateName(id, n))

HoldsDelete(id) == id \in DOMAIN db.profiles /\ HoldsOne(RemoveProfile(id))

HoldsRequest(from, target) ==
    /\ from # target
    /\ from \in DOMAIN db.profiles /\ target \in DOMAIN db.profiles
    /\ {from, target} \notin db.buddies
    /\ PendingCount(target) < MaxBuddies
    /\ HoldsOne(InsertRequest(from, target))

HoldsAccept(user, requester) ==
    /\ user # requester
    /\ user \in DOMAIN db.profiles /\ requester \in DOMAIN db.profiles
    /\ <<requester, user>> \in db.requests
    /\ HoldsTwo(DeleteRequest(requester, user), InsertBuddies({user, requester}))

HoldsRemove(user, buddy) ==
    /\ user \in DOMAIN db.profiles /\ buddy \in DOMAIN db.profiles
    /\ HoldsTwo(DeleteBuddies({user, buddy}), DeleteRequests({user, buddy}))

HoldsRating(id, delta) == HoldsOne(UpdateStats(id, 0, delta))

\* The open transaction is the rest of one call.
CallInv ==
    tx # Idle =>
        /\ limit > 0
        /\ \/ \E u \in Username, n \in DisplayName : HoldsRegister(u, n)
           \/ \E id \in Id, n \in DisplayName : HoldsRename(id, n)
           \/ \E id \in Id : HoldsDelete(id)
           \/ \E id, other \in Id : \/ HoldsRequest(id, other)
                                    \/ HoldsAccept(id, other)
                                    \/ HoldsRemove(id, other)
           \/ \E id \in Id, delta \in Delta : HoldsRating(id, delta)
           \/ \E g \in Game, winners, left \in SUBSET Id :
                 HoldsResults(g, winners, left)

\* Ids come from a counter, reports are counted for the players of a started
\* game, and only so many games were started.
CountInv ==
    /\ DOMAIN db.profiles \subseteq 1 .. db.lastId
    /\ \A g \in Game :
          /\ games[g].counted \subseteq games[g].roster
          /\ games[g].roster \subseteq 1 .. db.lastId
          /\ games[g].state # "reported" => games[g].counted = {}
    /\ IsFiniteSet({g \in Game : games[g].state # "waiting"})

StoreInv == TypeOK /\ StoreIsSound /\ ResultsCountedOnce /\ CallInv /\ CountInv

-----------------------------------------------------------------------------
(* What the statements do to a database.                                   *)

\* The fields of a database.
LEMMA DatabaseFields ==
    ASSUME NEW d, IsDatabase(d)
    PROVE  /\ d.profiles \in [DOMAIN d.profiles -> Profile]
           /\ DOMAIN d.profiles \subseteq Id
           /\ d.buddies \subseteq {{i, j} : i, j \in Id}
           /\ d.requests \subseteq Id \X Id
           /\ d.lastId \in 0 .. MaxId /\ d.lastId \in Nat
           /\ d = [profiles |-> d.profiles, buddies |-> d.buddies,
                   requests |-> d.requests, lastId |-> d.lastId]
<1>1. d \in [profiles: [DOMAIN d.profiles -> Profile],
             buddies: SUBSET {{i, j} : i, j \in Id},
             requests: SUBSET (Id \X Id), lastId: 0 .. MaxId]
      /\ DOMAIN d.profiles \subseteq Id
  BY DEF IsDatabase
<1>2. d = [profiles |-> d.profiles, buddies |-> d.buddies,
           requests |-> d.requests, lastId |-> d.lastId]
  BY <1>1
<1>3. d.lastId \in 0 .. MaxId /\ d.lastId \in Nat
  BY <1>1, MaxIdAssumption
<1> QED BY <1>1, <1>2, <1>3

\* A database from its parts.
LEMMA DatabaseOf ==
    ASSUME NEW p, NEW b, NEW r, NEW i,
           p \in [DOMAIN p -> Profile], DOMAIN p \subseteq Id,
           b \subseteq {{j, k} : j, k \in Id}, r \subseteq Id \X Id,
           i \in 0 .. MaxId
    PROVE  LET d == [profiles |-> p, buddies |-> b, requests |-> r, lastId |-> i]
           IN  /\ IsDatabase(d)
               /\ d.profiles = p /\ d.buddies = b /\ d.requests = r /\ d.lastId = i
BY DEF IsDatabase

\* A database in which some parts are replaced.
LEMMA DatabaseExcept ==
    ASSUME NEW d, IsDatabase(d), NEW p, NEW b, NEW r, NEW i
    PROVE  /\ [d EXCEPT !.profiles = p] =
                 [profiles |-> p, buddies |-> d.buddies,
                  requests |-> d.requests, lastId |-> d.lastId]
           /\ [d EXCEPT !.buddies = b] =
                 [profiles |-> d.profiles, buddies |-> b,
                  requests |-> d.requests, lastId |-> d.lastId]
           /\ [d EXCEPT !.requests = r] =
                 [profiles |-> d.profiles, buddies |-> d.buddies,
                  requests |-> r, lastId |-> d.lastId]
           /\ [d EXCEPT !.profiles = p, !.lastId = i] =
                 [profiles |-> p, buddies |-> d.buddies,
                  requests |-> d.requests, lastId |-> i]
<1> DEFINE P == [DOMAIN d.profiles -> Profile]
           B == SUBSET {{j, k} : j, k \in Id}
           R == SUBSET (Id \X Id)
           L == 0 .. MaxId
<1>1. d \in [profiles: P, buddies: B, requests: R, lastId: L]
  BY DEF IsDatabase
<1> HIDE DEF P, B, R, L
<1>2. [d EXCEPT !.profiles = p] =
         [profiles |-> p, buddies |-> d.buddies,
          requests |-> d.requests, lastId |-> d.lastId]
  BY <1>1
<1>3. [d EXCEPT !.buddies = b] =
         [profiles |-> d.profiles, buddies |-> b,
          requests |-> d.requests, lastId |-> d.lastId]
  BY <1>1
<1>4. [d EXCEPT !.requests = r] =
         [profiles |-> d.profiles, buddies |-> d.buddies,
          requests |-> r, lastId |-> d.lastId]
  BY <1>1
<1> DEFINE e == [profiles |-> p, buddies |-> d.buddies,
                 requests |-> d.requests, lastId |-> d.lastId]
<1>5. [d EXCEPT !.profiles = p, !.lastId = i] =
         [profiles |-> p, buddies |-> d.buddies,
          requests |-> d.requests, lastId |-> i]
  <2>1. [d EXCEPT !.profiles = p, !.lastId = i] = [e EXCEPT !.lastId = i]
    BY <1>2
  <2>2. [e EXCEPT !.lastId = i] =
           [profiles |-> p, buddies |-> d.buddies,
            requests |-> d.requests, lastId |-> i]
    OBVIOUS
  <2> QED BY <2>1, <2>2
<1> QED BY <1>2, <1>3, <1>4, <1>5

\* The database that each kind of statement makes: a new profile.
LEMMA InsertProfileDoes ==
    ASSUME NEW d, IsDatabase(d), NEW u, NEW n
    PROVE  Executed(d, InsertProfile(u, n)) =
              [profiles |-> Put(d.profiles, d.lastId + 1,
                               [username |-> u, name |-> n, games |-> 0, rating |-> 0]),
               buddies |-> d.buddies, requests |-> d.requests,
               lastId |-> d.lastId + 1]
<1> DEFINE s == InsertProfile(u, n)
<1>1. s.kind = "insert profile" /\ s.username = u /\ s.name = n
  BY DEF InsertProfile
<1> HIDE DEF s
<1>2. Executed(d, s) = Inserted(d, s)
  BY <1>1 DEF Executed
<1>3. Executed(d, s) =
         [profiles |-> Put(d.profiles, d.lastId + 1,
                          [username |-> u, name |-> n, games |-> 0, rating |-> 0]),
          buddies |-> d.buddies, requests |-> d.requests,
          lastId |-> d.lastId + 1]
  BY <1>1, <1>2, DatabaseExcept DEF Inserted, NextId
<1> QED BY <1>3 DEF s

\* A rename.
LEMMA UpdateNameDoes ==
    ASSUME NEW d, IsDatabase(d), NEW id, NEW n
    PROVE  Executed(d, UpdateName(id, n)) =
              [profiles |-> [d.profiles EXCEPT ![id].name = n],
               buddies |-> d.buddies, requests |-> d.requests,
               lastId |-> d.lastId]
<1> DEFINE s == UpdateName(id, n)
<1>1. s.kind = "update name" /\ s.id = id /\ s.name = n
  BY DEF UpdateName
<1> HIDE DEF s
<1>2. Executed(d, s) = [d EXCEPT !.profiles[s.id].name = s.name]
  BY <1>1 DEF Executed
<1>3. Executed(d, s) =
         [profiles |-> [d.profiles EXCEPT ![id].name = n],
          buddies |-> d.buddies, requests |-> d.requests,
          lastId |-> d.lastId]
  BY <1>1, <1>2, DatabaseExcept
<1> QED BY <1>3 DEF s

\* A deletion, with what referred to the profile.
LEMMA RemoveProfileDoes ==
    ASSUME NEW d, IsDatabase(d), NEW id
    PROVE  Executed(d, RemoveProfile(id)) =
              [profiles |-> Without(d.profiles, {id}),
               buddies |-> {pair \in d.buddies : id \notin pair},
               requests |-> {r \in d.requests : id \notin {r[1], r[2]}},
               lastId |-> d.lastId]
<1> DEFINE s == RemoveProfile(id)
<1>1. s.kind = "delete profile" /\ s.id = id
  BY DEF RemoveProfile
<1> HIDE DEF s
<1>2. Executed(d, s) = Deleted(d, s.id)
  BY <1>1 DEF Executed
<1> DEFINE p == Without(d.profiles, {id})
           b == {pair \in d.buddies : id \notin pair}
           r == {q \in d.requests : id \notin {q[1], q[2]}}
           e == [profiles |-> p, buddies |-> d.buddies,
                 requests |-> d.requests, lastId |-> d.lastId]
           f == [profiles |-> p, buddies |-> b,
                 requests |-> d.requests, lastId |-> d.lastId]
<1>3. Executed(d, s) = [d EXCEPT !.profiles = p, !.buddies = b, !.requests = r]
  BY <1>1, <1>2 DEF Deleted
<1> HIDE DEF p, b, r
<1>4. [d EXCEPT !.profiles = p, !.buddies = b, !.requests = r] =
         [profiles |-> p, buddies |-> b, requests |-> r, lastId |-> d.lastId]
  <2>1. [d EXCEPT !.profiles = p] = e
    BY DatabaseExcept
  <2>2. [d EXCEPT !.profiles = p, !.buddies = b, !.requests = r] =
           [[e EXCEPT !.buddies = b] EXCEPT !.requests = r]
    BY <2>1
  <2>3. [e EXCEPT !.buddies = b] = f
    OBVIOUS
  <2>4. [f EXCEPT !.requests = r] =
           [profiles |-> p, buddies |-> b, requests |-> r,
            lastId |-> d.lastId]
    OBVIOUS
  <2> QED BY <2>2, <2>3, <2>4
<1>5. Executed(d, s) =
         [profiles |-> p, buddies |-> b, requests |-> r, lastId |-> d.lastId]
  BY <1>3, <1>4
<1> QED BY <1>5 DEF s, p, b, r

\* A request that is made,
LEMMA InsertRequestDoes ==
    ASSUME NEW d, IsDatabase(d), NEW from, NEW target
    PROVE  Executed(d, InsertRequest(from, target)) =
              [profiles |-> d.profiles, buddies |-> d.buddies,
               requests |-> d.requests \union {<<from, target>>},
               lastId |-> d.lastId]
<1> DEFINE s == InsertRequest(from, target)
<1>1. s.kind = "insert request" /\ s.from = from /\ s.target = target
  BY DEF InsertRequest
<1> HIDE DEF s
<1>2. Executed(d, s) = [d EXCEPT !.requests = @ \union {<<s.from, s.target>>}]
  BY <1>1 DEF Executed
<1>3. Executed(d, s) =
         [profiles |-> d.profiles, buddies |-> d.buddies,
          requests |-> d.requests \union {<<from, target>>},
          lastId |-> d.lastId]
  BY <1>1, <1>2, DatabaseExcept
<1> QED BY <1>3 DEF s

\* one that is used up,
LEMMA DeleteRequestDoes ==
    ASSUME NEW d, IsDatabase(d), NEW from, NEW target
    PROVE  Executed(d, DeleteRequest(from, target)) =
              [profiles |-> d.profiles, buddies |-> d.buddies,
               requests |-> d.requests \ {<<from, target>>},
               lastId |-> d.lastId]
<1> DEFINE s == DeleteRequest(from, target)
<1>1. s.kind = "delete request" /\ s.from = from /\ s.target = target
  BY DEF DeleteRequest
<1> HIDE DEF s
<1>2. Executed(d, s) = [d EXCEPT !.requests = @ \ {<<s.from, s.target>>}]
  BY <1>1 DEF Executed
<1>3. Executed(d, s) =
         [profiles |-> d.profiles, buddies |-> d.buddies,
          requests |-> d.requests \ {<<from, target>>},
          lastId |-> d.lastId]
  BY <1>1, <1>2, DatabaseExcept
<1> QED BY <1>3 DEF s

\* a friendship that is made,
LEMMA InsertBuddiesDoes ==
    ASSUME NEW d, IsDatabase(d), NEW pair
    PROVE  Executed(d, InsertBuddies(pair)) =
              [profiles |-> d.profiles, buddies |-> d.buddies \union {pair},
               requests |-> d.requests, lastId |-> d.lastId]
<1> DEFINE s == InsertBuddies(pair)
<1>1. s.kind = "insert buddies" /\ s.pair = pair
  BY DEF InsertBuddies
<1> HIDE DEF s
<1>2. Executed(d, s) = [d EXCEPT !.buddies = @ \union {s.pair}]
  BY <1>1 DEF Executed
<1>3. Executed(d, s) =
         [profiles |-> d.profiles, buddies |-> d.buddies \union {pair},
          requests |-> d.requests, lastId |-> d.lastId]
  BY <1>1, <1>2, DatabaseExcept
<1> QED BY <1>3 DEF s

\* one that ends,
LEMMA DeleteBuddiesDoes ==
    ASSUME NEW d, IsDatabase(d), NEW pair
    PROVE  Executed(d, DeleteBuddies(pair)) =
              [profiles |-> d.profiles, buddies |-> d.buddies \ {pair},
               requests |-> d.requests, lastId |-> d.lastId]
<1> DEFINE s == DeleteBuddies(pair)
<1>1. s.kind = "delete buddies" /\ s.pair = pair
  BY DEF DeleteBuddies
<1> HIDE DEF s
<1>2. Executed(d, s) = [d EXCEPT !.buddies = @ \ {s.pair}]
  BY <1>1 DEF Executed
<1>3. Executed(d, s) =
         [profiles |-> d.profiles, buddies |-> d.buddies \ {pair},
          requests |-> d.requests, lastId |-> d.lastId]
  BY <1>1, <1>2, DatabaseExcept
<1> QED BY <1>3 DEF s

\* and the requests between the two that end with it.
LEMMA DeleteRequestsDoes ==
    ASSUME NEW d, IsDatabase(d), NEW pair
    PROVE  Executed(d, DeleteRequests(pair)) =
              [profiles |-> d.profiles, buddies |-> d.buddies,
               requests |-> {r \in d.requests : {r[1], r[2]} # pair},
               lastId |-> d.lastId]
<1> DEFINE s == DeleteRequests(pair)
<1>1. s.kind = "delete requests" /\ s.pair = pair
  BY DEF DeleteRequests
<1> HIDE DEF s
<1> DEFINE r == {q \in d.requests : {q[1], q[2]} # pair}
<1>2. Executed(d, s) = [d EXCEPT !.requests = r]
  BY <1>1 DEF Executed
<1> HIDE DEF r
<1>3. Executed(d, s) =
         [profiles |-> d.profiles, buddies |-> d.buddies, requests |-> r,
          lastId |-> d.lastId]
  BY <1>2, DatabaseExcept
<1> QED BY <1>3 DEF s, r

\* What is added to the counters, and when it can be.
LEMMA UpdateStatsDoes ==
    ASSUME NEW d, IsDatabase(d), NEW id, NEW played, NEW change
    PROVE  /\ Executed(d, UpdateStats(id, played, change)) =
                 [profiles |-> [d.profiles EXCEPT
                     ![id] = AddStats(@, UpdateStats(id, played, change))],
                  buddies |-> d.buddies, requests |-> d.requests,
                  lastId |-> d.lastId]
           /\ Executable(d, UpdateStats(id, played, change)) <=>
                 /\ id \in DOMAIN d.profiles
                 /\ Fits(d.profiles[id], UpdateStats(id, played, change))
<1> DEFINE s == UpdateStats(id, played, change)
<1>1. s.kind = "update stats" /\ s.id = id
  BY DEF UpdateStats
<1> HIDE DEF s
<1>2. /\ Executed(d, s) = [d EXCEPT !.profiles[s.id] = AddStats(@, s)]
      /\ Executable(d, s) <=>
            s.id \in DOMAIN d.profiles /\ Fits(d.profiles[s.id], s)
  BY <1>1 DEF Executed, Executable
<1>3. Executed(d, s) =
         [profiles |-> [d.profiles EXCEPT ![id] = AddStats(@, s)],
          buddies |-> d.buddies, requests |-> d.requests,
          lastId |-> d.lastId]
  BY <1>1, <1>2, DatabaseExcept
<1> QED BY <1>1, <1>2, <1>3 DEF s

\* A profile whose counters were added to, with what fits.
LEMMA AddStatsType ==
    ASSUME NEW p \in Profile, NEW id, NEW played \in {0, 1}, NEW change \in Int,
           Fits(p, UpdateStats(id, played, change))
    PROVE  LET q == AddStats(p, UpdateStats(id, played, change))
           IN  /\ q \in Profile
               /\ q.username = p.username /\ q.name = p.name
               /\ q.games = p.games + played
               /\ q.rating \in 0 .. MaxCounter
<1> DEFINE s == UpdateStats(id, played, change)
<1>1. /\ p \in [username: Username, name: DisplayName,
                games: 0 .. MaxCounter, rating: 0 .. MaxCounter]
      /\ p.games \in Nat /\ p.rating \in Nat /\ MaxCounter \in Nat
      /\ s.games = played /\ s.rating = change
  <2>1. p \in [username: Username, name: DisplayName,
               games: 0 .. MaxCounter, rating: 0 .. MaxCounter]
    BY DEF Profile
  <2>2. p.games \in 0 .. MaxCounter /\ p.rating \in 0 .. MaxCounter
    BY <2>1
  <2>3. s.games = played /\ s.rating = change
    BY DEF UpdateStats
  <2> QED BY <2>1, <2>2, <2>3, MaxCounterAssumption
<1>2. /\ p.games + played <= MaxCounter
      /\ p.rating + change <= MaxCounter
  BY <1>1 DEF Fits
<1> DEFINE rating == IF p.rating + change < 0 THEN 0 ELSE p.rating + change
<1>3. /\ p.games + played \in 0 .. MaxCounter
      /\ rating \in 0 .. MaxCounter
  BY <1>1, <1>2
<1>4. AddStats(p, s) = [p EXCEPT !.games = p.games + played, !.rating = rating]
  BY <1>1 DEF AddStats
<1> HIDE DEF rating, s
<1>5. /\ AddStats(p, s) \in Profile
      /\ AddStats(p, s).username = p.username /\ AddStats(p, s).name = p.name
      /\ AddStats(p, s).games = p.games + played
      /\ AddStats(p, s).rating = rating
  BY <1>1, <1>3, <1>4 DEF Profile
<1> QED BY <1>3, <1>5 DEF s

-----------------------------------------------------------------------------
(* A consistent database stays consistent under every call.                *)

\* The requests that are not between the two of pair.
Strangers(requests, pair) == {r \in requests : {r[1], r[2]} # pair}

Pending(requests, id) == {r \in requests : r[2] = id}

UniqueKeys(d) ==
    \A i, j \in DOMAIN d.profiles :
        i # j => /\ d.profiles[i].username # d.profiles[j].username
                 /\ d.profiles[i].name # d.profiles[j].name

Acquainted(d) ==
    /\ \A pair \in d.buddies :
          Cardinality(pair) = 2 /\ pair \subseteq DOMAIN d.profiles
    /\ \A r \in d.requests :
          r[1] # r[2] /\ r[1] \in DOMAIN d.profiles /\ r[2] \in DOMAIN d.profiles
    /\ \A id \in DOMAIN d.profiles :
          Cardinality(Pending(d.requests, id)) <= MaxBuddies

\* The counters of d, for the reports that gs holds.
Counted(d, gs) ==
    \A id \in DOMAIN d.profiles :
        d.profiles[id].games = Cardinality({g \in Game : id \in gs[g].counted})

Given(d, gs) ==
    /\ DOMAIN d.profiles \subseteq 1 .. d.lastId
    /\ \A g \in Game :
          /\ gs[g].counted \subseteq gs[g].roster
          /\ gs[g].roster \subseteq 1 .. d.lastId
          /\ gs[g].state # "reported" => gs[g].counted = {}
    /\ IsFiniteSet({g \in Game : gs[g].state # "waiting"})

Consistent(d, gs) ==
    IsDatabase(d) /\ UniqueKeys(d) /\ Acquainted(d) /\ Counted(d, gs) /\ Given(d, gs)

\* There are only so many ids, hence profiles and requests.
LEMMA FiniteDatabase ==
    ASSUME NEW d, IsDatabase(d)
    PROVE  /\ IsFiniteSet(DOMAIN d.profiles)
           /\ Cardinality(DOMAIN d.profiles) \in Nat
           /\ IsFiniteSet(d.requests)
<1>1. DOMAIN d.profiles \subseteq Id /\ d.requests \subseteq Id \X Id
  BY DatabaseFields
<1>2. IsFiniteSet(Id)
  BY FS_Interval, MaxIdAssumption DEF Id
<1>3. IsFiniteSet(Id \X Id)
  BY <1>2, FS_Product
<1> QED BY <1>1, <1>2, <1>3, FS_Subset, FS_CardinalityType

\* Fewer requests are pending when some are gone.
LEMMA FewerPending ==
    ASSUME NEW R, IsFiniteSet(R), NEW S \in SUBSET R, NEW id
    PROVE  /\ IsFiniteSet(Pending(R, id))
           /\ Cardinality(Pending(R, id)) \in Nat
           /\ Cardinality(Pending(S, id)) \in Nat
           /\ Cardinality(Pending(S, id)) <= Cardinality(Pending(R, id))
<1>1. Pending(R, id) \in SUBSET R /\ Pending(S, id) \in SUBSET Pending(R, id)
  BY DEF Pending
<1>2. IsFiniteSet(Pending(R, id))
  BY <1>1, FS_Subset
<1>3. /\ IsFiniteSet(Pending(S, id))
      /\ Cardinality(Pending(S, id)) <= Cardinality(Pending(R, id))
  BY <1>1, <1>2, FS_Subset
<1> QED BY <1>2, <1>3, FS_CardinalityType

\* A call that leaves the profiles and the last id alone, and the reports
\* with them.
LEMMA SameProfiles ==
    ASSUME NEW d, NEW e, NEW gs, Consistent(d, gs), IsDatabase(e), Acquainted(e),
           e.profiles = d.profiles, e.lastId = d.lastId
    PROVE  Consistent(e, gs)
BY DEF Consistent, UniqueKeys, Counted, Given

\* A call that leaves the ids and the counters alone, and those who know each
\* other.
LEMMA SameIds ==
    ASSUME NEW d, NEW e, NEW gs, Consistent(d, gs), IsDatabase(e), UniqueKeys(e),
           DOMAIN e.profiles = DOMAIN d.profiles,
           \A id \in DOMAIN d.profiles :
              e.profiles[id].games = d.profiles[id].games,
           e.buddies = d.buddies, e.requests = d.requests, e.lastId = d.lastId
    PROVE  Consistent(e, gs)
BY DEF Consistent, Acquainted, Counted, Given

\* A profile with the next id and with keys of its own: nobody knows it, and
\* no report counts for it.
LEMMA AfterRegister ==
    ASSUME NEW d, NEW gs, Consistent(d, gs), d.lastId < MaxId,
           NEW u \in Username, NEW n \in DisplayName,
           \A id \in DOMAIN d.profiles :
              d.profiles[id].username # u /\ d.profiles[id].name # n
    PROVE  LET e == Executed(d, InsertProfile(u, n))
           IN  /\ Consistent(e, gs)
               /\ Cardinality(DOMAIN e.profiles) =
                     Cardinality(DOMAIN d.profiles) + 1
<1> DEFINE new == d.lastId + 1
           row == [username |-> u, name |-> n, games |-> 0, rating |-> 0]
           p == Put(d.profiles, new, row)
           e == Executed(d, InsertProfile(u, n))
<1>1. e = [profiles |-> p, buddies |-> d.buddies, requests |-> d.requests,
           lastId |-> new]
  BY InsertProfileDoes DEF Consistent
<1>2. /\ d.lastId \in Nat /\ new \in Nat /\ new \in Id /\ new \in 0 .. MaxId
      /\ 1 .. new = (1 .. d.lastId) \union {new} /\ new \notin 1 .. d.lastId
  BY DatabaseFields, MaxIdAssumption DEF Consistent, Id
<1>3. /\ new \notin DOMAIN d.profiles
      /\ DOMAIN d.profiles \subseteq 1 .. d.lastId
  BY <1>2 DEF Consistent, Given
<1>4. row \in Profile /\ row.username = u /\ row.name = n /\ row.games = 0
  BY MaxCounterAssumption DEF Profile
<1> HIDE DEF row
<1>5. /\ DOMAIN p = DOMAIN d.profiles \union {new}
      /\ p[new] = row
      /\ \A id \in DOMAIN d.profiles : p[id] = d.profiles[id]
  BY <1>3 DEF Put
<1>6. p \in [DOMAIN p -> Profile] /\ DOMAIN p \subseteq Id
  <2>1. d.profiles \in [DOMAIN d.profiles -> Profile] /\ DOMAIN d.profiles \subseteq Id
    BY DatabaseFields DEF Consistent
  <2> QED BY <1>2, <1>4, <1>5, <2>1 DEF Put
<1> HIDE DEF p
<1>7. /\ IsDatabase(e) /\ e.profiles = p /\ e.buddies = d.buddies
      /\ e.requests = d.requests /\ e.lastId = new
  BY <1>1, <1>2, <1>6, DatabaseOf, DatabaseFields DEF Consistent
<1> HIDE DEF e, new
<1>8. UniqueKeys(e)
  BY <1>3, <1>4, <1>5, <1>7 DEF UniqueKeys, Consistent
<1>9. Acquainted(e)
  <2>1. Acquainted(d)
    BY DEF Consistent
  <2>2. Pending(d.requests, new) = {}
    BY <2>1, <1>3 DEF Pending, Acquainted
  <2>3. Cardinality(Pending(d.requests, new)) <= MaxBuddies
    BY <2>2, FS_EmptySet, MaxBuddiesAssumption
  <2> QED BY <2>1, <2>3, <1>5, <1>7 DEF Acquainted
<1>10. Counted(e, gs)
  <2>1. {g \in Game : new \in gs[g].counted} = {}
    BY <1>2 DEF Consistent, Given
  <2>2. Cardinality({g \in Game : new \in gs[g].counted}) = 0
    BY <2>1, FS_EmptySet
  <2>3. /\ e.profiles[new].games = 0
        /\ \A id \in DOMAIN d.profiles : e.profiles[id] = d.profiles[id]
        /\ DOMAIN e.profiles = DOMAIN d.profiles \union {new}
    BY <1>4, <1>5, <1>7
  <2>4. \A id \in DOMAIN d.profiles :
           e.profiles[id].games = Cardinality({g \in Game : id \in gs[g].counted})
    BY <2>3 DEF Consistent, Counted
  <2> QED BY <2>2, <2>3, <2>4 DEF Counted
<1>11. Given(e, gs)
  BY <1>2, <1>3, <1>5, <1>7 DEF Consistent, Given
<1>12. Cardinality(DOMAIN e.profiles) = Cardinality(DOMAIN d.profiles) + 1
  BY <1>3, <1>5, <1>7, FiniteDatabase, FS_AddElement DEF Consistent
<1> QED BY <1>7, <1>8, <1>9, <1>10, <1>11, <1>12 DEF e, Consistent

\* A name that nobody else has.
LEMMA AfterRename ==
    ASSUME NEW d, NEW gs, Consistent(d, gs),
           NEW id \in DOMAIN d.profiles, NEW n \in DisplayName,
           \A other \in DOMAIN d.profiles :
              d.profiles[other].name = n => other = id
    PROVE  LET e == Executed(d, UpdateName(id, n))
           IN  Consistent(e, gs) /\ DOMAIN e.profiles = DOMAIN d.profiles
<1> DEFINE p == [d.profiles EXCEPT ![id].name = n]
           e == Executed(d, UpdateName(id, n))
<1>1. e = [profiles |-> p, buddies |-> d.buddies, requests |-> d.requests,
           lastId |-> d.lastId]
  BY UpdateNameDoes DEF Consistent
<1>2. d.profiles \in [DOMAIN d.profiles -> Profile] /\ DOMAIN d.profiles \subseteq Id
  BY DatabaseFields DEF Consistent
<1>3. d.profiles[id] \in Profile
  BY <1>2
<1> DEFINE row == [d.profiles[id] EXCEPT !.name = n]
<1>4. /\ row \in Profile /\ row.name = n
      /\ row.username = d.profiles[id].username
      /\ row.games = d.profiles[id].games
  <2> DEFINE N == 0 .. MaxCounter
  <2>1. d.profiles[id] \in [username: Username, name: DisplayName,
                            games: N, rating: N]
    BY <1>3 DEF Profile
  <2> HIDE DEF N
  <2>2. row \in [username: Username, name: DisplayName, games: N, rating: N]
        /\ row.name = n /\ row.username = d.profiles[id].username
        /\ row.games = d.profiles[id].games
    BY <2>1
  <2> QED BY <2>2 DEF N, Profile
<1>5. p = [d.profiles EXCEPT ![id] = row]
  BY <1>2
<1> HIDE DEF row
<1>6. /\ p \in [DOMAIN p -> Profile] /\ DOMAIN p = DOMAIN d.profiles
      /\ p[id] = row
      /\ \A other \in DOMAIN d.profiles : other # id => p[other] = d.profiles[other]
  BY <1>2, <1>4, <1>5
<1> HIDE DEF p
<1>7. /\ IsDatabase(e) /\ e.profiles = p /\ e.buddies = d.buddies
      /\ e.requests = d.requests /\ e.lastId = d.lastId
  BY <1>1, <1>2, <1>6, DatabaseOf, DatabaseFields DEF Consistent
<1> HIDE DEF e
<1>8. UniqueKeys(e)
  BY <1>4, <1>6, <1>7 DEF UniqueKeys, Consistent
<1>9. \A i \in DOMAIN d.profiles : e.profiles[i].games = d.profiles[i].games
  BY <1>4, <1>6, <1>7
<1>10. Consistent(e, gs)
  BY <1>6, <1>7, <1>8, <1>9, SameIds
<1> QED BY <1>6, <1>7, <1>10 DEF e

\* Whatever refers to a deleted profile goes with it.
LEMMA AfterDelete ==
    ASSUME NEW d, NEW gs, Consistent(d, gs), NEW id
    PROVE  LET e == Executed(d, RemoveProfile(id))
           IN  Consistent(e, gs) /\ DOMAIN e.profiles \subseteq DOMAIN d.profiles
<1> DEFINE p == Without(d.profiles, {id})
           b == {pair \in d.buddies : id \notin pair}
           r == {q \in d.requests : id \notin {q[1], q[2]}}
           e == Executed(d, RemoveProfile(id))
<1>1. e = [profiles |-> p, buddies |-> b, requests |-> r, lastId |-> d.lastId]
  BY RemoveProfileDoes DEF Consistent
<1>2. d.profiles \in [DOMAIN d.profiles -> Profile] /\ DOMAIN d.profiles \subseteq Id
  BY DatabaseFields DEF Consistent
<1>3. /\ DOMAIN p = DOMAIN d.profiles \ {id}
      /\ \A i \in DOMAIN p : p[i] = d.profiles[i]
      /\ p \in [DOMAIN p -> Profile]
  BY <1>2 DEF Without
<1>4. b \subseteq d.buddies /\ \A pair \in b : id \notin pair
  OBVIOUS
<1>5. r \subseteq d.requests /\ \A q \in r : id # q[1] /\ id # q[2]
  OBVIOUS
<1> HIDE DEF p, b, r
<1>6. /\ IsDatabase(e) /\ e.profiles = p /\ e.buddies = b
      /\ e.requests = r /\ e.lastId = d.lastId
  <2>1. /\ d.buddies \subseteq {{j, k} : j, k \in Id}
        /\ d.requests \subseteq Id \X Id /\ d.lastId \in 0 .. MaxId
    BY DatabaseFields DEF Consistent
  <2>2. /\ b \subseteq {{j, k} : j, k \in Id} /\ r \subseteq Id \X Id
        /\ DOMAIN p \subseteq Id
    BY <2>1, <1>2, <1>3, <1>4, <1>5
  <2> QED BY <2>1, <2>2, <1>1, <1>3, DatabaseOf
<1> HIDE DEF e
<1>7. UniqueKeys(e)
  BY <1>3, <1>6 DEF UniqueKeys, Consistent
<1>8. Acquainted(e)
  <2>1. Acquainted(d)
    BY DEF Consistent
  <2>2. \A pair \in e.buddies :
           Cardinality(pair) = 2 /\ pair \subseteq DOMAIN e.profiles
    BY <2>1, <1>3, <1>4, <1>6 DEF Acquainted
  <2>3. \A q \in e.requests :
           q[1] # q[2] /\ q[1] \in DOMAIN e.profiles /\ q[2] \in DOMAIN e.profiles
    BY <2>1, <1>3, <1>5, <1>6 DEF Acquainted
  <2>4. ASSUME NEW i \in DOMAIN e.profiles
        PROVE  Cardinality(Pending(e.requests, i)) <= MaxBuddies
    <3>1. Cardinality(Pending(d.requests, i)) <= MaxBuddies
      BY <2>1, <1>3, <1>6 DEF Acquainted
    <3>2. /\ Cardinality(Pending(d.requests, i)) \in Nat
          /\ Cardinality(Pending(r, i)) \in Nat
          /\ Cardinality(Pending(r, i)) <= Cardinality(Pending(d.requests, i))
      BY <1>5, FiniteDatabase, FewerPending DEF Consistent
    <3> QED BY <3>1, <3>2, <1>6, MaxBuddiesAssumption
  <2> QED BY <2>2, <2>3, <2>4 DEF Acquainted
<1>9. Counted(e, gs) /\ Given(e, gs)
  BY <1>3, <1>6 DEF Consistent, Counted, Given
<1> QED BY <1>3, <1>6, <1>7, <1>8, <1>9 DEF e, Consistent

\* A request to somebody who has fewer than the limit.
LEMMA AfterRequest ==
    ASSUME NEW d, NEW gs, Consistent(d, gs),
           NEW from \in DOMAIN d.profiles, NEW target \in DOMAIN d.profiles,
           from # target,
           Cardinality(Pending(d.requests, target)) < MaxBuddies
    PROVE  LET e == Executed(d, InsertRequest(from, target))
           IN  Consistent(e, gs) /\ e.profiles = d.profiles
<1> DEFINE r == d.requests \union {<<from, target>>}
           e == Executed(d, InsertRequest(from, target))
<1>1. e = [profiles |-> d.profiles, buddies |-> d.buddies, requests |-> r,
           lastId |-> d.lastId]
  BY InsertRequestDoes DEF Consistent
<1>2. /\ IsDatabase(e) /\ e.profiles = d.profiles /\ e.buddies = d.buddies
      /\ e.requests = r /\ e.lastId = d.lastId
  <2>1. /\ d.profiles \in [DOMAIN d.profiles -> Profile]
        /\ DOMAIN d.profiles \subseteq Id
        /\ d.buddies \subseteq {{j, k} : j, k \in Id}
        /\ d.requests \subseteq Id \X Id /\ d.lastId \in 0 .. MaxId
    BY DatabaseFields DEF Consistent
  <2>2. r \subseteq Id \X Id
    BY <2>1
  <2> QED BY <2>1, <2>2, <1>1, DatabaseOf
<1> HIDE DEF e
<1>3. Acquainted(e)
  <2>1. Acquainted(d)
    BY DEF Consistent
  <2>2. ASSUME NEW i \in DOMAIN d.profiles
        PROVE  Cardinality(Pending(r, i)) <= MaxBuddies
    <3>1. CASE i # target
      <4>1. Pending(r, i) = Pending(d.requests, i)
        BY <3>1 DEF Pending
      <4> QED BY <4>1, <2>1 DEF Acquainted
    <3>2. CASE i = target
      <4>1. Pending(r, i) = Pending(d.requests, i) \union {<<from, target>>}
        BY <3>2 DEF Pending
      <4>2. /\ IsFiniteSet(Pending(d.requests, i))
            /\ Cardinality(Pending(d.requests, i)) \in Nat
        BY FiniteDatabase, FewerPending DEF Consistent
      <4>3. \/ Cardinality(Pending(r, i)) = Cardinality(Pending(d.requests, i))
            \/ Cardinality(Pending(r, i)) = Cardinality(Pending(d.requests, i)) + 1
        BY <4>1, <4>2, FS_AddElement
      <4> QED BY <4>2, <4>3, <3>2, MaxBuddiesAssumption
    <3> QED BY <3>1, <3>2
  <2>3. \A q \in r :
           q[1] # q[2] /\ q[1] \in DOMAIN d.profiles /\ q[2] \in DOMAIN d.profiles
    BY <2>1 DEF Acquainted
  <2> QED BY <2>1, <2>2, <2>3, <1>2 DEF Acquainted
<1> QED BY <1>2, <1>3, SameProfiles DEF e

\* A request that is answered makes two profiles buddies.
LEMMA AfterAccept ==
    ASSUME NEW d, NEW gs, Consistent(d, gs),
           NEW user \in DOMAIN d.profiles, NEW requester \in DOMAIN d.profiles,
           user # requester
    PROVE  LET c == Executed(d, DeleteRequest(requester, user))
               e == Executed(c, InsertBuddies({user, requester}))
           IN  /\ IsDatabase(c)
               /\ Consistent(e, gs) /\ e.profiles = d.profiles
               /\ e.requests = d.requests \ {<<requester, user>>}
               /\ e.buddies = d.buddies \union {{user, requester}}
               /\ e.lastId = d.lastId
<1> DEFINE r == d.requests \ {<<requester, user>>}
           b == d.buddies \union {{user, requester}}
           c == Executed(d, DeleteRequest(requester, user))
           e == Executed(c, InsertBuddies({user, requester}))
<1>1. /\ d.profiles \in [DOMAIN d.profiles -> Profile]
      /\ DOMAIN d.profiles \subseteq Id
      /\ d.buddies \subseteq {{j, k} : j, k \in Id}
      /\ d.requests \subseteq Id \X Id /\ d.lastId \in 0 .. MaxId
  BY DatabaseFields DEF Consistent
<1>2. c = [profiles |-> d.profiles, buddies |-> d.buddies, requests |-> r,
           lastId |-> d.lastId]
  BY DeleteRequestDoes DEF Consistent
<1>3. r \subseteq Id \X Id /\ r \subseteq d.requests
  BY <1>1
<1>4. /\ IsDatabase(c) /\ c.profiles = d.profiles /\ c.buddies = d.buddies
      /\ c.requests = r /\ c.lastId = d.lastId
  BY <1>1, <1>2, <1>3, DatabaseOf
<1> HIDE DEF c
<1>5. e = [profiles |-> d.profiles, buddies |-> b, requests |-> r,
           lastId |-> d.lastId]
  BY <1>4, InsertBuddiesDoes
<1>6. b \subseteq {{j, k} : j, k \in Id}
  BY <1>1
<1>b. \A pair \in b : pair \in d.buddies \/ pair = {user, requester}
  OBVIOUS
<1> HIDE DEF b, r
<1>7. /\ IsDatabase(e) /\ e.profiles = d.profiles /\ e.buddies = b
      /\ e.requests = r /\ e.lastId = d.lastId
  BY <1>1, <1>3, <1>5, <1>6, DatabaseOf
<1> HIDE DEF e
<1>8. Acquainted(e)
  <2>1. Acquainted(d)
    BY DEF Consistent
  <2>2. Cardinality({user, requester}) = 2
    <3>1. IsFiniteSet({user}) /\ Cardinality({user}) = 1
      BY FS_Singleton
    <3>2. {user, requester} = {user} \union {requester} /\ requester \notin {user}
      OBVIOUS
    <3>3. Cardinality({user} \union {requester}) = 1 + 1
      BY <3>1, <3>2, FS_AddElement
    <3> QED BY <3>2, <3>3
  <2>3. ASSUME NEW i \in DOMAIN d.profiles
        PROVE  Cardinality(Pending(r, i)) <= MaxBuddies
    <3>1. Cardinality(Pending(d.requests, i)) <= MaxBuddies
      BY <2>1 DEF Acquainted
    <3>2. /\ Cardinality(Pending(d.requests, i)) \in Nat
          /\ Cardinality(Pending(r, i)) \in Nat
          /\ Cardinality(Pending(r, i)) <= Cardinality(Pending(d.requests, i))
      BY <1>3, FiniteDatabase, FewerPending DEF Consistent
    <3> QED BY <3>1, <3>2, MaxBuddiesAssumption
  <2> QED BY <2>1, <2>2, <2>3, <1>3, <1>7, <1>b DEF Acquainted
<1> QED BY <1>4, <1>7, <1>8, SameProfiles DEF b, r, c, e

\* Two profiles that no longer know each other.
LEMMA AfterRemove ==
    ASSUME NEW d, NEW gs, Consistent(d, gs),
           NEW user \in DOMAIN d.profiles, NEW buddy \in DOMAIN d.profiles
    PROVE  LET c == Executed(d, DeleteBuddies({user, buddy}))
               e == Executed(c, DeleteRequests({user, buddy}))
           IN  /\ IsDatabase(c)
               /\ Consistent(e, gs) /\ e.profiles = d.profiles
               /\ e.requests = Strangers(d.requests, {user, buddy})
               /\ e.buddies = d.buddies \ {{user, buddy}}
               /\ e.lastId = d.lastId
<1> DEFINE r == {q \in d.requests : {q[1], q[2]} # {user, buddy}}
           b == d.buddies \ {{user, buddy}}
           c == Executed(d, DeleteBuddies({user, buddy}))
           e == Executed(c, DeleteRequests({user, buddy}))
<1>1. /\ d.profiles \in [DOMAIN d.profiles -> Profile]
      /\ DOMAIN d.profiles \subseteq Id
      /\ d.buddies \subseteq {{j, k} : j, k \in Id}
      /\ d.requests \subseteq Id \X Id /\ d.lastId \in 0 .. MaxId
  BY DatabaseFields DEF Consistent
<1>2. c = [profiles |-> d.profiles, buddies |-> b, requests |-> d.requests,
           lastId |-> d.lastId]
  BY DeleteBuddiesDoes DEF Consistent
<1>3. b \subseteq {{j, k} : j, k \in Id} /\ b \subseteq d.buddies
  BY <1>1
<1> HIDE DEF b
<1>4. /\ IsDatabase(c) /\ c.profiles = d.profiles /\ c.buddies = b
      /\ c.requests = d.requests /\ c.lastId = d.lastId
  BY <1>1, <1>2, <1>3, DatabaseOf
<1> HIDE DEF c
<1>5. e = [profiles |-> d.profiles, buddies |-> b, requests |-> r,
           lastId |-> d.lastId]
  <2> DEFINE q == {x \in c.requests : {x[1], x[2]} # {user, buddy}}
  <2>1. e = [profiles |-> c.profiles, buddies |-> c.buddies, requests |-> q,
             lastId |-> c.lastId]
    BY <1>4, DeleteRequestsDoes
  <2>2. q = r
    BY <1>4
  <2> HIDE DEF q, r, e
  <2> QED BY <2>1, <2>2, <1>4
<1>6. r \subseteq Id \X Id /\ r \subseteq d.requests
  BY <1>1
<1> HIDE DEF r
<1>7. /\ IsDatabase(e) /\ e.profiles = d.profiles /\ e.buddies = b
      /\ e.requests = r /\ e.lastId = d.lastId
  BY <1>1, <1>3, <1>5, <1>6, DatabaseOf
<1> HIDE DEF e
<1>8. Acquainted(e)
  <2>1. Acquainted(d)
    BY DEF Consistent
  <2>2. ASSUME NEW i \in DOMAIN d.profiles
        PROVE  Cardinality(Pending(r, i)) <= MaxBuddies
    <3>1. Cardinality(Pending(d.requests, i)) <= MaxBuddies
      BY <2>1 DEF Acquainted
    <3>2. /\ Cardinality(Pending(d.requests, i)) \in Nat
          /\ Cardinality(Pending(r, i)) \in Nat
          /\ Cardinality(Pending(r, i)) <= Cardinality(Pending(d.requests, i))
      BY <1>6, FiniteDatabase, FewerPending DEF Consistent
    <3> QED BY <3>1, <3>2, MaxBuddiesAssumption
  <2> QED BY <2>1, <2>2, <1>3, <1>6, <1>7 DEF Acquainted
<1> QED BY <1>4, <1>7, <1>8, SameProfiles DEF b, c, e, r, Strangers

\* A profile whose rating an update changes.
LEMMA AfterRating ==
    ASSUME NEW d, NEW gs, Consistent(d, gs), NEW id, NEW change \in Int,
           Executable(d, UpdateStats(id, 0, change))
    PROVE  LET e == Executed(d, UpdateStats(id, 0, change))
           IN  /\ Consistent(e, gs)
               /\ id \in DOMAIN d.profiles
               /\ \E rating \in 0 .. MaxCounter :
                     e.profiles = [d.profiles EXCEPT ![id].rating = rating]
               /\ e.buddies = d.buddies /\ e.requests = d.requests
               /\ e.lastId = d.lastId
<1> DEFINE s == UpdateStats(id, 0, change)
           row == AddStats(d.profiles[id], s)
           p == [d.profiles EXCEPT ![id] = row]
           e == Executed(d, s)
<1>1. id \in DOMAIN d.profiles /\ Fits(d.profiles[id], s)
  BY UpdateStatsDoes DEF Consistent
<1>2. d.profiles \in [DOMAIN d.profiles -> Profile] /\ DOMAIN d.profiles \subseteq Id
  BY DatabaseFields DEF Consistent
<1>3. d.profiles[id] \in Profile
  BY <1>1, <1>2
<1>4. /\ row \in Profile
      /\ row.username = d.profiles[id].username /\ row.name = d.profiles[id].name
      /\ row.games = d.profiles[id].games + 0
      /\ row.rating \in 0 .. MaxCounter
  BY <1>1, <1>3, AddStatsType
<1>5. e = [profiles |-> [d.profiles EXCEPT ![id] = AddStats(@, s)],
           buddies |-> d.buddies, requests |-> d.requests, lastId |-> d.lastId]
  BY UpdateStatsDoes DEF Consistent
<1>6. e = [profiles |-> p, buddies |-> d.buddies, requests |-> d.requests,
           lastId |-> d.lastId]
  BY <1>5
<1> HIDE DEF s, row
<1>7. /\ p \in [DOMAIN p -> Profile] /\ DOMAIN p = DOMAIN d.profiles
      /\ p[id] = row
      /\ \A other \in DOMAIN d.profiles : other # id => p[other] = d.profiles[other]
  BY <1>1, <1>2, <1>4
<1>8. row.games = d.profiles[id].games
  BY <1>3, <1>4, MaxCounterAssumption DEF Profile
<1>9. p = [d.profiles EXCEPT ![id].rating = row.rating]
  <2> DEFINE N == 0 .. MaxCounter
  <2>1. /\ d.profiles[id] \in [username: Username, name: DisplayName,
                               games: N, rating: N]
        /\ row \in [username: Username, name: DisplayName, games: N, rating: N]
    BY <1>3, <1>4 DEF Profile
  <2> HIDE DEF N
  <2>2. row = [d.profiles[id] EXCEPT !.rating = row.rating]
    BY <2>1, <1>4, <1>8
  <2> QED BY <2>2, <1>1, <1>2
<1> HIDE DEF p
<1>10. /\ IsDatabase(e) /\ e.profiles = p /\ e.buddies = d.buddies
       /\ e.requests = d.requests /\ e.lastId = d.lastId
  BY <1>2, <1>6, <1>7, DatabaseOf, DatabaseFields DEF Consistent
<1> HIDE DEF e
<1>11. UniqueKeys(e)
  BY <1>4, <1>7, <1>10 DEF UniqueKeys, Consistent
<1>12. \A i \in DOMAIN d.profiles : e.profiles[i].games = d.profiles[i].games
  BY <1>7, <1>8, <1>10
<1>13. Consistent(e, gs)
  BY <1>7, <1>10, <1>11, <1>12, SameIds
<1> QED BY <1>1, <1>4, <1>9, <1>10, <1>13 DEF e, s

\* The database after the results of some players were written.
LEMMA ResultsDo ==
    ASSUME NEW d, IsDatabase(d), NEW winners, NEW done,
           done \subseteq DOMAIN d.profiles,
           \A id \in done : Fits(d.profiles[id], Result(id, winners))
    PROVE  LET p == WithResults(d.profiles, done, winners)
               e == Resulting(d, done, winners)
           IN  /\ e = [profiles |-> p, buddies |-> d.buddies,
                       requests |-> d.requests, lastId |-> d.lastId]
               /\ IsDatabase(e) /\ e.profiles = p /\ e.buddies = d.buddies
               /\ e.requests = d.requests /\ e.lastId = d.lastId
               /\ DOMAIN p = DOMAIN d.profiles
               /\ \A id \in done :
                     /\ p[id].username = d.profiles[id].username
                     /\ p[id].name = d.profiles[id].name
                     /\ p[id].games = d.profiles[id].games + 1
                     /\ p[id].rating \in 0 .. MaxCounter
               /\ \A id \in DOMAIN d.profiles \ done : p[id] = d.profiles[id]
<1> DEFINE p == WithResults(d.profiles, done, winners)
           e == Resulting(d, done, winners)
<1>1. d.profiles \in [DOMAIN d.profiles -> Profile] /\ DOMAIN d.profiles \subseteq Id
  BY DatabaseFields
<1>2. ASSUME NEW id \in done
      PROVE  LET q == AddStats(d.profiles[id], Result(id, winners))
             IN  /\ q \in Profile
                 /\ q.username = d.profiles[id].username
                 /\ q.name = d.profiles[id].name
                 /\ q.games = d.profiles[id].games + 1
                 /\ q.rating \in 0 .. MaxCounter
  <2> DEFINE change == IF id \in winners THEN 1 ELSE -1
  <2>1. change \in Int
    OBVIOUS
  <2>2. Result(id, winners) = UpdateStats(id, 1, change)
    BY DEF Result
  <2>3. d.profiles[id] \in Profile
    BY <1>1
  <2> HIDE DEF change
  <2>4. Fits(d.profiles[id], UpdateStats(id, 1, change))
    BY <2>2
  <2> QED BY <2>1, <2>2, <2>3, <2>4, AddStatsType
<1>3. /\ DOMAIN p = DOMAIN d.profiles
      /\ \A id \in done : p[id] = AddStats(d.profiles[id], Result(id, winners))
      /\ \A id \in DOMAIN d.profiles \ done : p[id] = d.profiles[id]
      /\ p = [id \in DOMAIN d.profiles |-> p[id]]
  BY DEF WithResults
<1>4. e = [d EXCEPT !.profiles = p]
  BY DEF Resulting
<1> HIDE DEF p, e
<1>5. \A id \in DOMAIN d.profiles : p[id] \in Profile
  BY <1>1, <1>2, <1>3
<1>6. p \in [DOMAIN p -> Profile]
  BY <1>3, <1>5
<1>7. e = [profiles |-> p, buddies |-> d.buddies,
           requests |-> d.requests, lastId |-> d.lastId]
  BY <1>4, DatabaseExcept
<1>8. /\ IsDatabase(e) /\ e.profiles = p /\ e.buddies = d.buddies
      /\ e.requests = d.requests /\ e.lastId = d.lastId
  BY <1>1, <1>3, <1>6, <1>7, DatabaseOf, DatabaseFields
<1>9. \A id \in done :
         /\ p[id].username = d.profiles[id].username
         /\ p[id].name = d.profiles[id].name
         /\ p[id].games = d.profiles[id].games + 1
         /\ p[id].rating \in 0 .. MaxCounter
  BY <1>2, <1>3
<1> QED BY <1>3, <1>7, <1>8, <1>9 DEF p, e

\* The result of one more player.
LEMMA OneMoreResult ==
    ASSUME NEW d, IsDatabase(d), NEW winners, NEW done,
           done \subseteq DOMAIN d.profiles,
           \A id \in done : Fits(d.profiles[id], Result(id, winners)),
           NEW new \in DOMAIN d.profiles \ done,
           Executable(Resulting(d, done, winners),
                      Result(new, winners))
    PROVE  /\ Fits(d.profiles[new], Result(new, winners))
           /\ Executed(Resulting(d, done, winners),
                       Result(new, winners)) =
                 Resulting(d, done \union {new}, winners)
<1> DEFINE p == WithResults(d.profiles, done, winners)
           q == WithResults(d.profiles, done \union {new}, winners)
           e == Resulting(d, done, winners)
           change == IF new \in winners THEN 1 ELSE -1
           s == UpdateStats(new, 1, change)
<1>1. /\ IsDatabase(e) /\ e.profiles = p /\ e.buddies = d.buddies
      /\ e.requests = d.requests /\ e.lastId = d.lastId
      /\ DOMAIN p = DOMAIN d.profiles /\ p[new] = d.profiles[new]
  BY ResultsDo
<1>2. Result(new, winners) = s
  BY DEF Result
<1>3. q = [p EXCEPT ![new] = AddStats(@, s)]
  <2>1. /\ DOMAIN q = DOMAIN d.profiles
        /\ q = [id \in DOMAIN d.profiles |-> q[id]]
        /\ p = [id \in DOMAIN d.profiles |-> p[id]]
        /\ q[new] = AddStats(d.profiles[new], s)
        /\ \A id \in DOMAIN d.profiles : id # new => q[id] = p[id]
    BY <1>2 DEF WithResults
  <2> HIDE DEF p, q, s
  <2> QED BY <2>1, <1>1
<1>4. Resulting(d, done \union {new}, winners) =
         [d EXCEPT !.profiles = q]
  BY DEF Resulting
<1>5. Executable(e, s)
  BY <1>2
<1> HIDE DEF e, change, p, q
<1>6. Fits(d.profiles[new], s)
  BY <1>1, <1>5, UpdateStatsDoes
<1>7. Executed(e, s) =
         [profiles |-> [e.profiles EXCEPT ![new] = AddStats(@, s)],
          buddies |-> e.buddies, requests |-> e.requests, lastId |-> e.lastId]
  BY <1>1, UpdateStatsDoes
<1> HIDE DEF s
<1>8. Executed(e, s) =
         [profiles |-> q, buddies |-> d.buddies, requests |-> d.requests,
          lastId |-> d.lastId]
  BY <1>1, <1>3, <1>7
<1>9. [d EXCEPT !.profiles = q] =
         [profiles |-> q, buddies |-> d.buddies, requests |-> d.requests,
          lastId |-> d.lastId]
  BY DatabaseExcept
<1> QED BY <1>2, <1>4, <1>6, <1>8, <1>9 DEF e

\* A report that is committed: it counts for everybody whose result it holds,
\* and the game never counted before.
LEMMA AfterReport ==
    ASSUME NEW d, NEW gs, Consistent(d, gs), NEW winners, NEW done,
           done \subseteq DOMAIN d.profiles,
           \A id \in done : Fits(d.profiles[id], Result(id, winners)),
           NEW g \in Game, gs[g].state = "started", done \subseteq gs[g].roster,
           NEW hs, hs[g].state = "reported", hs[g].counted = done,
           hs[g].roster = gs[g].roster,
           \A other \in Game : other # g => hs[other] = gs[other]
    PROVE  LET e == Resulting(d, done, winners)
           IN  Consistent(e, hs) /\ DOMAIN e.profiles = DOMAIN d.profiles
<1> DEFINE e == Resulting(d, done, winners)
<1>1. IsDatabase(d)
  BY DEF Consistent
<1>2. /\ IsDatabase(e) /\ e.buddies = d.buddies
      /\ e.requests = d.requests /\ e.lastId = d.lastId
      /\ DOMAIN e.profiles = DOMAIN d.profiles
      /\ \A id \in done :
            /\ e.profiles[id].username = d.profiles[id].username
            /\ e.profiles[id].name = d.profiles[id].name
            /\ e.profiles[id].games = d.profiles[id].games + 1
      /\ \A id \in DOMAIN d.profiles \ done : e.profiles[id] = d.profiles[id]
  BY <1>1, ResultsDo
<1> HIDE DEF e
<1>3. \A id \in DOMAIN d.profiles :
         /\ e.profiles[id].username = d.profiles[id].username
         /\ e.profiles[id].name = d.profiles[id].name
  BY <1>2
<1>4. UniqueKeys(e) /\ Acquainted(e)
  BY <1>2, <1>3 DEF UniqueKeys, Acquainted, Consistent
<1>5. gs[g].counted = {}
  BY DEF Consistent, Given
<1>6. Counted(e, hs)
  <2> SUFFICES ASSUME NEW id \in DOMAIN d.profiles
               PROVE  e.profiles[id].games =
                         Cardinality({h \in Game : id \in hs[h].counted})
    BY <1>2 DEF Counted
  <2> DEFINE C == {h \in Game : id \in gs[h].counted}
             D == {h \in Game : id \in hs[h].counted}
  <2>1. d.profiles[id].games = Cardinality(C)
    BY DEF Consistent, Counted
  <2>2. CASE id \notin done
    <3>1. C = D
      BY <2>2, <1>5
    <3> QED BY <2>1, <2>2, <3>1, <1>2
  <2>3. CASE id \in done
    <3>1. D = C \union {g} /\ g \notin C
      BY <2>3, <1>5
    <3>2. C \subseteq {h \in Game : gs[h].state # "waiting"}
      BY DEF Consistent, Given
    <3>3. IsFiniteSet(C)
      BY <3>2, FS_Subset DEF Consistent, Given
    <3>4. Cardinality(D) = Cardinality(C) + 1
      BY <3>1, <3>3, FS_AddElement
    <3> QED BY <2>1, <2>3, <3>4, <1>2
  <2> QED BY <2>2, <2>3
<1>7. Given(e, hs)
  <2>1. {h \in Game : hs[h].state # "waiting"} =
           {h \in Game : gs[h].state # "waiting"}
    OBVIOUS
  <2> QED BY <2>1, <1>2 DEF Consistent, Given
<1> QED BY <1>2, <1>4, <1>6, <1>7 DEF Consistent, e

-----------------------------------------------------------------------------
(* The open transaction.                                                   *)

\* The invariant says that what is committed is consistent, and that is what
\* it says of the database.
LEMMA InvIsConsistent ==
    IsDatabase(db) /\ StoreIsSound /\ ResultsCountedOnce /\ CountInv
    => Consistent(db, games)
<1> SUFFICES ASSUME IsDatabase(db), StoreIsSound, ResultsCountedOnce, CountInv
             PROVE  Consistent(db, games)
  OBVIOUS
<1>1. UniqueKeys(db)
  BY DEF StoreIsSound, KeysAreUnique, UniqueKeys
<1>2. Acquainted(db)
  BY DEF StoreIsSound, BuddiesExist, Exist, PendingCount, Acquainted, Pending
<1>3. Counted(db, games)
  BY DEF ResultsCountedOnce, Counted
<1>4. Given(db, games)
  BY DEF CountInv, Given
<1> QED BY <1>1, <1>2, <1>3, <1>4 DEF Consistent

\* And the other way round.
LEMMA ConsistentIsInv ==
    Consistent(db, games)
    => IsDatabase(db) /\ KeysAreUnique /\ BuddiesExist /\ ResultsCountedOnce
       /\ CountInv
<1> SUFFICES ASSUME Consistent(db, games)
             PROVE  IsDatabase(db) /\ KeysAreUnique /\ BuddiesExist
                    /\ ResultsCountedOnce /\ CountInv
  OBVIOUS
<1>1. IsDatabase(db) /\ KeysAreUnique
  BY DEF Consistent, KeysAreUnique, UniqueKeys
<1>2. BuddiesExist
  BY DEF Consistent, BuddiesExist, Exist, PendingCount, Acquainted, Pending
<1>3. ResultsCountedOnce
  BY DEF Consistent, ResultsCountedOnce, Counted
<1>4. CountInv
  BY DEF Consistent, CountInv, Given
<1> QED BY <1>1, <1>2, <1>3, <1>4

\* A transaction of one statement, with everything executed.
LEMMA DoneOne ==
    ASSUME NEW s, HoldsOne(s), tx.left = {}
    PROVE  tx.game = NoGame /\ Executable(db, s) /\ tx.db = Executed(db, s)
BY DEF HoldsOne

\* And of one with two statements.
LEMMA DoneTwo ==
    ASSUME NEW first, NEW second, HoldsTwo(first, second), tx.left = {}
    PROVE  /\ tx.game = NoGame
           /\ tx.db = Executed(Executed(db, first), second)
BY DEF HoldsTwo

\* And of a report: it holds the results of all its players.
LEMMA DoneResults ==
    ASSUME NEW g, NEW winners, NEW left, HoldsResults(g, winners, left),
           tx.left = {}
    PROVE  /\ tx.game = g /\ games[g].state = "started"
           /\ tx.rows \subseteq games[g].roster
           /\ tx.rows \subseteq DOMAIN db.profiles
           /\ tx.db = Resulting(db, tx.rows, winners)
           /\ \A id \in tx.rows : Fits(db.profiles[id], Result(id, winners))
<1>1. left = {}
  BY DEF HoldsResults
<1>2. tx.rows \ left = tx.rows
  BY <1>1
<1> QED BY <1>1, <1>2 DEF HoldsResults

\* A report that is committed as a whole.
LEMMA ReportIsConsistent ==
    ASSUME Consistent(db, games), tx.left = {},
           NEW g \in Game, NEW winners, NEW left, HoldsResults(g, winners, left),
           NEW hs, hs[g].state = "reported", hs[g].counted = tx.rows,
           hs[g].roster = games[g].roster,
           \A other \in Game : other # g => hs[other] = games[other]
    PROVE  Consistent(tx.db, hs) /\ DOMAIN tx.db.profiles = DOMAIN db.profiles
<1>1. /\ games[g].state = "started"
      /\ tx.rows \subseteq games[g].roster
      /\ tx.rows \subseteq DOMAIN db.profiles
      /\ tx.db = Resulting(db, tx.rows, winners)
      /\ \A id \in tx.rows : Fits(db.profiles[id], Result(id, winners))
  BY DoneResults
<1> DEFINE e == Resulting(db, tx.rows, winners)
<1>2. Consistent(e, hs) /\ DOMAIN e.profiles = DOMAIN db.profiles
  BY <1>1, AfterReport
<1> QED BY <1>1, <1>2

\* The database of an open transaction is one that the schema allows.
LEMMA OpenDatabase ==
    Consistent(db, games) /\ CallInv /\ tx # Idle => IsDatabase(tx.db)
<1> SUFFICES ASSUME Consistent(db, games), CallInv, tx # Idle
             PROVE  IsDatabase(tx.db)
  OBVIOUS
<1>d. IsDatabase(db) /\ DOMAIN db.profiles \subseteq Id
  BY DatabaseFields DEF Consistent
<1>1. CASE \E u \in Username, n \in DisplayName : HoldsRegister(u, n)
  <2>1. PICK u \in Username, n \in DisplayName : HoldsRegister(u, n)
    BY <1>1
  <2>2. IsDatabase(Executed(db, InsertProfile(u, n)))
    BY <2>1, AfterRegister DEF HoldsRegister, Consistent
  <2> QED BY <2>1, <2>2, <1>d DEF HoldsRegister, HoldsOne
<1>2. CASE \E id \in Id, n \in DisplayName : HoldsRename(id, n)
  <2>1. PICK id \in Id, n \in DisplayName : HoldsRename(id, n)
    BY <1>2
  <2>2. IsDatabase(Executed(db, UpdateName(id, n)))
    BY <2>1, AfterRename DEF HoldsRename, Consistent
  <2> QED BY <2>1, <2>2, <1>d DEF HoldsRename, HoldsOne
<1>3. CASE \E id \in Id : HoldsDelete(id)
  <2>1. PICK id \in Id : HoldsDelete(id)
    BY <1>3
  <2>2. IsDatabase(Executed(db, RemoveProfile(id)))
    BY <2>1, AfterDelete DEF Consistent
  <2> QED BY <2>1, <2>2, <1>d DEF HoldsDelete, HoldsOne
<1>4. CASE \E id, other \in Id : HoldsRequest(id, other)
  <2>1. PICK id \in Id, other \in Id : HoldsRequest(id, other)
    BY <1>4
  <2>2. IsDatabase(Executed(db, InsertRequest(id, other)))
    BY <2>1, AfterRequest DEF HoldsRequest, Consistent, PendingCount, Pending
  <2> QED BY <2>1, <2>2, <1>d DEF HoldsRequest, HoldsOne
<1>5. CASE \E id, other \in Id : HoldsAccept(id, other)
  <2>1. PICK id \in Id, other \in Id : HoldsAccept(id, other)
    BY <1>5
  <2>2. /\ IsDatabase(Executed(db, DeleteRequest(other, id)))
        /\ IsDatabase(Executed(Executed(db, DeleteRequest(other, id)),
                               InsertBuddies({id, other})))
    BY <2>1, AfterAccept DEF HoldsAccept, Consistent
  <2> QED BY <2>1, <2>2, <1>d DEF HoldsAccept, HoldsTwo
<1>6. CASE \E id, other \in Id : HoldsRemove(id, other)
  <2>1. PICK id \in Id, other \in Id : HoldsRemove(id, other)
    BY <1>6
  <2>2. /\ IsDatabase(Executed(db, DeleteBuddies({id, other})))
        /\ IsDatabase(Executed(Executed(db, DeleteBuddies({id, other})),
                               DeleteRequests({id, other})))
    BY <2>1, AfterRemove DEF HoldsRemove, Consistent
  <2> QED BY <2>1, <2>2, <1>d DEF HoldsRemove, HoldsTwo
<1>7. CASE \E id \in Id, delta \in Delta : HoldsRating(id, delta)
  <2>1. PICK id \in Id, delta \in Delta : HoldsRating(id, delta)
    BY <1>7
  <2>2. delta \in Int
    BY DeltaAssumption
  <2>3. Executable(db, UpdateStats(id, 0, delta)) =>
           IsDatabase(Executed(db, UpdateStats(id, 0, delta)))
    BY <2>2, AfterRating DEF Consistent
  <2> QED BY <2>1, <2>3, <1>d DEF HoldsRating, HoldsOne
<1>8. CASE \E g \in Game, winners, left \in SUBSET Id :
              HoldsResults(g, winners, left)
  <2>1. PICK g \in Game, winners \in SUBSET Id, left \in SUBSET Id :
              HoldsResults(g, winners, left)
    BY <1>8
  <2>2. /\ tx.rows \ left \subseteq DOMAIN db.profiles
        /\ \A id \in tx.rows \ left : Fits(db.profiles[id], Result(id, winners))
        /\ tx.db = Resulting(db, tx.rows \ left, winners)
    BY <2>1 DEF HoldsResults
  <2>3. IsDatabase(Resulting(db, tx.rows \ left, winners))
    BY <2>2, <1>d, ResultsDo
  <2> QED BY <2>2, <2>3
<1> QED BY <1>1, <1>2, <1>3, <1>4, <1>5, <1>6, <1>7, <1>8 DEF CallInv

\* What a commit makes of the games.
Reporting ==
    IF tx.game = NoGame THEN games
    ELSE [games EXCEPT ![tx.game].state = "reported",
                       ![tx.game].counted = tx.rows]

\* What is committed is consistent, with the report that it may hold, and
\* within the limit on profiles.
LEMMA CommitIsConsistent ==
    ASSUME Consistent(db, games), CallInv, tx # Idle, tx.left = {},
           games \in [Game -> [state: {"waiting", "started", "reported", "lost"},
                               roster: SUBSET Id, counted: SUBSET Id]],
           limit \in Nat, Cardinality(DOMAIN db.profiles) <= limit
    PROVE  /\ Consistent(tx.db, Reporting)
           /\ Cardinality(DOMAIN tx.db.profiles) <= limit
<1>d. IsDatabase(db) /\ DOMAIN db.profiles \subseteq Id
  BY DatabaseFields DEF Consistent
<1>f. IsFiniteSet(DOMAIN db.profiles) /\ Cardinality(DOMAIN db.profiles) \in Nat
  BY <1>d, FiniteDatabase
<1>s. ASSUME DOMAIN tx.db.profiles \subseteq DOMAIN db.profiles
      PROVE  Cardinality(DOMAIN tx.db.profiles) <= limit
  <2>1. /\ Cardinality(DOMAIN tx.db.profiles) <= Cardinality(DOMAIN db.profiles)
        /\ Cardinality(DOMAIN tx.db.profiles) \in Nat
    BY <1>s, <1>f, FS_Subset, FS_CardinalityType
  <2> QED BY <2>1, <1>f
<1>1. CASE \E u \in Username, n \in DisplayName : HoldsRegister(u, n)
  <2>1. PICK u \in Username, n \in DisplayName : HoldsRegister(u, n)
    BY <1>1
  <2>2. /\ tx.game = NoGame /\ tx.db = Executed(db, InsertProfile(u, n))
        /\ Cardinality(DOMAIN db.profiles) < limit
    BY <2>1, DoneOne DEF HoldsRegister, HasRoom
  <2>3. /\ Consistent(tx.db, games)
        /\ Cardinality(DOMAIN tx.db.profiles) =
              Cardinality(DOMAIN db.profiles) + 1
    BY <2>1, <2>2, AfterRegister DEF HoldsRegister
  <2> QED BY <2>2, <2>3, <1>f DEF Reporting
<1>2. CASE \E id \in Id, n \in DisplayName : HoldsRename(id, n)
  <2>1. PICK id \in Id, n \in DisplayName : HoldsRename(id, n)
    BY <1>2
  <2>2. tx.game = NoGame /\ tx.db = Executed(db, UpdateName(id, n))
    BY <2>1, DoneOne DEF HoldsRename
  <2>3. /\ Consistent(tx.db, games)
        /\ DOMAIN tx.db.profiles = DOMAIN db.profiles
    BY <2>1, <2>2, AfterRename DEF HoldsRename
  <2> QED BY <2>2, <2>3, <1>s DEF Reporting
<1>3. CASE \E id \in Id : HoldsDelete(id)
  <2>1. PICK id \in Id : HoldsDelete(id)
    BY <1>3
  <2>2. tx.game = NoGame /\ tx.db = Executed(db, RemoveProfile(id))
    BY <2>1, DoneOne DEF HoldsDelete
  <2>3. /\ Consistent(tx.db, games)
        /\ DOMAIN tx.db.profiles \subseteq DOMAIN db.profiles
    BY <2>1, <2>2, AfterDelete
  <2> QED BY <2>2, <2>3, <1>s DEF Reporting
<1>4. CASE \E id, other \in Id : HoldsRequest(id, other)
  <2>1. PICK id \in Id, other \in Id : HoldsRequest(id, other)
    BY <1>4
  <2>2. tx.game = NoGame /\ tx.db = Executed(db, InsertRequest(id, other))
    BY <2>1, DoneOne DEF HoldsRequest
  <2>3. Consistent(tx.db, games) /\ tx.db.profiles = db.profiles
    BY <2>1, <2>2, AfterRequest DEF HoldsRequest, PendingCount, Pending
  <2> QED BY <2>2, <2>3, <1>s DEF Reporting
<1>5. CASE \E id, other \in Id : HoldsAccept(id, other)
  <2>1. PICK id \in Id, other \in Id : HoldsAccept(id, other)
    BY <1>5
  <2>2. /\ tx.game = NoGame
        /\ tx.db = Executed(Executed(db, DeleteRequest(other, id)),
                            InsertBuddies({id, other}))
    BY <2>1, DoneTwo DEF HoldsAccept
  <2>3. Consistent(tx.db, games) /\ tx.db.profiles = db.profiles
    BY <2>1, <2>2, AfterAccept DEF HoldsAccept
  <2> QED BY <2>2, <2>3, <1>s DEF Reporting
<1>6. CASE \E id, other \in Id : HoldsRemove(id, other)
  <2>1. PICK id \in Id, other \in Id : HoldsRemove(id, other)
    BY <1>6
  <2>2. /\ tx.game = NoGame
        /\ tx.db = Executed(Executed(db, DeleteBuddies({id, other})),
                            DeleteRequests({id, other}))
    BY <2>1, DoneTwo DEF HoldsRemove
  <2>d. id \in DOMAIN db.profiles /\ other \in DOMAIN db.profiles
    BY <2>1 DEF HoldsRemove
  <2>3. Consistent(tx.db, games) /\ tx.db.profiles = db.profiles
    <3> DEFINE c == Executed(db, DeleteBuddies({id, other}))
               e == Executed(c, DeleteRequests({id, other}))
    <3>1. Consistent(e, games) /\ e.profiles = db.profiles
      BY <2>d, AfterRemove
    <3> QED BY <2>2, <3>1
  <2> QED BY <2>2, <2>3, <1>s DEF Reporting
<1>7. CASE \E id \in Id, delta \in Delta : HoldsRating(id, delta)
  <2>1. PICK id \in Id, delta \in Delta : HoldsRating(id, delta)
    BY <1>7
  <2>2. /\ tx.game = NoGame /\ Executable(db, UpdateStats(id, 0, delta))
        /\ tx.db = Executed(db, UpdateStats(id, 0, delta))
    BY <2>1, DoneOne DEF HoldsRating
  <2>d. delta \in Int
    BY DeltaAssumption
  <2>3. /\ Consistent(tx.db, games)
        /\ \E rating \in 0 .. MaxCounter :
              tx.db.profiles = [db.profiles EXCEPT ![id].rating = rating]
    BY <2>2, <2>d, AfterRating
  <2>4. DOMAIN tx.db.profiles = DOMAIN db.profiles
    BY <2>3
  <2> QED BY <2>2, <2>3, <2>4, <1>s DEF Reporting
<1>8. CASE \E g \in Game, winners, left \in SUBSET Id :
              HoldsResults(g, winners, left)
  <2>1. PICK g \in Game, winners \in SUBSET Id, left \in SUBSET Id :
              HoldsResults(g, winners, left)
    BY <1>8
  <2>2. /\ tx.game = g /\ games[g].state = "started"
        /\ tx.rows \subseteq games[g].roster
        /\ tx.rows \subseteq DOMAIN db.profiles
        /\ tx.db = Resulting(db, tx.rows, winners)
        /\ \A id \in tx.rows : Fits(db.profiles[id], Result(id, winners))
    BY <2>1, DoneResults
  <2>3. /\ Reporting[g].state = "reported" /\ Reporting[g].counted = tx.rows
        /\ Reporting[g].roster = games[g].roster
        /\ \A other \in Game : other # g => Reporting[other] = games[other]
    BY <2>2, NoGameAssumption DEF Reporting
  <2>4. /\ Consistent(tx.db, Reporting)
        /\ DOMAIN tx.db.profiles = DOMAIN db.profiles
    <3> DEFINE hs == Reporting
    <3>1. /\ hs[g].state = "reported" /\ hs[g].counted = tx.rows
          /\ hs[g].roster = games[g].roster
          /\ \A other \in Game : other # g => hs[other] = games[other]
      BY <2>3
    <3> HIDE DEF hs
    <3>2. Consistent(tx.db, hs) /\ DOMAIN tx.db.profiles = DOMAIN db.profiles
      BY <2>1, <3>1, ReportIsConsistent
    <3> QED BY <3>2 DEF hs
  <2> QED BY <2>2, <2>4, <1>s
<1> QED BY <1>1, <1>2, <1>3, <1>4, <1>5, <1>6, <1>7, <1>8 DEF CallInv

-----------------------------------------------------------------------------
(* Every step keeps the invariant.                                         *)

\* The statements of the calls are statements.
LEMMA StatementTypes ==
    /\ \A u \in Username, n \in DisplayName : InsertProfile(u, n) \in Statement
    /\ \A id \in Id, n \in DisplayName : UpdateName(id, n) \in Statement
    /\ \A id \in Id : RemoveProfile(id) \in Statement
    /\ \A i, j \in Id :
          /\ InsertRequest(i, j) \in Statement /\ DeleteRequest(i, j) \in Statement
          /\ InsertBuddies({i, j}) \in Statement
          /\ DeleteBuddies({i, j}) \in Statement
          /\ DeleteRequests({i, j}) \in Statement
    /\ \A id \in Id, delta \in Delta : UpdateStats(id, 0, delta) \in Statement
    /\ \A id \in Id : \A winners : Result(id, winners) \in Statement
<1>1. \A u \in Username, n \in DisplayName : InsertProfile(u, n) \in Statement
  BY DEF InsertProfile, Statement
<1>2. \A id \in Id, n \in DisplayName : UpdateName(id, n) \in Statement
  BY DEF UpdateName, Statement
<1>3. \A id \in Id : RemoveProfile(id) \in Statement
  BY DEF RemoveProfile, Statement
<1>4. \A i, j \in Id :
         InsertRequest(i, j) \in Statement /\ DeleteRequest(i, j) \in Statement
  BY DEF InsertRequest, DeleteRequest, Statement
<1>5. \A i, j \in Id :
         /\ InsertBuddies({i, j}) \in Statement
         /\ DeleteBuddies({i, j}) \in Statement
         /\ DeleteRequests({i, j}) \in Statement
  BY DEF InsertBuddies, DeleteBuddies, DeleteRequests, Statement
<1>6. \A id \in Id, played \in {0, 1}, change \in Delta \union {-1, 1} :
         UpdateStats(id, played, change) \in Statement
  BY DEF UpdateStats, Statement
<1>7. \A id \in Id : \A winners : Result(id, winners) \in Statement
  BY <1>6 DEF Result
<1> QED BY <1>1, <1>2, <1>3, <1>4, <1>5, <1>6, <1>7

\* A transaction that begins.
LEMMA BeginFields ==
    ASSUME IsDatabase(db), NEW S \in SUBSET Statement,
           NEW g \in Game \union {NoGame}, NEW rows \in SUBSET Id,
           Begins(S, g, rows)
    PROVE  /\ limit > 0 /\ limit' = limit /\ db' = db /\ games' = games
           /\ IsTransaction(tx')
           /\ tx'.db = db /\ tx'.left = S /\ tx'.game = g /\ tx'.rows = rows
<1>1. /\ limit > 0 /\ limit' = limit /\ db' = db /\ games' = games
      /\ tx' = [open |-> TRUE, db |-> db, left |-> S, game |-> g, rows |-> rows]
  BY DEF Begins
<1> DEFINE t == [open |-> TRUE, db |-> db, left |-> S, game |-> g, rows |-> rows]
<1>2. /\ t.db = db /\ t.left = S /\ t.game = g /\ t.rows = rows
      /\ t \in [open: {TRUE}, db: {db}, left: SUBSET Statement,
                game: Game \union {NoGame}, rows: SUBSET Id]
  OBVIOUS
<1> HIDE DEF t
<1>3. IsTransaction(t)
  BY <1>2 DEF IsTransaction
<1> QED BY <1>1, <1>2, <1>3 DEF t

\* A transaction of which two parts are replaced.
LEMMA TransactionExcept ==
    ASSUME NEW t, NEW O, NEW D, NEW L, NEW G, NEW R,
           t \in [open: O, db: D, left: L, game: G, rows: R],
           NEW e, NEW l
    PROVE  [t EXCEPT !.db = e, !.left = l] =
              [open |-> t.open, db |-> e, left |-> l, game |-> t.game,
               rows |-> t.rows]
<1> DEFINE u == [open |-> t.open, db |-> e, left |-> t.left, game |-> t.game,
                 rows |-> t.rows]
<1>1. [t EXCEPT !.db = e] = u
  OBVIOUS
<1>2. [t EXCEPT !.db = e, !.left = l] = [u EXCEPT !.left = l]
  BY <1>1
<1>3. [u EXCEPT !.left = l] =
         [open |-> t.open, db |-> e, left |-> l, game |-> t.game, rows |-> t.rows]
  OBVIOUS
<1> QED BY <1>2, <1>3

\* A statement that was executed leaves the rest of the transaction as it is.
LEMMA ExecuteFields ==
    ASSUME IsTransaction(tx), Execute
    PROVE  /\ limit' = limit /\ db' = db /\ games' = games
           /\ tx # Idle /\ tx' # Idle
           /\ tx'.game = tx.game /\ tx'.rows = tx.rows
           /\ tx' \in [open: {TRUE}, db: {tx'.db}, left: SUBSET Statement,
                       game: Game \union {NoGame}, rows: SUBSET Id]
           /\ \E s \in tx.left :
                 /\ \A other \in tx.left : s.at <= other.at
                 /\ Executable(tx.db, s)
                 /\ tx'.db = Executed(tx.db, s)
                 /\ tx'.left = tx.left \ {s}
<1>1. tx # Idle /\ limit' = limit /\ db' = db /\ games' = games
  BY DEF Execute
<1> DEFINE G == Game \union {NoGame}
           L == SUBSET Statement
           R == SUBSET Id
<1>2. tx \in [open: {TRUE}, db: {tx.db}, left: L, game: G, rows: R]
  BY <1>1 DEF IsTransaction
<1>3. PICK s \in tx.left :
         /\ \A other \in tx.left : s.at <= other.at
         /\ Executable(tx.db, s)
         /\ tx' = [tx EXCEPT !.db = Executed(tx.db, s), !.left = tx.left \ {s}]
  BY DEF Execute
<1> DEFINE e == Executed(tx.db, s)
           l == tx.left \ {s}
<1>4. l \in L
  BY <1>2
<1>5. tx' = [tx EXCEPT !.db = e, !.left = l]
  BY <1>3
<1> HIDE DEF G, L, R, e, l
<1>6. tx' = [open |-> TRUE, db |-> e, left |-> l, game |-> tx.game,
             rows |-> tx.rows]
  BY <1>2, <1>5, TransactionExcept
<1>7. /\ tx'.db = e /\ tx'.left = l /\ tx'.game = tx.game /\ tx'.rows = tx.rows
      /\ tx'.open = TRUE
      /\ tx' \in [open: {TRUE}, db: {e}, left: L, game: G, rows: R]
  BY <1>2, <1>4, <1>6
<1>8. tx' # Idle
  BY <1>7 DEF Idle
<1> QED BY <1>1, <1>3, <1>7, <1>8 DEF G, L, R, e, l

\* The only statement of a call.
LEMMA ExecuteOne ==
    ASSUME IsTransaction(tx), Execute, NEW s, HoldsOne(s)
    PROVE  HoldsOne(s)'
BY ExecuteFields DEF HoldsOne

\* The first statement of a call, or the second after it.
LEMMA ExecuteTwo ==
    ASSUME IsTransaction(tx), Execute, NEW first, NEW second,
           first.at = 1, second.at = 2, HoldsTwo(first, second)
    PROVE  HoldsTwo(first, second)'
<1>1. PICK s \in tx.left :
         /\ \A other \in tx.left : s.at <= other.at
         /\ tx'.db = Executed(tx.db, s)
         /\ tx'.left = tx.left \ {s}
  BY ExecuteFields
<1>2. db' = db /\ tx'.game = tx.game
  BY ExecuteFields
<1>3. CASE tx.left = {first, second} /\ tx.db = db
  <2>1. s = first
    BY <1>1, <1>3
  <2>2. {first, second} \ {first} = {second}
    OBVIOUS
  <2> QED BY <2>1, <2>2, <1>1, <1>2, <1>3 DEF HoldsTwo
<1>4. CASE tx.left = {second} /\ tx.db = Executed(db, first)
  <2>1. s = second /\ tx'.left = {}
    BY <1>1, <1>4
  <2> QED BY <2>1, <1>1, <1>2, <1>4 DEF HoldsTwo
<1> QED BY <1>1, <1>3, <1>4 DEF HoldsTwo

\* The result of one of the players that are left.
LEMMA ExecuteResult ==
    ASSUME IsTransaction(tx), IsDatabase(db), Execute, NEW g, NEW winners,
           NEW left \in SUBSET Id, HoldsResults(g, winners, left)
    PROVE  \E id \in left : HoldsResults(g, winners, left \ {id})'
<1>1. PICK s \in tx.left :
         /\ Executable(tx.db, s)
         /\ tx'.db = Executed(tx.db, s)
         /\ tx'.left = tx.left \ {s}
  BY ExecuteFields
<1>2. /\ db' = db /\ games' = games /\ tx'.game = tx.game /\ tx'.rows = tx.rows
  BY ExecuteFields
<1>3. PICK id \in left : s = Result(id, winners)
  BY DEF HoldsResults
<1> DEFINE done == tx.rows \ left
<1>4. /\ IsDatabase(db) /\ done \subseteq DOMAIN db.profiles
      /\ \A i \in done : Fits(db.profiles[i], Result(i, winners))
      /\ id \in DOMAIN db.profiles \ done
      /\ tx.db = Resulting(db, done, winners)
  BY <1>3 DEF HoldsResults
<1>5. tx.rows \ (left \ {id}) = done \union {id}
  BY <1>3 DEF HoldsResults
<1> HIDE DEF done
<1>6. /\ Fits(db.profiles[id], Result(id, winners))
      /\ tx'.db = Resulting(db, done \union {id}, winners)
  BY <1>1, <1>3, <1>4, OneMoreResult
<1>7. tx'.left = {Result(i, winners) : i \in left \ {id}}
  <2>1. \A i, j : Result(i, winners) = Result(j, winners) => i = j
    BY DEF Result, UpdateStats
  <2>2. tx.left = {Result(i, winners) : i \in left}
    BY DEF HoldsResults
  <2> QED BY <2>1, <2>2, <1>1, <1>3
<1>8. /\ tx'.game = g /\ games'[g].state = "started"
      /\ tx'.rows \subseteq games'[g].roster \intersect DOMAIN db'.profiles
      /\ left \ {id} \subseteq tx'.rows
  BY <1>2 DEF HoldsResults
<1>9. \A i \in tx'.rows \ (left \ {id}) :
         Fits(db'.profiles[i], Result(i, winners))
  BY <1>2, <1>4, <1>5, <1>6
<1>10. tx'.db = Resulting(db', tx'.rows \ (left \ {id}), winners)
  BY <1>2, <1>5, <1>6
<1> QED BY <1>7, <1>8, <1>9, <1>10 DEF HoldsResults

\* A report of which nothing is written yet.
LEMMA NoResults ==
    ASSUME NEW d, IsDatabase(d), NEW winners
    PROVE  Resulting(d, {}, winners) = d
<1> DEFINE p == WithResults(d.profiles, {}, winners)
<1>1. Resulting(d, {}, winners) =
         [profiles |-> p, buddies |-> d.buddies, requests |-> d.requests,
          lastId |-> d.lastId]
  BY ResultsDo
<1>2. p = d.profiles
  <2>1. p = [id \in DOMAIN d.profiles |-> d.profiles[id]]
    BY DEF WithResults
  <2>2. d.profiles \in [DOMAIN d.profiles -> Profile]
    BY DatabaseFields
  <2> QED BY <2>1, <2>2
<1>3. d = [profiles |-> d.profiles, buddies |-> d.buddies,
           requests |-> d.requests, lastId |-> d.lastId]
  BY DatabaseFields
<1> HIDE DEF p
<1> QED BY <1>1, <1>2, <1>3

\* What a call checks holds when its transaction begins.
LEMMA CallKeeps ==
    ASSUME IsDatabase(db), Call
    PROVE  /\ limit' = limit /\ db' = db /\ games' = games
           /\ IsTransaction(tx') /\ CallInv'
<1>t. NoGame \in Game \union {NoGame} /\ {} \in SUBSET Id
  OBVIOUS
<1>1. CASE \E u \in Username, n \in DisplayName : Register(u, n)
  <2>1. PICK u \in Username, n \in DisplayName : Register(u, n)
    BY <1>1
  <2> DEFINE S == {InsertProfile(u, n)}
  <2>2. /\ HasRoom /\ db.lastId < MaxId
        /\ \A id \in DOMAIN db.profiles :
              db.profiles[id].username # u /\ db.profiles[id].name # n
        /\ Begins(S, NoGame, {})
    BY <2>1 DEF Register, Begin, InsertProfile
  <2>3. S \in SUBSET Statement
    BY StatementTypes
  <2> HIDE DEF S
  <2>4. /\ limit > 0 /\ limit' = limit /\ db' = db /\ games' = games
        /\ IsTransaction(tx')
        /\ tx'.db = db /\ tx'.left = S /\ tx'.game = NoGame
    BY <2>2, <2>3, <1>t, BeginFields
  <2>5. HoldsRegister(u, n)'
    BY <2>2, <2>4 DEF HoldsRegister, HoldsOne, HasRoom, S
  <2> QED BY <2>4, <2>5 DEF CallInv
<1>2. CASE \E id \in Id, n \in DisplayName : UpdateDisplayName(id, n)
  <2>1. PICK id \in Id, n \in DisplayName : UpdateDisplayName(id, n)
    BY <1>2
  <2> DEFINE S == {UpdateName(id, n)}
  <2>2. /\ id \in DOMAIN db.profiles
        /\ \A other \in DOMAIN db.profiles :
              db.profiles[other].name = n => other = id
        /\ Begins(S, NoGame, {})
    BY <2>1 DEF UpdateDisplayName, Begin, UpdateName, Exist
  <2>3. S \in SUBSET Statement
    BY StatementTypes
  <2> HIDE DEF S
  <2>4. /\ limit > 0 /\ limit' = limit /\ db' = db /\ games' = games
        /\ IsTransaction(tx')
        /\ tx'.db = db /\ tx'.left = S /\ tx'.game = NoGame
    BY <2>2, <2>3, <1>t, BeginFields
  <2>5. HoldsRename(id, n)'
    BY <2>2, <2>4 DEF HoldsRename, HoldsOne, S
  <2> QED BY <2>4, <2>5 DEF CallInv
<1>3. CASE \E id \in Id : DeleteProfile(id)
  <2>1. PICK id \in Id : DeleteProfile(id)
    BY <1>3
  <2> DEFINE S == {RemoveProfile(id)}
  <2>2. id \in DOMAIN db.profiles /\ Begins(S, NoGame, {})
    BY <2>1 DEF DeleteProfile, Begin, RemoveProfile, Exist
  <2>3. S \in SUBSET Statement
    BY StatementTypes
  <2> HIDE DEF S
  <2>4. /\ limit > 0 /\ limit' = limit /\ db' = db /\ games' = games
        /\ IsTransaction(tx')
        /\ tx'.db = db /\ tx'.left = S /\ tx'.game = NoGame
    BY <2>2, <2>3, <1>t, BeginFields
  <2>5. HoldsDelete(id)'
    BY <2>2, <2>4 DEF HoldsDelete, HoldsOne, S
  <2> QED BY <2>4, <2>5 DEF CallInv
<1>4. CASE \E id, other \in Id : RequestBuddy(id, other)
  <2>1. PICK id \in Id, other \in Id : RequestBuddy(id, other)
    BY <1>4
  <2> DEFINE S == {InsertRequest(id, other)}
  <2>2. /\ id # other /\ id \in DOMAIN db.profiles /\ other \in DOMAIN db.profiles
        /\ {id, other} \notin db.buddies
        /\ PendingCount(other) < MaxBuddies
        /\ Begins(S, NoGame, {})
    BY <2>1 DEF RequestBuddy, Begin, InsertRequest, Exist
  <2>3. S \in SUBSET Statement
    BY StatementTypes
  <2> HIDE DEF S
  <2>4. /\ limit > 0 /\ limit' = limit /\ db' = db /\ games' = games
        /\ IsTransaction(tx')
        /\ tx'.db = db /\ tx'.left = S /\ tx'.game = NoGame
    BY <2>2, <2>3, <1>t, BeginFields
  <2>5. HoldsRequest(id, other)'
    BY <2>2, <2>4 DEF HoldsRequest, HoldsOne, PendingCount, S
  <2> QED BY <2>4, <2>5 DEF CallInv
<1>5. CASE \E id, other \in Id : AcceptBuddy(id, other)
  <2>1. PICK id \in Id, other \in Id : AcceptBuddy(id, other)
    BY <1>5
  <2> DEFINE S == {DeleteRequest(other, id), InsertBuddies({id, other})}
  <2>2. /\ id # other /\ id \in DOMAIN db.profiles /\ other \in DOMAIN db.profiles
        /\ <<other, id>> \in db.requests
        /\ Begins(S, NoGame, {})
    BY <2>1 DEF AcceptBuddy, Begin, DeleteRequest, InsertBuddies, Exist
  <2>3. S \in SUBSET Statement
    BY StatementTypes
  <2> HIDE DEF S
  <2>4. /\ limit > 0 /\ limit' = limit /\ db' = db /\ games' = games
        /\ IsTransaction(tx')
        /\ tx'.db = db /\ tx'.left = S /\ tx'.game = NoGame
    BY <2>2, <2>3, <1>t, BeginFields
  <2>5. HoldsAccept(id, other)'
    BY <2>2, <2>4 DEF HoldsAccept, HoldsTwo, S
  <2> QED BY <2>4, <2>5 DEF CallInv
<1>6. CASE \E id, other \in Id : RemoveBuddy(id, other)
  <2>1. PICK id \in Id, other \in Id : RemoveBuddy(id, other)
    BY <1>6
  <2> DEFINE S == {DeleteBuddies({id, other}), DeleteRequests({id, other})}
  <2>2. /\ id \in DOMAIN db.profiles /\ other \in DOMAIN db.profiles
        /\ Begins(S, NoGame, {})
    BY <2>1 DEF RemoveBuddy, Begin, DeleteBuddies, DeleteRequests, Exist
  <2>3. S \in SUBSET Statement
    BY StatementTypes
  <2> HIDE DEF S
  <2>4. /\ limit > 0 /\ limit' = limit /\ db' = db /\ games' = games
        /\ IsTransaction(tx')
        /\ tx'.db = db /\ tx'.left = S /\ tx'.game = NoGame
    BY <2>2, <2>3, <1>t, BeginFields
  <2>5. HoldsRemove(id, other)'
    BY <2>2, <2>4 DEF HoldsRemove, HoldsTwo, S
  <2> QED BY <2>4, <2>5 DEF CallInv
<1>7. CASE \E id \in Id, delta \in Delta : ApplyStats(id, delta)
  <2>1. PICK id \in Id, delta \in Delta : ApplyStats(id, delta)
    BY <1>7
  <2> DEFINE S == {UpdateStats(id, 0, delta)}
  <2>2. Begins(S, NoGame, {})
    BY <2>1 DEF ApplyStats, Begin, UpdateStats
  <2>3. S \in SUBSET Statement
    BY StatementTypes
  <2> HIDE DEF S
  <2>4. /\ limit > 0 /\ limit' = limit /\ db' = db /\ games' = games
        /\ IsTransaction(tx')
        /\ tx'.db = db /\ tx'.left = S /\ tx'.game = NoGame
    BY <2>2, <2>3, <1>t, BeginFields
  <2>5. HoldsRating(id, delta)'
    BY <2>2, <2>4 DEF HoldsRating, HoldsOne, S
  <2> QED BY <2>4, <2>5 DEF CallInv
<1>8. CASE \E g \in Game : \E readable \in SUBSET Id :
              \E winners \in SUBSET readable : StatsResults(g, readable, winners)
  <2>1. PICK g \in Game, readable \in SUBSET Id, winners \in SUBSET Id :
           winners \subseteq readable /\ StatsResults(g, readable, winners)
    BY <1>8
  <2> DEFINE S == {Result(id, winners) : id \in readable}
  <2>2. /\ games[g].state = "started"
        /\ readable \subseteq games[g].roster \intersect DOMAIN db.profiles
        /\ Begins(S, g, readable)
    BY <2>1 DEF StatsResults, Reportable, Result, UpdateStats
  <2>3. S \in SUBSET Statement
    BY StatementTypes
  <2> HIDE DEF S
  <2>4. /\ limit > 0 /\ limit' = limit /\ db' = db /\ games' = games
        /\ IsTransaction(tx')
        /\ tx'.db = db /\ tx'.left = S /\ tx'.game = g /\ tx'.rows = readable
    BY <2>2, <2>3, BeginFields
  <2>5. readable \ readable = {} /\ winners \in SUBSET Id
    OBVIOUS
  <2>6. HoldsResults(g, winners, readable)'
    BY <2>2, <2>4, <2>5, NoResults DEF HoldsResults, S
  <2> QED BY <2>4, <2>5, <2>6 DEF CallInv
<1> QED BY <1>1, <1>2, <1>3, <1>4, <1>5, <1>6, <1>7, <1>8 DEF Call

\* What it checked still holds after one of its statements.
LEMMA ExecuteKeeps ==
    ASSUME IsDatabase(db), IsTransaction(tx), CallInv, Execute
    PROVE  CallInv'
<1>1. /\ limit' = limit /\ db' = db /\ games' = games /\ tx # Idle
  BY ExecuteFields
<1>2. limit' > 0
  BY <1>1 DEF CallInv
<1>3. CASE \E u \in Username, n \in DisplayName : HoldsRegister(u, n)
  <2>1. PICK u \in Username, n \in DisplayName : HoldsRegister(u, n)
    BY <1>3
  <2>2. HoldsOne(InsertProfile(u, n))'
    BY <2>1, ExecuteOne DEF HoldsRegister
  <2>3. HoldsRegister(u, n)'
    BY <2>1, <2>2, <1>1 DEF HoldsRegister, HasRoom
  <2> QED BY <2>3, <1>2 DEF CallInv
<1>4. CASE \E id \in Id, n \in DisplayName : HoldsRename(id, n)
  <2>1. PICK id \in Id, n \in DisplayName : HoldsRename(id, n)
    BY <1>4
  <2>2. HoldsOne(UpdateName(id, n))'
    BY <2>1, ExecuteOne DEF HoldsRename
  <2>3. HoldsRename(id, n)'
    BY <2>1, <2>2, <1>1 DEF HoldsRename
  <2> QED BY <2>3, <1>2 DEF CallInv
<1>5. CASE \E id \in Id : HoldsDelete(id)
  <2>1. PICK id \in Id : HoldsDelete(id)
    BY <1>5
  <2>2. HoldsOne(RemoveProfile(id))'
    BY <2>1, ExecuteOne DEF HoldsDelete
  <2>3. HoldsDelete(id)'
    BY <2>1, <2>2, <1>1 DEF HoldsDelete
  <2> QED BY <2>3, <1>2 DEF CallInv
<1>6. CASE \E id, other \in Id : HoldsRequest(id, other)
  <2>1. PICK id \in Id, other \in Id : HoldsRequest(id, other)
    BY <1>6
  <2>2. HoldsOne(InsertRequest(id, other))'
    BY <2>1, ExecuteOne DEF HoldsRequest
  <2>3. HoldsRequest(id, other)'
    BY <2>1, <2>2, <1>1 DEF HoldsRequest, PendingCount
  <2> QED BY <2>3, <1>2 DEF CallInv
<1>7. CASE \E id, other \in Id : HoldsAccept(id, other)
  <2>1. PICK id \in Id, other \in Id : HoldsAccept(id, other)
    BY <1>7
  <2>2. /\ DeleteRequest(other, id).at = 1
        /\ InsertBuddies({id, other}).at = 2
    BY DEF DeleteRequest, InsertBuddies
  <2>3. HoldsTwo(DeleteRequest(other, id), InsertBuddies({id, other}))'
    BY <2>1, <2>2, ExecuteTwo DEF HoldsAccept
  <2>4. HoldsAccept(id, other)'
    BY <2>1, <2>3, <1>1 DEF HoldsAccept
  <2> QED BY <2>4, <1>2 DEF CallInv
<1>8. CASE \E id, other \in Id : HoldsRemove(id, other)
  <2>1. PICK id \in Id, other \in Id : HoldsRemove(id, other)
    BY <1>8
  <2>2. /\ DeleteBuddies({id, other}).at = 1
        /\ DeleteRequests({id, other}).at = 2
    BY DEF DeleteBuddies, DeleteRequests
  <2>3. HoldsTwo(DeleteBuddies({id, other}), DeleteRequests({id, other}))'
    BY <2>1, <2>2, ExecuteTwo DEF HoldsRemove
  <2>4. HoldsRemove(id, other)'
    BY <2>1, <2>3, <1>1 DEF HoldsRemove
  <2> QED BY <2>4, <1>2 DEF CallInv
<1>9. CASE \E id \in Id, delta \in Delta : HoldsRating(id, delta)
  <2>1. PICK id \in Id, delta \in Delta : HoldsRating(id, delta)
    BY <1>9
  <2>2. HoldsRating(id, delta)'
    BY <2>1, ExecuteOne DEF HoldsRating
  <2> QED BY <2>2, <1>2 DEF CallInv
<1>10. CASE \E g \in Game, winners, left \in SUBSET Id :
              HoldsResults(g, winners, left)
  <2>1. PICK g \in Game, winners \in SUBSET Id, left \in SUBSET Id :
              HoldsResults(g, winners, left)
    BY <1>10
  <2>2. PICK id \in left : HoldsResults(g, winners, left \ {id})'
    BY <2>1, ExecuteResult
  <2>3. left \ {id} \in SUBSET Id
    OBVIOUS
  <2> QED BY <2>2, <2>3, <1>2 DEF CallInv
<1> QED BY <1>1, <1>3, <1>4, <1>5, <1>6, <1>7, <1>8, <1>9, <1>10 DEF CallInv

\* No call reads the games of others: the transaction of a report keeps its
\* game started.
LEMMA CallInvKept ==
    ASSUME CallInv, db' = db, tx' = tx, limit' = limit,
           \A g \in Game : games[g].state = "started" => games'[g] = games[g]
    PROVE  CallInv'
<1> SUFFICES ASSUME tx' # Idle PROVE CallInv'
  BY DEF CallInv
<1>1. limit' > 0
  BY DEF CallInv
<1>2. \A u \in Username, n \in DisplayName :
         HoldsRegister(u, n) => HoldsRegister(u, n)'
  BY DEF HoldsRegister, HoldsOne, HasRoom
<1>3. \A id \in Id, n \in DisplayName : HoldsRename(id, n) => HoldsRename(id, n)'
  BY DEF HoldsRename, HoldsOne
<1>4. \A id \in Id : HoldsDelete(id) => HoldsDelete(id)'
  BY DEF HoldsDelete, HoldsOne
<1>5. \A id, other \in Id :
         /\ HoldsRequest(id, other) => HoldsRequest(id, other)'
         /\ HoldsAccept(id, other) => HoldsAccept(id, other)'
         /\ HoldsRemove(id, other) => HoldsRemove(id, other)'
  <2> TAKE id, other \in Id
  <2>1. HoldsRequest(id, other) => HoldsRequest(id, other)'
    BY DEF HoldsRequest, HoldsOne, PendingCount
  <2>2. HoldsAccept(id, other) => HoldsAccept(id, other)'
    BY DEF HoldsAccept, HoldsTwo
  <2>3. HoldsRemove(id, other) => HoldsRemove(id, other)'
    BY DEF HoldsRemove, HoldsTwo
  <2> QED BY <2>1, <2>2, <2>3
<1>6. \A id \in Id, delta \in Delta :
         HoldsRating(id, delta) => HoldsRating(id, delta)'
  BY DEF HoldsRating, HoldsOne
<1>7. ASSUME NEW g \in Game, NEW winners \in SUBSET Id, NEW left \in SUBSET Id,
             HoldsResults(g, winners, left)
      PROVE  HoldsResults(g, winners, left)'
  <2>1. games'[g] = games[g]
    BY <1>7 DEF HoldsResults
  <2> QED BY <2>1, <1>7 DEF HoldsResults
<1> QED BY <1>1, <1>2, <1>3, <1>4, <1>5, <1>6, <1>7 DEF CallInv

GamesType ==
    [Game -> [state: {"waiting", "started", "reported", "lost"},
              roster: SUBSET Id, counted: SUBSET Id]]

\* What a step says of the invariant, in the terms of this module.
Kept ==
    /\ Consistent(db, games) /\ IsTransaction(tx)
    /\ limit \in Limits \union {0} /\ games \in GamesType
    /\ WithinProfileLimit /\ CallInv

\* It is the invariant.
LEMMA InvIsKept == StoreInv <=> Kept
<1>1. StoreInv => Kept
  BY InvIsConsistent DEF StoreInv, TypeOK, StoreIsSound, Kept, GamesType
<1>2. Kept => StoreInv
  BY ConsistentIsInv DEF StoreInv, TypeOK, StoreIsSound, Kept, GamesType
<1> QED BY <1>1, <1>2

\* A server starts with an empty database, and no game has begun.
LEMMA InitStore == Init => Kept
<1> SUFFICES ASSUME Init PROVE Kept
  OBVIOUS
<1> USE DEF Init
<1>1. /\ db.profiles = EmptyMap /\ db.buddies = {} /\ db.requests = {}
      /\ db.lastId = 0 /\ DOMAIN db.profiles = {}
  BY DEF EmptyDatabase, EmptyMap
<1>2. IsDatabase(db)
  <2>1. db = [profiles |-> EmptyMap, buddies |-> {}, requests |-> {}, lastId |-> 0]
    BY DEF EmptyDatabase
  <2>2. EmptyMap \in [DOMAIN EmptyMap -> Profile] /\ DOMAIN EmptyMap \subseteq Id
    BY DEF EmptyMap
  <2>3. 0 \in 0 .. MaxId
    BY MaxIdAssumption
  <2> QED BY <2>1, <2>2, <2>3, DatabaseOf
<1>3. /\ games \in GamesType
      /\ \A g \in Game : games[g].state = "waiting" /\ games[g].counted = {}
                         /\ games[g].roster = {}
  BY DEF GamesType
<1>4. UniqueKeys(db) /\ Acquainted(db) /\ Counted(db, games)
  BY <1>1 DEF UniqueKeys, Acquainted, Counted
<1>5. Given(db, games)
  <2>1. {g \in Game : games[g].state # "waiting"} = {}
    BY <1>3
  <2> QED BY <2>1, <1>1, <1>3, FS_EmptySet DEF Given
<1>6. IsTransaction(tx) /\ limit \in Limits \union {0} /\ CallInv
      /\ WithinProfileLimit
  BY DEF IsTransaction, CallInv, WithinProfileLimit
<1> QED BY <1>2, <1>3, <1>4, <1>5, <1>6 DEF Kept, Consistent

\* Begun, executed or rolled back: what is committed stays as it is.
LEMMA CallStep == Kept /\ Call => Kept'
<1> SUFFICES ASSUME Kept, Call PROVE Kept'
  OBVIOUS
<1>1. IsDatabase(db)
  BY DEF Kept, Consistent
<1>2. /\ limit' = limit /\ db' = db /\ games' = games
      /\ IsTransaction(tx') /\ CallInv'
  BY <1>1, CallKeeps
<1>3. Consistent(db', games')
  BY <1>2 DEF Kept
<1>4. WithinProfileLimit'
  BY <1>2 DEF Kept, WithinProfileLimit
<1> QED BY <1>2, <1>3, <1>4 DEF Kept, GamesType

\* A statement changes the database of its transaction alone.
LEMMA ExecuteStep == Kept /\ Execute => Kept'
<1> SUFFICES ASSUME Kept, Execute PROVE Kept'
  OBVIOUS
<1>1. IsDatabase(db) /\ IsTransaction(tx) /\ CallInv
  BY DEF Kept, Consistent
<1>2. /\ limit' = limit /\ db' = db /\ games' = games /\ tx' # Idle
      /\ tx' \in [open: {TRUE}, db: {tx'.db}, left: SUBSET Statement,
                  game: Game \union {NoGame}, rows: SUBSET Id]
  BY <1>1, ExecuteFields
<1>3. CallInv'
  BY <1>1, ExecuteKeeps
<1>4. Consistent(db', games')
  BY <1>2 DEF Kept
<1>5. (Consistent(db, games) /\ CallInv /\ tx # Idle => IsDatabase(tx.db))'
  BY OpenDatabase, PTL
<1>6. IsDatabase(tx'.db)
  BY <1>2, <1>3, <1>4, <1>5
<1>7. IsTransaction(tx')
  BY <1>2, <1>6 DEF IsTransaction
<1>8. WithinProfileLimit'
  BY <1>2 DEF Kept, WithinProfileLimit
<1> QED BY <1>2, <1>3, <1>4, <1>7, <1>8 DEF Kept, GamesType

\* A rollback leaves no trace.
LEMMA RollbackStep == Kept /\ Rollback => Kept'
<1> SUFFICES ASSUME Kept, Rollback PROVE Kept'
  OBVIOUS
<1>1. limit' = limit /\ db' = db /\ games' = games /\ tx' = Idle
  BY DEF Rollback
<1>2. Consistent(db', games')
  BY <1>1 DEF Kept
<1>3. IsTransaction(tx') /\ CallInv' /\ WithinProfileLimit'
  BY <1>1 DEF Kept, IsTransaction, CallInv, WithinProfileLimit
<1> QED BY <1>1, <1>2, <1>3 DEF Kept, GamesType

\* What a transaction made is consistent when it is committed.
LEMMA CommitStep == Kept /\ Commit => Kept'
<1> SUFFICES ASSUME Kept, Commit PROVE Kept'
  OBVIOUS
<1>1. /\ tx # Idle /\ tx.left = {} /\ db' = tx.db /\ tx' = Idle /\ limit' = limit
      /\ games' = Reporting
  BY DEF Commit, Reporting
<1>2. Consistent(db, games) /\ CallInv /\ games \in GamesType
  BY DEF Kept
<1>3. limit > 0 /\ limit \in Nat /\ Cardinality(DOMAIN db.profiles) <= limit
  <2>1. limit > 0 /\ limit \in Limits \union {0}
    BY <1>1, <1>2 DEF CallInv, Kept
  <2>2. limit \in Nat
    BY <2>1, LimitsAssumption
  <2> QED BY <2>1, <2>2 DEF Kept, WithinProfileLimit
<1>4. /\ Consistent(tx.db, Reporting)
      /\ Cardinality(DOMAIN tx.db.profiles) <= limit
  BY <1>1, <1>2, <1>3, CommitIsConsistent DEF GamesType
<1>5. Consistent(db', games') /\ WithinProfileLimit'
  BY <1>1, <1>4 DEF WithinProfileLimit
<1>6. IsTransaction(tx') /\ CallInv'
  BY <1>1 DEF IsTransaction, CallInv
<1>7. games' \in GamesType
  <2>1. CASE tx.game = NoGame
    BY <2>1, <1>1, <1>2 DEF Reporting
  <2>2. CASE tx.game # NoGame
    <3>1. tx.game \in Game /\ tx.rows \in SUBSET Id
      BY <2>2, <1>1 DEF Kept, IsTransaction
    <3> DEFINE g == tx.game
               row == [games[g] EXCEPT !.state = "reported", !.counted = tx.rows]
    <3>2. row \in [state: {"waiting", "started", "reported", "lost"},
                   roster: SUBSET Id, counted: SUBSET Id]
      BY <3>1, <1>2 DEF GamesType
    <3>3. games' = [games EXCEPT ![g] = row]
      BY <2>2, <3>1, <1>1, <1>2 DEF Reporting, GamesType
    <3> HIDE DEF row, g
    <3> QED BY <3>2, <3>3, <1>2 DEF GamesType
  <2> QED BY <2>1, <2>2
<1> QED BY <1>1, <1>5, <1>6, <1>7 DEF Kept

\* A server starts when none runs, and none that holds more than its limit.
LEMMA OpenStep == ASSUME NEW l \in Limits PROVE Kept /\ Open(l) => Kept'
<1> SUFFICES ASSUME Kept, Open(l) PROVE Kept'
  OBVIOUS
<1>1. /\ limit = 0 /\ limit' = l /\ db' = db /\ games' = games /\ tx' = tx
      /\ Cardinality(DOMAIN db.profiles) <= l
  BY DEF Open, Openable
<1>2. tx = Idle
  BY <1>1 DEF Kept, CallInv
<1>3. Consistent(db', games')
  BY <1>1 DEF Kept
<1>4. IsTransaction(tx') /\ CallInv' /\ WithinProfileLimit'
  BY <1>1, <1>2 DEF IsTransaction, CallInv, WithinProfileLimit
<1> QED BY <1>1, <1>3, <1>4 DEF Kept, GamesType

\* A crash loses what was not committed, and no result that was.
LEMMA CrashStep == Kept /\ Crash => Kept'
<1> SUFFICES ASSUME Kept, Crash PROVE Kept'
  OBVIOUS
<1>1. limit' = 0 /\ db' = db /\ tx' = Idle
  BY DEF Crash
<1>2. games \in GamesType /\ Consistent(db, games)
  BY DEF Kept
<1>3. \A g \in Game :
         /\ games[g].state # "started" => games'[g] = games[g]
         /\ games[g].state = "started" =>
               games'[g] = [games[g] EXCEPT !.state = "lost"]
  BY DEF Crash
<1>4. \A g \in Game :
         /\ games'[g].counted = games[g].counted
         /\ games'[g].roster = games[g].roster
         /\ games'[g].state \in {"waiting", "started", "reported", "lost"}
         /\ games'[g].state = "waiting" <=> games[g].state = "waiting"
         /\ games'[g].state = "reported" <=> games[g].state = "reported"
         /\ games'[g] \in [state: {"waiting", "started", "reported", "lost"},
                           roster: SUBSET Id, counted: SUBSET Id]
  BY <1>2, <1>3 DEF GamesType
<1>5. games' \in GamesType
  BY <1>4 DEF Crash, GamesType
<1>6. Counted(db', games')
  <2> SUFFICES ASSUME NEW id \in DOMAIN db.profiles
               PROVE  db.profiles[id].games =
                         Cardinality({g \in Game : id \in games'[g].counted})
    BY <1>1 DEF Counted
  <2>1. {g \in Game : id \in games'[g].counted} =
           {g \in Game : id \in games[g].counted}
    BY <1>4
  <2> QED BY <2>1, <1>2 DEF Consistent, Counted
<1>7. Given(db', games')
  <2>1. {g \in Game : games'[g].state # "waiting"} =
           {g \in Game : games[g].state # "waiting"}
    BY <1>4
  <2> QED BY <2>1, <1>1, <1>2, <1>4 DEF Consistent, Given
<1>8. IsTransaction(tx') /\ CallInv' /\ WithinProfileLimit'
  BY <1>1 DEF IsTransaction, CallInv, WithinProfileLimit
<1> QED BY <1>1, <1>2, <1>5, <1>6, <1>7, <1>8 DEF Kept, Consistent

\* A game starts with players that have profiles, and nothing counted.
LEMMA StartStep ==
    ASSUME NEW g \in Game, NEW roster \in SUBSET Id
    PROVE  Kept /\ StartGame(g, roster) => Kept'
<1> SUFFICES ASSUME Kept, StartGame(g, roster) PROVE Kept'
  OBVIOUS
<1>1. limit' = limit /\ db' = db /\ tx' = tx
      /\ games[g].state = "waiting" /\ roster \subseteq DOMAIN db.profiles
  BY DEF StartGame
<1>2. games \in GamesType /\ Consistent(db, games)
  BY DEF Kept
<1> DEFINE row == [games[g] EXCEPT !.state = "started", !.roster = roster]
<1>3. games' = [games EXCEPT ![g] = row]
  BY <1>2 DEF StartGame, GamesType
<1>4. /\ row \in [state: {"waiting", "started", "reported", "lost"},
                  roster: SUBSET Id, counted: SUBSET Id]
      /\ row.state = "started" /\ row.roster = roster
      /\ row.counted = games[g].counted
  BY <1>2 DEF GamesType
<1> HIDE DEF row
<1>5. /\ games' \in GamesType /\ games'[g] = row
      /\ \A other \in Game : other # g => games'[other] = games[other]
  BY <1>2, <1>3, <1>4 DEF GamesType
<1>6. games[g].counted = {}
  BY <1>1, <1>2 DEF Consistent, Given
<1>7. Counted(db', games')
  <2> SUFFICES ASSUME NEW id \in DOMAIN db.profiles
               PROVE  db.profiles[id].games =
                         Cardinality({h \in Game : id \in games'[h].counted})
    BY <1>1 DEF Counted
  <2>1. {h \in Game : id \in games'[h].counted} =
           {h \in Game : id \in games[h].counted}
    BY <1>4, <1>5
  <2> QED BY <2>1, <1>2 DEF Consistent, Counted
<1>8. Given(db', games')
  <2>1. {h \in Game : games'[h].state # "waiting"} =
           {h \in Game : games[h].state # "waiting"} \union {g}
    BY <1>4, <1>5
  <2>2. IsFiniteSet({h \in Game : games'[h].state # "waiting"})
    <3> DEFINE W == {h \in Game : games[h].state # "waiting"}
    <3>1. IsFiniteSet(W)
      BY <1>2 DEF Consistent, Given
    <3> HIDE DEF W
    <3>2. IsFiniteSet(W \union {g})
      BY <3>1, FS_AddElement
    <3> QED BY <3>2, <2>1 DEF W
  <2>3. \A h \in Game :
           /\ games'[h].counted \subseteq games'[h].roster
           /\ games'[h].roster \subseteq 1 .. db.lastId
           /\ games'[h].state # "reported" => games'[h].counted = {}
    BY <1>1, <1>2, <1>4, <1>5, <1>6 DEF Consistent, Given
  <2> QED BY <2>2, <2>3, <1>1, <1>2 DEF Consistent, Given
<1>9. CallInv'
  BY <1>1, <1>5, CallInvKept DEF Kept
<1>10. WithinProfileLimit' /\ IsTransaction(tx')
  BY <1>1 DEF Kept, WithinProfileLimit
<1> QED BY <1>1, <1>2, <1>5, <1>7, <1>8, <1>9, <1>10 DEF Kept, Consistent

\* Every step keeps what the invariant says.
LEMMA StoreStep == Kept /\ [Next]_vars => Kept'
<1> SUFFICES ASSUME Kept, [Next]_vars PROVE Kept'
  OBVIOUS
<1>1. CASE Next
  BY <1>1, CallStep, ExecuteStep, RollbackStep, CommitStep, OpenStep, CrashStep,
     StartStep DEF Next
<1>2. CASE UNCHANGED vars
  <2>1. limit' = limit /\ db' = db /\ games' = games /\ tx' = tx
    BY <1>2 DEF vars
  <2>2. Consistent(db', games') /\ IsTransaction(tx')
    BY <2>1 DEF Kept
  <2>3. CallInv'
    BY <2>1, CallInvKept DEF Kept
  <2> QED BY <2>1, <2>2, <2>3 DEF Kept, WithinProfileLimit, GamesType
<1> QED BY <1>1, <1>2

\* The inductive invariant.
LEMMA StoreInvHolds == Spec => []StoreInv
BY InitStore, StoreStep, InvIsKept, PTL DEF Spec

\* TypeOK of ProfileStore.tla, for every number of ids, games and buddies and
\* for every range of the counters.
THEOREM TypeCorrect == Spec => []TypeOK
<1>1. StoreInv => TypeOK
  BY DEF StoreInv
<1> QED BY <1>1, StoreInvHolds, PTL

\* Keys are unique, buddies and requests are between profiles that exist, and
\* no server serves more profiles than its limit: wherever a transaction is
\* rolled back or interrupted.
THEOREM StoreSound == Spec => []StoreIsSound
<1>1. StoreInv => StoreIsSound
  BY DEF StoreInv
<1> QED BY <1>1, StoreInvHolds, PTL

\* A profile has played as many games as reports count for it: no report is
\* written in part or twice, whatever fails and whenever the process ends.
THEOREM ResultsOnce == Spec => []ResultsCountedOnce
<1>1. StoreInv => ResultsCountedOnce
  BY DEF StoreInv
<1> QED BY <1>1, StoreInvHolds, PTL

-----------------------------------------------------------------------------
(* Every call is one step of Profiles.tla, or none.                        *)

CountedReports == [g \in Reported |-> games[g].counted]

\* A step that leaves the database and the reports alone is none.
LEMMA NoStep ==
    ASSUME games \in GamesType, games' \in GamesType, db' = db,
           \A g \in Game :
              /\ games'[g].state = "reported" <=> games[g].state = "reported"
              /\ games'[g].counted = games[g].counted
    PROVE  UNCHANGED AbstractProfiles!vars
<1>1. Reported' = Reported
  BY DEF Reported
<1>2. CountedReports' = CountedReports
  BY <1>1 DEF CountedReports, Reported
<1> QED BY <1>2 DEF AbstractProfiles!vars, CountedReports

\* A call without a report leaves the reports alone.
LEMMA SameReports ==
    ASSUME tx.game = NoGame, Commit
    PROVE  CountedReports' = CountedReports /\ db' = tx.db
<1>1. games' = games /\ db' = tx.db
  BY DEF Commit
<1> QED BY <1>1 DEF CountedReports, Reported

\* The commit of each call is the step of that call.  A registration.
LEMMA CommitRegister ==
    ASSUME Consistent(db, games), Commit, tx.left = {},
           NEW u \in Username, NEW n \in DisplayName, HoldsRegister(u, n)
    PROVE  AbstractProfiles!Register(u, n)
<1> DEFINE row == [username |-> u, name |-> n, games |-> 0, rating |-> 0]
<1>1. tx.game = NoGame /\ tx.db = Executed(db, InsertProfile(u, n))
  BY DoneOne DEF HoldsRegister
<1>2. CountedReports' = CountedReports /\ db' = tx.db
  BY <1>1, SameReports
<1>3. /\ db'.profiles = Put(db.profiles, db.lastId + 1, row)
      /\ db'.buddies = db.buddies /\ db'.requests = db.requests
      /\ db'.lastId = db.lastId + 1
  BY <1>1, <1>2, InsertProfileDoes DEF Consistent
<1>4. db'.profiles = Put(db.profiles, db'.lastId, row)
  BY <1>3
<1>5. \A id \in DOMAIN db.profiles :
         db.profiles[id].username # u /\ db.profiles[id].name # n
  BY DEF HoldsRegister
<1> HIDE DEF row
<1>6. db'.profiles = AbstractProfiles!Put(db.profiles, db'.lastId, row)
  BY <1>4 DEF Put, AbstractProfiles!Put
<1> QED BY <1>2, <1>3, <1>5, <1>6
        DEF AbstractProfiles!Register, CountedReports, row

\* A rename.
LEMMA CommitRename ==
    ASSUME Consistent(db, games), Commit, tx.left = {},
           NEW id, NEW n, HoldsRename(id, n)
    PROVE  AbstractProfiles!Rename(id, n)
<1>1. tx.game = NoGame /\ tx.db = Executed(db, UpdateName(id, n))
  BY DoneOne DEF HoldsRename
<1>2. CountedReports' = CountedReports /\ db' = tx.db
  BY <1>1, SameReports
<1>3. /\ db'.profiles = [db.profiles EXCEPT ![id].name = n]
      /\ db'.buddies = db.buddies /\ db'.requests = db.requests
      /\ db'.lastId = db.lastId
  BY <1>1, <1>2, UpdateNameDoes DEF Consistent
<1>4. \A other \in DOMAIN db.profiles \ {id} : db.profiles[other].name # n
  BY DEF HoldsRename
<1> QED BY <1>2, <1>3, <1>4 DEF AbstractProfiles!Rename, CountedReports

\* A deletion.
LEMMA CommitDelete ==
    ASSUME Consistent(db, games), Commit, tx.left = {}, NEW id, HoldsDelete(id)
    PROVE  AbstractProfiles!Delete(id)
<1> DEFINE b == {pair \in db.buddies : id \notin pair}
           r == {q \in db.requests : id \notin {q[1], q[2]}}
<1>1. tx.game = NoGame /\ tx.db = Executed(db, RemoveProfile(id))
  BY DoneOne DEF HoldsDelete
<1>2. CountedReports' = CountedReports /\ db' = tx.db
  BY <1>1, SameReports
<1>3. db' = [profiles |-> Without(db.profiles, {id}), buddies |-> b,
             requests |-> r, lastId |-> db.lastId]
  BY <1>1, <1>2, RemoveProfileDoes DEF Consistent
<1> HIDE DEF b, r
<1>4. /\ db'.profiles = Without(db.profiles, {id})
      /\ db'.buddies = b /\ db'.requests = r /\ db'.lastId = db.lastId
  BY <1>3
<1>5. db'.profiles = AbstractProfiles!Without(db.profiles, {id})
  BY <1>4 DEF Without, AbstractProfiles!Without
<1> QED BY <1>2, <1>4, <1>5 DEF AbstractProfiles!Delete, CountedReports, b, r

\* A buddy request.
LEMMA CommitRequest ==
    ASSUME Consistent(db, games), Commit, tx.left = {},
           NEW from, NEW target, HoldsRequest(from, target)
    PROVE  AbstractProfiles!RequestBuddy(from, target)
<1>1. tx.game = NoGame /\ tx.db = Executed(db, InsertRequest(from, target))
  BY DoneOne DEF HoldsRequest
<1>2. CountedReports' = CountedReports /\ db' = tx.db
  BY <1>1, SameReports
<1>3. /\ db'.profiles = db.profiles /\ db'.buddies = db.buddies
      /\ db'.requests = db.requests \union {<<from, target>>}
      /\ db'.lastId = db.lastId
  BY <1>1, <1>2, InsertRequestDoes DEF Consistent
<1>4. from # target /\ {from, target} \notin db.buddies
  BY DEF HoldsRequest
<1> QED BY <1>2, <1>3, <1>4 DEF AbstractProfiles!RequestBuddy, CountedReports

\* Its answer.
LEMMA CommitAccept ==
    ASSUME Consistent(db, games), Commit, tx.left = {},
           NEW user, NEW requester, HoldsAccept(user, requester)
    PROVE  AbstractProfiles!AcceptBuddy(user, requester)
<1>1. /\ tx.game = NoGame
      /\ tx.db = Executed(Executed(db, DeleteRequest(requester, user)),
                          InsertBuddies({user, requester}))
  BY DoneTwo DEF HoldsAccept
<1>2. CountedReports' = CountedReports /\ db' = tx.db
  BY <1>1, SameReports
<1>3. /\ user \in DOMAIN db.profiles /\ requester \in DOMAIN db.profiles
      /\ user # requester /\ <<requester, user>> \in db.requests
  BY DEF HoldsAccept
<1>4. /\ db'.profiles = db.profiles
      /\ db'.requests = db.requests \ {<<requester, user>>}
      /\ db'.buddies = db.buddies \union {{user, requester}}
      /\ db'.lastId = db.lastId
  BY <1>1, <1>2, <1>3, AfterAccept
<1> QED BY <1>2, <1>3, <1>4 DEF AbstractProfiles!AcceptBuddy, CountedReports

\* The end of a friendship.
LEMMA CommitRemove ==
    ASSUME Consistent(db, games), Commit, tx.left = {},
           NEW user, NEW buddy, HoldsRemove(user, buddy)
    PROVE  AbstractProfiles!RemoveBuddy(user, buddy)
<1> DEFINE c == Executed(db, DeleteBuddies({user, buddy}))
           e == Executed(c, DeleteRequests({user, buddy}))
<1>1. tx.game = NoGame /\ tx.db = e
  BY DoneTwo DEF HoldsRemove
<1>2. CountedReports' = CountedReports /\ db' = tx.db
  BY <1>1, SameReports
<1>3. user \in DOMAIN db.profiles /\ buddy \in DOMAIN db.profiles
  BY DEF HoldsRemove
<1>4. /\ e.profiles = db.profiles
      /\ e.requests = Strangers(db.requests, {user, buddy})
      /\ e.buddies = db.buddies \ {{user, buddy}}
      /\ e.lastId = db.lastId
  BY <1>3, AfterRemove
<1> HIDE DEF e
<1>5. Strangers(db.requests, {user, buddy}) =
         db.requests \ {<<user, buddy>>, <<buddy, user>>}
  <2>1. db.requests \subseteq Id \X Id
    BY DatabaseFields DEF Consistent
  <2>2. \A r \in Id \X Id :
           {r[1], r[2]} # {user, buddy} <=> r # <<user, buddy>> /\ r # <<buddy, user>>
    OBVIOUS
  <2> QED BY <2>1, <2>2 DEF Strangers
<1>6. /\ db'.profiles = db.profiles
      /\ db'.requests = db.requests \ {<<user, buddy>>, <<buddy, user>>}
      /\ db'.buddies = db.buddies \ {{user, buddy}}
      /\ db'.lastId = db.lastId
  BY <1>1, <1>2, <1>4, <1>5
<1> QED BY <1>2, <1>6 DEF AbstractProfiles!RemoveBuddy, CountedReports

\* A change of the rating.
LEMMA CommitRating ==
    ASSUME Consistent(db, games), Commit, tx.left = {},
           NEW id, NEW delta \in Delta, HoldsRating(id, delta)
    PROVE  id \in DOMAIN db.profiles /\ AbstractProfiles!Rate(id)
<1>1. /\ tx.game = NoGame /\ tx.db = Executed(db, UpdateStats(id, 0, delta))
      /\ Executable(db, UpdateStats(id, 0, delta))
  BY DoneOne DEF HoldsRating
<1>2. CountedReports' = CountedReports /\ db' = tx.db
  BY <1>1, SameReports
<1>3. delta \in Int
  BY DeltaAssumption
<1>4. /\ id \in DOMAIN db.profiles
      /\ \E rating \in 0 .. MaxCounter :
            db'.profiles = [db.profiles EXCEPT ![id].rating = rating]
      /\ db'.buddies = db.buddies /\ db'.requests = db.requests
      /\ db'.lastId = db.lastId
  BY <1>1, <1>2, <1>3, AfterRating
<1> QED BY <1>2, <1>4 DEF AbstractProfiles!Rate, CountedReports

\* A report, for all of its players together.
LEMMA CommitReport ==
    ASSUME Consistent(db, games), games \in GamesType, Commit, tx.left = {},
           NEW g \in Game, NEW winners, NEW left, HoldsResults(g, winners, left),
           NEW ids, ids = tx.rows
    PROVE  ids \in SUBSET DOMAIN db.profiles /\ AbstractProfiles!Report(g, ids)
<1>1. /\ tx.game = g /\ games[g].state = "started"
      /\ ids \subseteq DOMAIN db.profiles
      /\ tx.db = Resulting(db, ids, winners)
      /\ \A id \in ids : Fits(db.profiles[id], Result(id, winners))
  BY DoneResults DEF HoldsResults
<1> DEFINE e == Resulting(db, ids, winners)
<1>2. db' = e
  BY <1>1 DEF Commit
<1>3. IsDatabase(db)
  BY DEF Consistent
<1>4. /\ e.buddies = db.buddies /\ e.requests = db.requests
      /\ e.lastId = db.lastId /\ DOMAIN e.profiles = DOMAIN db.profiles
      /\ \A id \in ids :
            /\ e.profiles[id].username = db.profiles[id].username
            /\ e.profiles[id].name = db.profiles[id].name
            /\ e.profiles[id].games = db.profiles[id].games + 1
            /\ e.profiles[id].rating \in 0 .. MaxCounter
      /\ \A id \in DOMAIN db.profiles \ ids :
            e.profiles[id] = db.profiles[id]
  BY <1>1, <1>3, ResultsDo
<1> HIDE DEF e
<1>5. \A id \in ids :
         AbstractProfiles!PlayedAGame(db.profiles[id], db'.profiles[id])
  BY <1>2, <1>4 DEF AbstractProfiles!PlayedAGame
<1>6. /\ games'[g].state = "reported" /\ games'[g].counted = ids
      /\ \A other \in Game : other # g => games'[other] = games[other]
  BY <1>1, NoGameAssumption DEF Commit, GamesType
<1>7. g \notin Reported /\ Reported' = Reported \union {g}
  BY <1>1, <1>6 DEF Reported
<1>8. DOMAIN CountedReports = Reported
  BY DEF CountedReports
<1>9. CountedReports' = AbstractProfiles!Put(CountedReports, g, ids)
  BY <1>6, <1>7, <1>8 DEF CountedReports, AbstractProfiles!Put, Reported
<1>10. /\ g \notin DOMAIN CountedReports
       /\ DOMAIN db'.profiles = DOMAIN db.profiles
       /\ \A id \in DOMAIN db.profiles \ ids :
             db'.profiles[id] = db.profiles[id]
       /\ db'.buddies = db.buddies /\ db'.requests = db.requests
       /\ db'.lastId = db.lastId
  BY <1>2, <1>4, <1>7, <1>8
<1> QED BY <1>1, <1>5, <1>9, <1>10 DEF AbstractProfiles!Report, CountedReports

\* A commit is the step of the call whose transaction it ends.
LEMMA CommitImplements == Kept /\ Commit => AbstractProfiles!Next
<1> SUFFICES ASSUME Kept, Commit PROVE AbstractProfiles!Next
  OBVIOUS
<1>1. /\ Consistent(db, games) /\ games \in GamesType
      /\ CallInv /\ tx # Idle /\ tx.left = {}
  BY DEF Kept, Commit
<1>2. CASE \E u \in Username, n \in DisplayName : HoldsRegister(u, n)
  <2>1. PICK u \in Username, n \in DisplayName : HoldsRegister(u, n)
    BY <1>2
  <2>2. AbstractProfiles!Register(u, n)
    BY <1>1, <2>1, CommitRegister
  <2> QED BY <2>2 DEF AbstractProfiles!Next
<1>3. CASE \E id \in Id, n \in DisplayName : HoldsRename(id, n)
  <2>1. PICK id \in Id, n \in DisplayName : HoldsRename(id, n)
    BY <1>3
  <2>2. id \in DOMAIN db.profiles /\ AbstractProfiles!Rename(id, n)
    BY <1>1, <2>1, CommitRename DEF HoldsRename
  <2> QED BY <2>2 DEF AbstractProfiles!Next
<1>4. CASE \E id \in Id : HoldsDelete(id)
  <2>1. PICK id \in Id : HoldsDelete(id)
    BY <1>4
  <2>2. id \in DOMAIN db.profiles /\ AbstractProfiles!Delete(id)
    BY <1>1, <2>1, CommitDelete DEF HoldsDelete
  <2> QED BY <2>2 DEF AbstractProfiles!Next
<1>5. CASE \E id, other \in Id : HoldsRequest(id, other)
  <2>1. PICK id \in Id, other \in Id : HoldsRequest(id, other)
    BY <1>5
  <2>2. /\ id \in DOMAIN db.profiles /\ other \in DOMAIN db.profiles
        /\ AbstractProfiles!RequestBuddy(id, other)
    BY <1>1, <2>1, CommitRequest DEF HoldsRequest
  <2> QED BY <2>2 DEF AbstractProfiles!Next
<1>6. CASE \E id, other \in Id : HoldsAccept(id, other)
  <2>1. PICK id \in Id, other \in Id : HoldsAccept(id, other)
    BY <1>6
  <2>2. /\ id \in DOMAIN db.profiles /\ other \in DOMAIN db.profiles
        /\ AbstractProfiles!AcceptBuddy(id, other)
    BY <1>1, <2>1, CommitAccept DEF HoldsAccept
  <2> QED BY <2>2 DEF AbstractProfiles!Next
<1>7. CASE \E id, other \in Id : HoldsRemove(id, other)
  <2>1. PICK id \in Id, other \in Id : HoldsRemove(id, other)
    BY <1>7
  <2>2. /\ id \in DOMAIN db.profiles /\ other \in DOMAIN db.profiles
        /\ AbstractProfiles!RemoveBuddy(id, other)
    BY <1>1, <2>1, CommitRemove DEF HoldsRemove
  <2> QED BY <2>2 DEF AbstractProfiles!Next
<1>8. CASE \E id \in Id, delta \in Delta : HoldsRating(id, delta)
  <2>1. PICK id \in Id, delta \in Delta : HoldsRating(id, delta)
    BY <1>8
  <2>2. id \in DOMAIN db.profiles /\ AbstractProfiles!Rate(id)
    BY <1>1, <2>1, CommitRating
  <2> QED BY <2>2 DEF AbstractProfiles!Next
<1>9. CASE \E g \in Game, winners, left \in SUBSET Id :
              HoldsResults(g, winners, left)
  <2>1. PICK g \in Game, winners \in SUBSET Id, left \in SUBSET Id :
              HoldsResults(g, winners, left)
    BY <1>9
  <2>2. PICK ids : ids = tx.rows
    OBVIOUS
  <2>3. ids \in SUBSET DOMAIN db.profiles /\ AbstractProfiles!Report(g, ids)
    BY <1>1, <2>1, <2>2, CommitReport
  <2> QED BY <2>3 DEF AbstractProfiles!Next
<1>10. \/ \E u \in Username, n \in DisplayName : HoldsRegister(u, n)
       \/ \E id \in Id, n \in DisplayName : HoldsRename(id, n)
       \/ \E id \in Id : HoldsDelete(id)
       \/ \E id, other \in Id : HoldsRequest(id, other)
       \/ \E id, other \in Id : HoldsAccept(id, other)
       \/ \E id, other \in Id : HoldsRemove(id, other)
       \/ \E id \in Id, delta \in Delta : HoldsRating(id, delta)
       \/ \E g \in Game, winners, left \in SUBSET Id :
             HoldsResults(g, winners, left)
  BY <1>1 DEF CallInv
<1> QED BY <1>2, <1>3, <1>4, <1>5, <1>6, <1>7, <1>8, <1>9, <1>10

\* Every other step is none.
LEMMA StepImplements ==
    Kept /\ [Next]_vars => [AbstractProfiles!Next]_AbstractProfiles!vars
<1> SUFFICES ASSUME Kept, [Next]_vars
             PROVE  [AbstractProfiles!Next]_AbstractProfiles!vars
  OBVIOUS
<1>1. games \in GamesType /\ games' \in GamesType /\ IsDatabase(db)
  BY StoreStep DEF Kept, Consistent
<1>2. CASE Commit
  BY <1>2, CommitImplements
<1>3. CASE games' = games /\ db' = db
  BY <1>1, <1>3, NoStep
<1>4. CASE Crash
  <2>1. /\ db' = db
        /\ \A g \in Game :
              games'[g] = IF games[g].state = "started"
                          THEN [games[g] EXCEPT !.state = "lost"] ELSE games[g]
    BY <1>4 DEF Crash
  <2>2. \A g \in Game :
           /\ games'[g].state = "reported" <=> games[g].state = "reported"
           /\ games'[g].counted = games[g].counted
    BY <1>1, <2>1 DEF GamesType
  <2> QED BY <1>1, <2>1, <2>2, NoStep
<1>5. CASE \E g \in Game : \E roster \in SUBSET Id : StartGame(g, roster)
  <2>1. PICK g \in Game, roster \in SUBSET Id : StartGame(g, roster)
    BY <1>5
  <2>2. /\ db' = db /\ games[g].state = "waiting"
        /\ games'[g].state = "started" /\ games'[g].counted = games[g].counted
        /\ \A other \in Game : other # g => games'[other] = games[other]
    BY <1>1, <2>1 DEF StartGame, GamesType
  <2>3. \A h \in Game :
           /\ games'[h].state = "reported" <=> games[h].state = "reported"
           /\ games'[h].counted = games[h].counted
    BY <2>2
  <2> QED BY <1>1, <2>2, <2>3, NoStep
<1>6. CASE Call
  BY <1>1, <1>3, <1>6, CallKeeps
<1>7. CASE Execute \/ Rollback \/ \E l \in Limits : Open(l)
  BY <1>3, <1>7 DEF Execute, Rollback, Open
<1> QED BY <1>2, <1>3, <1>4, <1>5, <1>6, <1>7 DEF Next, vars

\* An empty store is an empty store.
LEMMA InitImplements == Init => AbstractProfiles!Init
<1> SUFFICES ASSUME Init PROVE AbstractProfiles!Init
  OBVIOUS
<1>1. /\ db.profiles = EmptyMap /\ db.buddies = {} /\ db.requests = {}
      /\ db.lastId = 0
  BY DEF Init, EmptyDatabase
<1>2. Reported = {}
  BY DEF Init, Reported
<1>3. CountedReports = EmptyMap
  BY <1>2 DEF CountedReports, EmptyMap
<1> QED BY <1>1, <1>3
        DEF AbstractProfiles!Init, AbstractProfiles!EmptyMap, EmptyMap,
            CountedReports

\* ImplementsProfiles of ProfileStore.tla: every call happens at once or not
\* at all, whatever fails in the middle of it and whenever the process ends,
\* and an id is given once.
THEOREM StoreImplementsProfiles == Spec => ImplementsProfiles
<1>1. Init => AbstractProfiles!Init
  BY InitImplements
<1>2. Kept /\ [Next]_vars => [AbstractProfiles!Next]_AbstractProfiles!vars
  BY StepImplements
<1>3. Spec => []Kept
  BY InitStore, StoreStep, PTL DEF Spec
<1>4. Spec => AbstractProfiles!Init /\ [][AbstractProfiles!Next]_AbstractProfiles!vars
  BY <1>1, <1>2, <1>3, PTL DEF Spec
<1> QED BY <1>4 DEF ImplementsProfiles, AbstractProfiles!Spec
=============================================================================
