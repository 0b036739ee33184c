----------------------------- MODULE MCControl -----------------------------
(***************************************************************************)
(* Control on small sets for TLC.                                          *)
(***************************************************************************)
EXTENDS Control, TLC

CONSTANTS c1, c1b, c2, u1, u2

\* The first user connects twice, the second once.
MCUserOf == c1 :> u1 @@ c1b :> u1 @@ c2 :> u2

\* The two are buddies when it starts; they may part and befriend again.
MCInitialBuddies == {{u1, u2}}

\* Who is in which room has no part in a shutdown: one begins when the users
\* are in the lounge or nowhere, and nobody goes elsewhere then.
ShutdownInLounge ==
    shutdown' # "running" => \A u \in DOMAIN userRoom' : userRoom'[u] = Lounge

\* The connections of the first user can be exchanged.
ConnSymmetry == Permutations({c1, c1b})
=============================================================================
