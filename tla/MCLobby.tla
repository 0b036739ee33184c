------------------------------ MODULE MCLobby ------------------------------
(***************************************************************************)
(* Lobby on small sets for TLC.                                            *)
(***************************************************************************)
EXTENDS Lobby, TLC

CONSTANTS p1, p2, p3, c1, c2, c3, c1b

\* One connection per user.
MCUserOf == c1 :> p1 @@ c2 :> p2 @@ c3 :> p3

\* The first user may connect again while the first connection is still
\* there.
MCUserOfTwo == c1 :> p1 @@ c1b :> p1 @@ c2 :> p2

\* Game ids are drawn at random and never compared but for equality.
GameIdSymmetry == Permutations(GameId)

\* Nor are users: with one connection each, a user and his connection can
\* be exchanged with another user and his.
ClientOf(u) == CHOOSE c \in Client : UserOf[c] = u

UserSymmetry ==
    {moved @@ [c \in Client |-> ClientOf(moved[UserOf[c]])] :
        moved \in Permutations(Player)}

Symmetry == GameIdSymmetry \union UserSymmetry
=============================================================================
