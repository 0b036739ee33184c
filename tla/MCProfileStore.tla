--------------------------- MODULE MCProfileStore ---------------------------
(***************************************************************************)
(* ProfileStore on small sets for TLC.                                     *)
(***************************************************************************)
EXTENDS ProfileStore, TLC

\* Names can be exchanged, and so can games.
NameSymmetry == Permutations(Username) \union Permutations(DisplayName)
                    \union Permutations(Game)
=============================================================================
