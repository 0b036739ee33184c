---- MODULE MCAdmission ----
(***************************************************************************)
(* Instances of Admission for TLC.                                         *)
(***************************************************************************)
EXTENDS Admission, TLC

CONSTANTS c1, c2, c3, u1, u2, a, b

\* Two peers share the stored profile, the third has one to register.
MCAccountsMixed == c1 :> {u1} @@ c2 :> {u1} @@ c3 :> {u2}

\* Every peer has the one profile there is.
MCAccountsShared == [c \in Conn |-> User]

\* One profile is left from an earlier run of the server.
MCInitialName == u1 :> a

GuestTokenSymmetry == Permutations(Token) \union Permutations(Guest)
=============================================================================
