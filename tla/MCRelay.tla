------------------------------- MODULE MCRelay -------------------------------
(***************************************************************************)
(* Relay on small sets for TLC.                                            *)
(***************************************************************************)
EXTENDS Relay, TLC

CONSTANTS u1, u2, u3

\* Two participants, with a free slot between them.
MCTwo == {u1 :> 0 @@ u2 :> 2}

\* Three participants.
MCThree == {u1 :> 0 @@ u2 :> 1 @@ u3 :> 2}
=============================================================================
