------------------------- MODULE MCAdmissionResume -------------------------
(***************************************************************************)
(* Admission with a history variable, for what docs/PROTOCOL.md says of a  *)
(* resume token that is presented and refused.                             *)
(***************************************************************************)
EXTENDS MCAdmission

\* Connections that resumed a token, and whose profile was issued another one
\* or had another connection admitted since: their token was replaced, as
\* docs/PROTOCOL.md:209 says it is.
VARIABLE superseded

historyVars == <<vars, superseded>>

Resuming(c) == At(c, "reserved") /\ conn[c].token # NoToken

\* What happens to the profile of c in a step of another connection.
Overtaken(c) ==
    \E d \in Conn \ {c} :
        /\ conn'[d].user = conn[c].user
        /\ conn'[d].pc \in {"issued", "live"}
        /\ conn'[d].pc # conn[d].pc

HistoryInit == Init /\ superseded = {}

HistoryNext ==
    /\ Next
    /\ superseded' = {c \in Conn : /\ Resuming(c)'
                                   /\ c \in superseded \/ Overtaken(c)}

HistorySpec == HistoryInit /\ [][HistoryNext]_historyVars

\* "A resume token is consumed only after admission succeeds, so a
\* `server_full` resume can retry the same token" (docs/PROTOCOL.md:218): a
\* resumption that is refused although the credentials are current, and
\* although nobody else got in or got a token meanwhile, leaves its token
\* behind.
RefusedResumeKeepsToken ==
    [][\A c \in Conn :
          /\ Resuming(c) /\ conn'[c].pc = "revoked"
          /\ Current(c)
          /\ c \notin superseded
          => conn[c].token \in DOMAIN sessions']_historyVars
=============================================================================
