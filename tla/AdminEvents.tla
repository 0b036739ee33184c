---------------------------- MODULE AdminEvents ----------------------------
(***************************************************************************)
(* The realtime connections of the administrator                           *)
(* (src/internal/app/admin.go): tickets and event connections.  eventsMu   *)
(* guards tickets, counter and the set of connections; a handler takes it  *)
(* once per step.                                                          *)
(*                                                                         *)
(* Server.tla composes this with the start and the end of the server.      *)
(*                                                                         *)
(* An operator whose name ends in Fault is a plausible bug in the          *)
(* definition that follows it.  No specification uses it; README.md says   *)
(* which property each one breaks.                                         *)
(***************************************************************************)
EXTENDS Integers, FiniteSets, GoMaps

CONSTANTS
    MaxTickets,          \* bound: tickets that are ever drawn
    MaxStreams,          \* bound: requests for an event connection
    MaxEventTickets,     \* 64 in the code
    MaxEventConnections  \* 8 in the code

ASSUME BoundsAssumption == MaxTickets \in Nat /\ MaxStreams \in Nat
ASSUME MaxEventTicketsAssumption == MaxEventTickets \in Nat
ASSUME MaxEventConnectionsAssumption == MaxEventConnections \in Nat

VARIABLES
    tickets, \* eventTickets: the pending tickets, valid or expired
    issued,  \* how many tickets were drawn
    streams, \* where the handler of each request is, and its ticket
    count,   \* eventConnectionCount and the counter of eventConnectionWG
    closing, \* eventsClosing, set where eventsContext is cancelled
    dropped  \* streams whose connection shutdownEvents closed

eventVars == <<tickets, issued, streams, count, closing, dropped>>

-----------------------------------------------------------------------------
(* Types.                                                                  *)

\* Tickets are random and never drawn twice: numbers, in the order of their
\* issue, stand for them.  So they do for the requests.
Ticket == 1 .. MaxTickets

Stream == 1 .. MaxStreams

\* What a request may present that was never issued.
NoTicket == 0

\* away: not sent.  arrived, admitted, counted: before, between and after
\* consumeEventTicket and beginEventConnection.  hijacked: websocket.Accept
\* has taken the connection from the HTTP server.  streaming: tracked.
\* ending: no longer tracked.
StreamStage == {"away", "arrived", "admitted", "counted", "hijacked",
                "streaming", "ending", "gone"}

\* The stages in which the HTTP server counts the request as its own.
Owned == {"arrived", "admitted", "counted"}

\* The stages between beginEventConnection and finishEventConnection(nil).
Counted == {"counted", "hijacked", "streaming", "ending"}

AdminTypeOK ==
    /\ IsMap(tickets, Ticket, {"valid", "expired"})
    /\ issued \in 0 .. MaxTickets
    /\ streams \in [Stream -> [stage: StreamStage,
                               ticket: Ticket \union {NoTicket}]]
    /\ count \in 0 .. MaxEventConnections
    /\ closing \in BOOLEAN
    /\ dropped \subseteq Stream

-----------------------------------------------------------------------------
(* Tickets.                                                                *)

\* Expired tickets make room first.
IssueEventTicket ==
    LET left == {t \in DOMAIN tickets : tickets[t] = "valid"}
    IN  /\ issued < MaxTickets
        /\ ~ closing
        /\ IF Cardinality(left) < MaxEventTickets
           THEN /\ tickets' = [t \in left \union {issued + 1} |-> "valid"]
                /\ issued' = issued + 1
           ELSE /\ tickets' = [t \in left |-> "valid"]
                /\ UNCHANGED issued
        /\ UNCHANGED <<streams, count, closing, dropped>>

\* adminEventTicketTTL is over.
TicketExpires(t) ==
    /\ t \in DOMAIN tickets
    /\ tickets[t] = "valid"
    /\ tickets' = [tickets EXCEPT ![t] = "expired"]
    /\ UNCHANGED <<issued, streams, count, closing, dropped>>

-----------------------------------------------------------------------------
(* The handler of an event connection.                                     *)

To(s, stage) == streams' = [streams EXCEPT ![s].stage = stage]

\* A request presents a ticket; several may present the same.
Arrive(s) ==
    /\ streams[s].stage = "away"
    /\ \A earlier \in 1 .. s - 1 : streams[earlier].stage # "away"
    /\ \E t \in NoTicket .. issued :
          streams' = [streams EXCEPT ![s] = [stage |-> "arrived", ticket |-> t]]
    /\ UNCHANGED <<tickets, issued, count, closing, dropped>>

Valid(t) == t \in DOMAIN tickets /\ tickets[t] = "valid" /\ ~ closing

\* The ticket stays until it expires.
ConsumeEventTicketFault(s) ==
    /\ streams[s].stage = "arrived"
    /\ To(s, IF Valid(streams[s].ticket) THEN "admitted" ELSE "gone")
    /\ UNCHANGED <<tickets, issued, count, closing, dropped>>

\* The ticket is deleted whether it is valid or not.
ConsumeEventTicket(s) ==
    /\ streams[s].stage = "arrived"
    /\ To(s, IF Valid(streams[s].ticket) THEN "admitted" ELSE "gone")
    /\ tickets' = Without(tickets, {streams[s].ticket})
    /\ UNCHANGED <<issued, count, closing, dropped>>

\* One connection more than the limit.
HasCapacityFault == ~ closing /\ count <= MaxEventConnections

HasCapacity == ~ closing /\ count < MaxEventConnections

BeginEventConnection(s) ==
    /\ streams[s].stage = "admitted"
    /\ IF HasCapacity
       THEN To(s, "counted") /\ count' = count + 1
       ELSE To(s, "gone") /\ UNCHANGED count
    /\ UNCHANGED <<tickets, issued, closing, dropped>>

\* The deadlines are lifted and websocket.Accept hijacks the connection, or
\* one of them fails.
AcceptWebSocket(s) ==
    /\ streams[s].stage = "counted"
    /\ \/ To(s, "hijacked")
       \/ To(s, "ending")
    /\ UNCHANGED <<tickets, issued, count, closing, dropped>>

TrackEventConnection(s) ==
    /\ streams[s].stage = "hijacked"
    /\ To(s, "streaming")
    /\ UNCHANGED <<tickets, issued, count, closing, dropped>>

\* The context of the connection is done: it descends from eventsContext.
Over(s) == closing \/ s \in dropped

\* The peer goes, a write fails or the context is done: the connection is
\* taken out of eventConnections and closed.
EndStream(s) ==
    /\ streams[s].stage = "streaming"
    /\ To(s, "ending")
    /\ UNCHANGED <<tickets, issued, count, closing, dropped>>

\* finishEventConnection(nil).
Finish(s) ==
    /\ streams[s].stage = "ending"
    /\ To(s, "gone")
    /\ count' = count - 1
    /\ UNCHANGED <<tickets, issued, closing, dropped>>

-----------------------------------------------------------------------------
(* The end of the event connections.                                       *)

\* The critical section of shutdownEvents, and the loop that closes what was
\* tracked in it.
ShutdownEvents ==
    /\ closing' = TRUE
    /\ dropped' = {s \in Stream : streams[s].stage = "streaming"}
    /\ UNCHANGED <<tickets, issued, streams, count>>

\* eventConnectionWG.Wait returns.
EventsEnded == count = 0

-----------------------------------------------------------------------------

AdminInit ==
    /\ tickets = EmptyMap
    /\ issued = 0
    /\ streams = [s \in Stream |-> [stage |-> "away", ticket |-> NoTicket]]
    /\ count = 0
    /\ closing = FALSE
    /\ dropped = {}

\* The steps of a handler that is in the server.
StreamStep(s) ==
    \/ ConsumeEventTicket(s)
    \/ BeginEventConnection(s)
    \/ AcceptWebSocket(s)
    \/ TrackEventConnection(s)
    \/ EndStream(s)
    \/ Finish(s)

\* What the scheduler owes to a handler: it runs on, and a stream notices
\* that its context is done.
MustStep(s) == (streams[s].stage = "streaming" => Over(s)) /\ StreamStep(s)

-----------------------------------------------------------------------------
(* Properties.                                                             *)

\* A ticket opens one connection at most, however often it is presented, and
\* the counter that bounds the connections is the number of handlers that
\* took a place, whichever way each of them ends.
StreamsAreAccounted ==
    /\ \A s, other \in Stream :
          /\ s # other
          /\ streams[s].stage \in Counted
          /\ streams[other].stage \in Counted
          => streams[s].ticket # streams[other].ticket
    /\ \A s \in Stream :
          streams[s].stage \in Counted \union {"admitted"} =>
              streams[s].ticket \in 1 .. issued \ DOMAIN tickets
    /\ count = Cardinality({s \in Stream : streams[s].stage \in Counted})
    /\ Cardinality(DOMAIN tickets) <= MaxEventTickets
=============================================================================
