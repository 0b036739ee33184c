------------------------------- MODULE Server -------------------------------
(***************************************************************************)
(* The life of the process (src/cmd/generals-server/main.go and            *)
(* src/internal/app/server.go): the listeners that Start opens one after   *)
(* the other, each of which may fail, the goroutines behind them, and      *)
(* Shutdown, which waits for what it closes until its deadline passes.     *)
(*                                                                         *)
(* The event connections of the administrator are AdminEvents, whose       *)
(* actions the server allows or stops.  What a control connection does is  *)
(* Control.tla; here it is a goroutine that may use the store.             *)
(*                                                                         *)
(* An operator whose name ends in Fault is a plausible bug in the          *)
(* definition that follows it.  No specification uses it; README.md says   *)
(* which property each one breaks.                                         *)
(***************************************************************************)
EXTENDS AdminEvents, Sequences

CONSTANTS
    Conn,      \* control connections
    Configured \* the optional listeners of the configuration

ASSUME ConfiguredAssumption ==
    Configured \subseteq {"publicWeb", "publicWebRedirect", "admin"}

VARIABLES
    main,      \* where main is: in Start, waiting, in Shutdown, or done
    listening, \* the open listeners
    accepting, \* the accept loop of the control server runs
    conns,     \* where the goroutine of each control connection is
    requests,  \* HTTP servers, admin aside, with a request in a handler
    cancelled, \* the context of the server is cancelled
    reported,  \* Server.errors holds an error
    signalled, \* the process was told to stop
    late,      \* the deadline of Shutdown has passed
    storeOpen  \* the database is open

lifeVars == <<main, listening, accepting, conns, requests, cancelled,
              reported, signalled, late, storeOpen>>
vars == <<eventVars, lifeVars>>

-----------------------------------------------------------------------------
(* Types.                                                                  *)

Http == {"health", "publicWeb", "publicWebRedirect", "admin"}

Part == {"relay", "control"} \union Http

\* What Start opens, in its order.
StartOrder == <<"certificates", "relay", "control", "health", "publicWeb",
                "publicWebRedirect", "admin", "serve">>

\* What Shutdown goes through.
ShutdownOrder == <<"publicWebRedirect", "publicWeb", "events", "admin", "hub",
                   "health", "control", "relay", "wait", "store">>

Place == [in: {"Start"}, at: 1 .. Len(StartOrder)]
         \union [in: {"failed", "waiting", "exited"}, at: {0}]
         \union [in: {"Shutdown"}, at: 1 .. Len(ShutdownOrder)]

ConnStage == {"away", "open", "online", "closed", "gone"}

-----------------------------------------------------------------------------
(* Helpers.                                                                *)

StartAt(step) == main.in = "Start" /\ StartOrder[main.at] = step

ShutdownAt(step) == main.in = "Shutdown" /\ ShutdownOrder[main.at] = step

\* The HTTP servers serve once Start has come to its end.
Serving(part) == part \in listening /\ main.in \in {"waiting", "Shutdown"}

\* No goroutine that control.Wait waits for is left.
ControlEnded ==
    ~ accepting /\ \A c \in Conn : conns[c] \in {"away", "gone"}

\* Requests of an HTTP server that are not hijacked.  A request to the
\* administration that is not for an event connection is as good as one
\* whose ticket is not valid.
Busy(part) ==
    \/ part \in requests
    \/ part = "admin" /\ \E s \in Stream : streams[s].stage \in Owned

Proceeds == main' = [main EXCEPT !.at = @ + 1]

\* ControlServer.Close: nothing is accepted and every connection is closed.
ControlClosed ==
    conns' = [c \in Conn |-> IF conns[c] \in {"open", "online"} THEN "closed"
                             ELSE conns[c]]

-----------------------------------------------------------------------------
(* Start, which holds Server.mu.                                           *)

\* A step succeeds, or its part is not configured.  The control server and
\* the relay run from here on, the HTTP servers from the last step on.
StartStep ==
    /\ main.in = "Start"
    /\ LET step == StartOrder[main.at]
       IN  /\ IF step \in {"relay", "control", "health"} \union Configured
              THEN listening' = listening \union {step}
              ELSE UNCHANGED listening
           /\ accepting' = (accepting \/ step = "control")
           /\ main' = IF step = "serve" THEN [in |-> "waiting", at |-> 0]
                      ELSE [main EXCEPT !.at = @ + 1]
    /\ UNCHANGED <<conns, requests, cancelled, reported, signalled, late,
                   storeOpen, eventVars>>

\* The database is closed without waiting for the connections that were
\* accepted meanwhile.
StartFailsFault ==
    /\ main.in = "Start"
    /\ StartOrder[main.at] \in {"certificates", "relay", "control", "health"}
                                   \union Configured
    /\ main' = [in |-> "exited", at |-> 0]
    /\ storeOpen' = FALSE
    /\ listening' = {}
    /\ ControlClosed
    /\ cancelled' = TRUE
    /\ UNCHANGED <<accepting, requests, reported, signalled, late, eventVars>>

\* A certificate does not load or a listener does not open: what was opened
\* is closed.
StartFails ==
    /\ main.in = "Start"
    /\ StartOrder[main.at] \in {"certificates", "relay", "control", "health"}
                                   \union Configured
    /\ main' = [in |-> "failed", at |-> 0]
    /\ listening' = {}
    /\ ControlClosed
    /\ cancelled' = TRUE
    /\ UNCHANGED <<accepting, requests, reported, signalled, late, storeOpen,
                   eventVars>>

\* control.Wait returns, the store is closed and the process exits.
StartCleanedUp ==
    /\ main.in = "failed"
    /\ ControlEnded
    /\ storeOpen' = FALSE
    /\ main' = [in |-> "exited", at |-> 0]
    /\ UNCHANGED <<listening, accepting, conns, requests, cancelled, reported,
                   signalled, late, eventVars>>

-----------------------------------------------------------------------------
(* What runs beside main.                                                  *)

\* The control server.
AcceptControl(c) ==
    /\ accepting
    /\ "control" \in listening
    /\ conns[c] = "away"
    /\ conns' = [conns EXCEPT ![c] = "open"]
    /\ UNCHANGED <<main, listening, accepting, requests, cancelled, reported,
                   signalled, late, storeOpen, eventVars>>

AuthenticateControl(c) ==
    /\ conns[c] = "open"
    /\ conns' = [conns EXCEPT ![c] = "online"]
    /\ UNCHANGED <<main, listening, accepting, requests, cancelled, reported,
                   signalled, late, storeOpen, eventVars>>

\* The handler returns, and the loop finds the connection ended or closed.
EndControl(c) ==
    /\ conns[c] \in {"open", "online", "closed"}
    /\ conns' = [conns EXCEPT ![c] = "gone"]
    /\ UNCHANGED <<main, listening, accepting, requests, cancelled, reported,
                   signalled, late, storeOpen, eventVars>>

\* Accept fails because the listener was closed.
AcceptLoopEnds ==
    /\ accepting
    /\ "control" \notin listening
    /\ accepting' = FALSE
    /\ UNCHANGED <<main, listening, conns, requests, cancelled, reported,
                   signalled, late, storeOpen, eventVars>>

\* Nobody receives from the channel yet, and the report is dropped.
ReportedFault == main.in = "waiting"

\* Server.errors has room for one report; later ones are dropped.
Reported == TRUE

\* A loop fails although its listener is open, alone or beside others.
\* http.Server.Serve closes the listener then and is reported at any time; the
\* loops of the relay and the control server do not close theirs, and report
\* nothing any more once the context is cancelled.
ListenerFails(part) ==
    /\ part \in listening
    /\ part \in {"relay", "control"} \/ Serving(part)
    /\ part = "control" => accepting
    /\ reported' = (reported \/ (Reported /\ (part \in Http \/ ~ cancelled)))
    /\ cancelled' = TRUE
    /\ accepting' = (accepting /\ part # "control")
    /\ listening' = listening \ ({part} \intersect Http)
    /\ UNCHANGED <<main, conns, requests, signalled, late, storeOpen,
                   eventVars>>

BeginRequest(part) ==
    /\ part # "admin"
    /\ Serving(part)
    /\ part \notin requests
    /\ requests' = requests \union {part}
    /\ UNCHANGED <<main, listening, accepting, conns, cancelled, reported,
                   signalled, late, storeOpen, eventVars>>

EndRequest(part) ==
    /\ part \in requests
    /\ requests' = requests \ {part}
    /\ UNCHANGED <<main, listening, accepting, conns, cancelled, reported,
                   signalled, late, storeOpen, eventVars>>

\* The administrator's requests come through the admin server.
ArriveStream(s) ==
    Serving("admin") /\ Arrive(s) /\ UNCHANGED lifeVars

IssueTicket ==
    Serving("admin") /\ IssueEventTicket /\ UNCHANGED lifeVars

AdminStep ==
    /\ \/ \E t \in Ticket : TicketExpires(t)
       \/ \E s \in Stream : StreamStep(s)
    /\ UNCHANGED lifeVars

\* SIGTERM or SIGINT, which also cancels the context of the server.  After
\* that, or when Shutdown is called anyway, another signal changes nothing.
Signal ==
    /\ ~ cancelled
    /\ signalled' = TRUE
    /\ cancelled' = TRUE
    /\ UNCHANGED <<main, listening, accepting, conns, requests, reported,
                   late, storeOpen, eventVars>>

-----------------------------------------------------------------------------
(* Shutdown.                                                               *)

\* main's select, and the part of Shutdown under Server.mu.
CallShutdown ==
    /\ main.in = "waiting"
    /\ signalled \/ reported
    /\ main' = [in |-> "Shutdown", at |-> 1]
    /\ cancelled' = TRUE
    /\ UNCHANGED <<listening, accepting, conns, requests, reported, signalled,
                   late, storeOpen, eventVars>>

\* gracefulShutdownTimeout is over.
DeadlinePasses ==
    /\ main.in = "Shutdown"
    /\ ~ late
    /\ late' = TRUE
    /\ UNCHANGED <<main, listening, accepting, conns, requests, cancelled,
                   reported, signalled, storeOpen, eventVars>>

\* http.Server.Shutdown closes the listener first and then waits for the
\* requests.
CloseHttpListener ==
    /\ main.in = "Shutdown"
    /\ ShutdownOrder[main.at] \in Http \intersect listening
    /\ listening' = listening \ {ShutdownOrder[main.at]}
    /\ UNCHANGED <<main, accepting, conns, requests, cancelled, reported,
                   signalled, late, storeOpen, eventVars>>

\* The requests are answered, or the deadline has passed and the connections
\* are closed under their handlers.
HttpEnded ==
    /\ main.in = "Shutdown"
    /\ ShutdownOrder[main.at] \in Http \ listening
    /\ ~ Busy(ShutdownOrder[main.at]) \/ late
    /\ Proceeds
    /\ UNCHANGED <<listening, accepting, conns, requests, cancelled, reported,
                   signalled, late, storeOpen, eventVars>>

CloseEvents ==
    /\ ShutdownAt("events")
    /\ ~ closing
    /\ ShutdownEvents
    /\ UNCHANGED lifeVars

EventsWaited ==
    /\ ShutdownAt("events")
    /\ closing
    /\ EventsEnded \/ late
    /\ Proceeds
    /\ UNCHANGED <<listening, accepting, conns, requests, cancelled, reported,
                   signalled, late, storeOpen, eventVars>>

\* Hub.CloseAll closes the connections that are online.
CloseHub ==
    /\ ShutdownAt("hub")
    /\ conns' = [c \in Conn |-> IF conns[c] = "online" THEN "closed"
                                ELSE conns[c]]
    /\ Proceeds
    /\ UNCHANGED <<listening, accepting, requests, cancelled, reported,
                   signalled, late, storeOpen, eventVars>>

CloseControl ==
    /\ ShutdownAt("control")
    /\ listening' = listening \ {"control"}
    /\ ControlClosed
    /\ Proceeds
    /\ UNCHANGED <<accepting, requests, cancelled, reported, signalled, late,
                   storeOpen, eventVars>>

CloseRelay ==
    /\ ShutdownAt("relay")
    /\ listening' = listening \ {"relay"}
    /\ Proceeds
    /\ UNCHANGED <<accepting, conns, requests, cancelled, reported, signalled,
                   late, storeOpen, eventVars>>

\* control.Wait returns or the deadline passes.
ControlWaited ==
    /\ ShutdownAt("wait")
    /\ ControlEnded \/ late
    /\ Proceeds
    /\ UNCHANGED <<listening, accepting, conns, requests, cancelled, reported,
                   signalled, late, storeOpen, eventVars>>

\* The last step; main returns and the process exits.
CloseStore ==
    /\ ShutdownAt("store")
    /\ storeOpen' = FALSE
    /\ main' = [in |-> "exited", at |-> 0]
    /\ UNCHANGED <<listening, accepting, conns, requests, cancelled, reported,
                   signalled, late, eventVars>>

Exited == main.in = "exited" /\ UNCHANGED vars

-----------------------------------------------------------------------------

Init ==
    /\ main = [in |-> "Start", at |-> 1]
    /\ listening = {}
    /\ accepting = FALSE
    /\ conns = [c \in Conn |-> "away"]
    /\ requests = {}
    /\ cancelled = FALSE
    /\ reported = FALSE
    /\ signalled = FALSE
    /\ late = FALSE
    /\ storeOpen = TRUE
    /\ AdminInit

Starts == StartStep \/ StartFails \/ StartCleanedUp

Shutdown ==
    \/ CallShutdown \/ CloseHttpListener \/ HttpEnded \/ CloseEvents
    \/ EventsWaited \/ CloseHub \/ CloseControl \/ CloseRelay
    \/ ControlWaited \/ CloseStore

\* The process runs.
Next ==
    \/ /\ main.in # "exited"
       /\ \/ Starts
          \/ Shutdown
          \/ DeadlinePasses
          \/ Signal
          \/ \E c \in Conn : AcceptControl(c) \/ AuthenticateControl(c)
                             \/ EndControl(c)
          \/ AcceptLoopEnds
          \/ \E part \in Part : ListenerFails(part)
          \/ \E part \in Http : BeginRequest(part) \/ EndRequest(part)
          \/ \E s \in Stream : ArriveStream(s)
          \/ IssueTicket
          \/ AdminStep
    \/ Exited

Spec == Init /\ [][Next]_vars

\* main runs on, a handler of an HTTP request answers, a goroutine notices
\* that its connection, listener or context is closed.  Nobody else owes a
\* step: the deadline of Shutdown need not pass and peers need not go.
Fairness ==
    /\ WF_vars(Starts)
    /\ WF_vars(Shutdown)
    /\ WF_vars(AcceptLoopEnds)
    /\ \A part \in Http : WF_vars(EndRequest(part))
    /\ \A c \in Conn : WF_vars(conns[c] = "closed" /\ EndControl(c))
    /\ \A s \in Stream : WF_vars(MustStep(s) /\ UNCHANGED lifeVars)

FairSpec == Spec /\ Fairness

-----------------------------------------------------------------------------
(* Properties.                                                             *)

\* Every variable holds what its Go counterpart can hold.
TypeOK ==
    /\ AdminTypeOK
    /\ main \in Place
    /\ listening \subseteq Part
    /\ accepting \in BOOLEAN
    /\ conns \in [Conn -> ConnStage]
    /\ requests \subseteq Http \ {"admin"}
    /\ cancelled \in BOOLEAN
    /\ reported \in BOOLEAN
    /\ signalled \in BOOLEAN
    /\ late \in BOOLEAN
    /\ storeOpen \in BOOLEAN

\* The database is closed last: nothing listens any more and, unless the
\* deadline cut the shutdown short, no control connection, request or event
\* stream is left that could use it, also when Start failed half-way.
StoreClosesLast ==
    ~ storeOpen =>
        /\ listening = {}
        /\ cancelled
        /\ ~ late => /\ ControlEnded
                     /\ requests = {}
                     /\ \A s \in Stream : streams[s].stage \in {"away", "gone"}

\* A signal, a failed listener or a failed start ends the process, without
\* help of the deadline.
ShutdownEnds == cancelled ~> main.in = "exited"
=============================================================================
