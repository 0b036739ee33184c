---------------------------- MODULE ServerProofs ----------------------------
(***************************************************************************)
(* Proofs that the event connections of the administrator are accounted    *)
(* for and that the database is closed after everything that uses it, for  *)
(* any number of control connections, tickets and streams and any          *)
(* configuration of the listeners.                                         *)
(***************************************************************************)
EXTENDS Server, FiniteSetTheorems, TLAPS

-----------------------------------------------------------------------------
(* The event connections.                                                  *)

\* The handlers that have consumed a ticket and have not finished.
Holding == Counted \union {"admitted"}

\* The handlers that took a place.
Placed == {s \in Stream : streams[s].stage \in Counted}

\* StreamsAreAccounted needs to know that a ticket is also held by one
\* handler alone before a place is taken, and where tickets come from.
TicketsOnce ==
    /\ DOMAIN tickets \subseteq 1 .. issued
    /\ \A s \in Stream : streams[s].ticket \in 0 .. issued
    /\ \A s \in Stream :
          streams[s].stage \in Holding =>
              streams[s].ticket \in 1 .. issued \ DOMAIN tickets
    /\ \A s, other \in Stream :
          /\ s # other
          /\ streams[s].stage \in Holding
          /\ streams[other].stage \in Holding
          => streams[s].ticket # streams[other].ticket

EventsInv ==
    /\ AdminTypeOK
    /\ TicketsOnce
    /\ count = Cardinality(Placed)
    /\ Cardinality(DOMAIN tickets) <= MaxEventTickets

\* The property is part of the invariant.
LEMMA EventsAccounted == EventsInv => StreamsAreAccounted
BY DEF EventsInv, TicketsOnce, Holding, Placed, StreamsAreAccounted

\* There are only so many streams,
LEMMA StreamsFinite ==
    /\ IsFiniteSet(Stream)
    /\ IsFiniteSet(Placed)
<1>1. IsFiniteSet(Stream)
  BY FS_Interval, BoundsAssumption DEF Stream
<1>2. Placed \in SUBSET Stream
  BY DEF Placed
<1> QED BY <1>1, <1>2, FS_Subset

\* and so many tickets.
LEMMA TicketsFinite == AdminTypeOK => IsFiniteSet(DOMAIN tickets)
<1>1. IsFiniteSet(Ticket)
  BY FS_Interval, BoundsAssumption DEF Ticket
<1>2. AdminTypeOK => DOMAIN tickets \in SUBSET Ticket
  BY DEF AdminTypeOK, IsMap
<1> QED BY <1>1, <1>2, FS_Subset

\* Nothing was issued and nobody holds a place at first.
LEMMA EventsInit == AdminInit => EventsInv
<1> SUFFICES ASSUME AdminInit PROVE EventsInv
  OBVIOUS
<1>1. DOMAIN tickets = {} /\ Placed = {}
  BY DEF AdminInit, EmptyMap, Placed, Counted
<1>2. Cardinality({}) = 0
  BY FS_EmptySet
<1>3. AdminTypeOK
  <2>1. IsMap(tickets, Ticket, {"valid", "expired"})
    BY DEF AdminInit, EmptyMap, IsMap
  <2>2. issued \in 0 .. MaxTickets /\ count \in 0 .. MaxEventConnections
    BY BoundsAssumption, MaxEventConnectionsAssumption DEF AdminInit
  <2>3. streams \in [Stream -> [stage: StreamStage,
                                ticket: Ticket \union {NoTicket}]]
    BY DEF AdminInit, StreamStage
  <2> QED BY <2>1, <2>2, <2>3 DEF AdminInit, AdminTypeOK
<1>4. TicketsOnce
  BY <1>1 DEF AdminInit, TicketsOnce, NoTicket, Holding, Counted
<1> QED BY <1>1, <1>2, <1>3, <1>4, MaxEventTicketsAssumption
        DEF AdminInit, EventsInv

\* A handler goes from one stage to another.
LEMMA StreamTo ==
    ASSUME AdminTypeOK, NEW s \in Stream, NEW stage \in StreamStage, To(s, stage)
    PROVE  /\ streams' \in [Stream -> [stage: StreamStage,
                                       ticket: Ticket \union {NoTicket}]]
           /\ streams'[s].stage = stage
           /\ \A x \in Stream : streams'[x].ticket = streams[x].ticket
           /\ \A x \in Stream \ {s} : streams'[x] = streams[x]
BY DEF AdminTypeOK, To

\* No place is taken or given back.
LEMMA PlacesKept ==
    ASSUME EventsInv, UNCHANGED <<issued, count, tickets>>,
           streams' \in [Stream -> [stage: StreamStage,
                                    ticket: Ticket \union {NoTicket}]],
           \A x \in Stream : streams'[x].ticket \in 0 .. issued,
           \A x \in Stream :
              streams'[x].stage \in Holding =>
                  /\ streams'[x].ticket = streams[x].ticket
                  /\ streams[x].stage \in Holding,
           \A x \in Stream :
              streams'[x].stage \in Counted <=> streams[x].stage \in Counted,
           closing' \in BOOLEAN, dropped' \subseteq Stream
    PROVE  EventsInv'
<1>1. Placed' = Placed
  BY DEF Placed
<1>2. TicketsOnce'
  BY DEF EventsInv, TicketsOnce
<1> QED BY <1>1, <1>2 DEF EventsInv, AdminTypeOK

\* A ticket that is issued is new, and expired ones make room for it.
LEMMA IssueKeeps ==
    ASSUME EventsInv, IssueEventTicket
    PROVE  EventsInv'
<1> DEFINE left == {t \in DOMAIN tickets : tickets[t] = "valid"}
<1>1. /\ issued < MaxTickets /\ issued \in 0 .. MaxTickets
      /\ DOMAIN tickets \subseteq 1 .. issued
      /\ issued + 1 \in Ticket
  BY BoundsAssumption
  DEF EventsInv, AdminTypeOK, TicketsOnce, IssueEventTicket, Ticket
<1>2. IsFiniteSet(DOMAIN tickets)
  BY TicketsFinite DEF EventsInv
<1>3. left \in SUBSET DOMAIN tickets
  OBVIOUS
<1>4. IsFiniteSet(left) /\ Cardinality(left) <= Cardinality(DOMAIN tickets)
  BY <1>2, <1>3, FS_Subset
<1>5. UNCHANGED <<streams, count, closing, dropped>>
  BY DEF IssueEventTicket
<1>6. CASE Cardinality(left) < MaxEventTickets
  <2>1. tickets' = [t \in left \union {issued + 1} |-> "valid"]
        /\ issued' = issued + 1
    BY <1>6 DEF IssueEventTicket
  <2>2. issued + 1 \notin left
    BY <1>1
  <2>3. Cardinality(left \union {issued + 1}) = Cardinality(left) + 1
    BY <1>4, <2>2, FS_AddElement
  <2>4. Cardinality(left) \in Nat
    BY <1>4, FS_CardinalityType
  <2> HIDE DEF left
  <2>5. DOMAIN tickets' = left \union {issued + 1}
    BY <2>1
  <2>6. Cardinality(DOMAIN tickets') <= MaxEventTickets
    BY <1>6, <2>3, <2>4, <2>5, MaxEventTicketsAssumption
  <2>7. TicketsOnce'
    BY <1>1, <1>3, <1>5, <2>1, <2>5 DEF EventsInv, TicketsOnce
  <2>8. AdminTypeOK'
    BY <1>1, <1>3, <1>5, <2>1, <2>5, BoundsAssumption
    DEF EventsInv, AdminTypeOK, IsMap, Ticket
  <2>9. Placed' = Placed
    BY <1>5 DEF Placed
  <2> QED BY <1>5, <2>6, <2>7, <2>8, <2>9 DEF EventsInv
<1>7. CASE ~ (Cardinality(left) < MaxEventTickets)
  <2>1. tickets' = [t \in left |-> "valid"] /\ issued' = issued
    BY <1>7 DEF IssueEventTicket
  <2> HIDE DEF left
  <2>2. DOMAIN tickets' = left
    BY <2>1
  <2>3. Cardinality(left) \in Nat /\ Cardinality(DOMAIN tickets) \in Nat
    BY <1>2, <1>4, FS_CardinalityType
  <2>4. Cardinality(DOMAIN tickets') <= MaxEventTickets
    BY <1>4, <2>2, <2>3, MaxEventTicketsAssumption DEF EventsInv
  <2>5. TicketsOnce' /\ AdminTypeOK'
    BY <1>1, <1>3, <1>5, <2>1, <2>2 DEF EventsInv, TicketsOnce, AdminTypeOK, IsMap
  <2>6. Placed' = Placed
    BY <1>5 DEF Placed
  <2> QED BY <1>5, <2>4, <2>5, <2>6 DEF EventsInv
<1> QED BY <1>6, <1>7

\* A ticket is consumed with the handler that presents it.
LEMMA ConsumeKeeps ==
    ASSUME EventsInv, NEW s \in Stream, ConsumeEventTicket(s)
    PROVE  EventsInv'
<1> DEFINE t == streams[s].ticket
<1>1. AdminTypeOK /\ streams[s].stage = "arrived"
  BY DEF EventsInv, ConsumeEventTicket
<1>2. /\ DOMAIN tickets' = DOMAIN tickets \ {t}
      /\ \A x \in DOMAIN tickets' : tickets'[x] = tickets[x]
      /\ tickets' = [x \in DOMAIN tickets' |-> tickets'[x]]
      /\ UNCHANGED <<issued, count, closing, dropped>>
  BY DEF ConsumeEventTicket, Without
<1>3. /\ streams' \in [Stream -> [stage: StreamStage,
                                  ticket: Ticket \union {NoTicket}]]
      /\ streams'[s].stage \in {"admitted", "gone"}
      /\ streams'[s].stage = "admitted" => t \in DOMAIN tickets
      /\ \A x \in Stream : streams'[x].ticket = streams[x].ticket
      /\ \A x \in Stream \ {s} : streams'[x] = streams[x]
  BY <1>1, StreamTo DEF ConsumeEventTicket, Valid, StreamStage
<1>4. Placed' = Placed
  BY <1>1, <1>3 DEF Placed, Counted
<1>5. AdminTypeOK'
  BY <1>1, <1>2, <1>3 DEF AdminTypeOK, IsMap
<1>6. TicketsOnce'
  <2>1. TicketsOnce /\ t \in 0 .. issued
    BY DEF EventsInv, TicketsOnce
  <2>2. \A x \in Stream : streams'[x].stage \in Holding =>
           /\ x = s => t \in DOMAIN tickets
           /\ x # s => streams[x].stage \in Holding
    BY <1>3 DEF Holding, Counted
  <2>3. /\ DOMAIN tickets' \subseteq 1 .. issued
        /\ \A x \in Stream : streams'[x].ticket \in 0 .. issued
    BY <1>2, <1>3, <2>1 DEF TicketsOnce
  <2>4. \A x \in Stream : streams'[x].stage \in Holding =>
           streams'[x].ticket \in 1 .. issued \ DOMAIN tickets'
    BY <1>2, <1>3, <2>1, <2>2 DEF TicketsOnce
  <2>5. ASSUME NEW x \in Stream, NEW y \in Stream, x # y,
               streams'[x].stage \in Holding, streams'[y].stage \in Holding
        PROVE  streams'[x].ticket # streams'[y].ticket
    BY <1>3, <2>1, <2>2, <2>5 DEF TicketsOnce
  <2> QED BY <1>2, <2>3, <2>4, <2>5 DEF TicketsOnce
<1>7. Cardinality(DOMAIN tickets') <= MaxEventTickets
  <2>1. IsFiniteSet(DOMAIN tickets) /\ DOMAIN tickets' \in SUBSET DOMAIN tickets
    BY <1>1, <1>2, TicketsFinite
  <2>2. /\ Cardinality(DOMAIN tickets') <= Cardinality(DOMAIN tickets)
        /\ Cardinality(DOMAIN tickets) \in Nat
        /\ Cardinality(DOMAIN tickets') \in Nat
    BY <2>1, FS_Subset, FS_CardinalityType
  <2> QED BY <2>2, MaxEventTicketsAssumption DEF EventsInv
<1> QED BY <1>2, <1>4, <1>5, <1>6, <1>7 DEF EventsInv

\* A handler takes a place when there is one.
LEMMA BeginKeeps ==
    ASSUME EventsInv, NEW s \in Stream, BeginEventConnection(s)
    PROVE  EventsInv'
<1>1. AdminTypeOK /\ streams[s].stage = "admitted"
      /\ UNCHANGED <<tickets, issued, closing, dropped>>
  BY DEF EventsInv, BeginEventConnection
<1>2. CASE HasCapacity
  <2>1. count' = count + 1 /\ To(s, "counted")
    BY <1>2 DEF BeginEventConnection
  <2>2. /\ streams' \in [Stream -> [stage: StreamStage,
                                    ticket: Ticket \union {NoTicket}]]
        /\ streams'[s].stage = "counted"
        /\ \A x \in Stream : streams'[x].ticket = streams[x].ticket
        /\ \A x \in Stream \ {s} : streams'[x] = streams[x]
    BY <1>1, <2>1, StreamTo DEF StreamStage
  <2>3. Placed' = Placed \union {s} /\ s \notin Placed
    BY <1>1, <2>2 DEF Placed, Counted
  <2>4. Cardinality(Placed') = Cardinality(Placed) + 1
    BY <2>3, StreamsFinite, FS_AddElement
  <2>5. count + 1 \in 0 .. MaxEventConnections
    BY <1>1, <1>2, MaxEventConnectionsAssumption DEF HasCapacity, AdminTypeOK
  <2>6. TicketsOnce'
    BY <1>1, <2>2 DEF EventsInv, TicketsOnce, Holding
  <2>7. AdminTypeOK'
    BY <1>1, <2>1, <2>2, <2>5 DEF AdminTypeOK
  <2> QED BY <1>1, <2>1, <2>4, <2>6, <2>7 DEF EventsInv
<1>3. CASE ~ HasCapacity
  <2>1. UNCHANGED count /\ To(s, "gone")
    BY <1>3 DEF BeginEventConnection
  <2> QED BY <1>1, <2>1, StreamTo, PlacesKept
          DEF EventsInv, AdminTypeOK, TicketsOnce, StreamStage, Holding, Counted
<1> QED BY <1>2, <1>3

\* A place is given back once, by the handler that took it.
LEMMA FinishKeeps ==
    ASSUME EventsInv, NEW s \in Stream, Finish(s)
    PROVE  EventsInv'
<1>1. AdminTypeOK /\ streams[s].stage = "ending" /\ To(s, "gone")
      /\ count' = count - 1
      /\ UNCHANGED <<tickets, issued, closing, dropped>>
  BY DEF EventsInv, Finish
<1>2. /\ streams' \in [Stream -> [stage: StreamStage,
                                  ticket: Ticket \union {NoTicket}]]
      /\ streams'[s].stage = "gone"
      /\ \A x \in Stream : streams'[x].ticket = streams[x].ticket
      /\ \A x \in Stream \ {s} : streams'[x] = streams[x]
  BY <1>1, StreamTo DEF StreamStage
<1>3. Placed' = Placed \ {s} /\ s \in Placed
  BY <1>1, <1>2 DEF Placed, Counted
<1>4. /\ Cardinality(Placed') = Cardinality(Placed) - 1
      /\ Cardinality(Placed') \in Nat
  <2>1. IsFiniteSet(Placed \ {s}) /\ Cardinality(Placed \ {s}) = Cardinality(Placed) - 1
    BY <1>3, StreamsFinite, FS_RemoveElement
  <2> QED BY <1>3, <2>1, FS_CardinalityType
<1>5. count = Cardinality(Placed)
  BY DEF EventsInv
<1>6. count - 1 \in 0 .. MaxEventConnections
  BY <1>1, <1>4, <1>5, MaxEventConnectionsAssumption DEF AdminTypeOK
<1>7. TicketsOnce'
  BY <1>1, <1>2 DEF EventsInv, TicketsOnce, Holding, Counted
<1>8. AdminTypeOK'
  BY <1>1, <1>2, <1>6 DEF AdminTypeOK
<1> QED BY <1>1, <1>4, <1>5, <1>7, <1>8 DEF EventsInv

\* Whatever a handler does keeps the account.
LEMMA StreamStepKeeps ==
    ASSUME EventsInv, NEW s \in Stream, StreamStep(s)
    PROVE  EventsInv'
<1>1. AdminTypeOK
  BY DEF EventsInv
<1>2. CASE AcceptWebSocket(s)
  <2>1. PICK next \in {"hijacked", "ending"} : To(s, next)
    BY <1>2 DEF AcceptWebSocket
  <2> QED BY <1>1, <1>2, <2>1, StreamTo, PlacesKept
          DEF AcceptWebSocket, EventsInv, AdminTypeOK, TicketsOnce, StreamStage,
              Holding, Counted
<1>3. CASE TrackEventConnection(s)
  BY <1>1, <1>3, StreamTo, PlacesKept
  DEF TrackEventConnection, EventsInv, AdminTypeOK, TicketsOnce, StreamStage,
      Holding, Counted
<1>4. CASE EndStream(s)
  BY <1>1, <1>4, StreamTo, PlacesKept
  DEF EndStream, EventsInv, AdminTypeOK, TicketsOnce, StreamStage, Holding,
      Counted
<1> QED BY <1>2, <1>3, <1>4, ConsumeKeeps, BeginKeeps, FinishKeeps DEF StreamStep

\* Whoever arrives presents some ticket that was issued, or none.
LEMMA ArriveKeeps ==
    ASSUME EventsInv, NEW s \in Stream, Arrive(s)
    PROVE  EventsInv'
<1>1. PICK t \in NoTicket .. issued :
         streams' = [streams EXCEPT ![s] = [stage |-> "arrived", ticket |-> t]]
  BY DEF Arrive
<1>2. t \in Ticket \union {NoTicket}
  BY <1>1, BoundsAssumption DEF EventsInv, AdminTypeOK, Ticket, NoTicket
<1>3. /\ streams' \in [Stream -> [stage: StreamStage,
                                  ticket: Ticket \union {NoTicket}]]
      /\ streams'[s].stage = "arrived" /\ streams'[s].ticket = t
      /\ \A x \in Stream \ {s} : streams'[x] = streams[x]
  BY <1>1, <1>2 DEF EventsInv, AdminTypeOK, StreamStage
<1>4. t \in 0 .. issued /\ streams[s].stage = "away"
  BY <1>1 DEF NoTicket, Arrive
<1> QED BY <1>3, <1>4, PlacesKept
        DEF Arrive, EventsInv, AdminTypeOK, TicketsOnce, Holding, Counted

\* A ticket that expires stays where it is.
LEMMA ExpireKeeps ==
    ASSUME EventsInv, NEW t, TicketExpires(t)
    PROVE  EventsInv'
<1>1. /\ DOMAIN tickets' = DOMAIN tickets
      /\ IsMap(tickets', Ticket, {"valid", "expired"})
      /\ UNCHANGED <<issued, streams, count, closing, dropped>>
  BY DEF TicketExpires, EventsInv, AdminTypeOK, IsMap
<1>2. Placed' = Placed
  BY <1>1 DEF Placed
<1> QED BY <1>1, <1>2 DEF EventsInv, AdminTypeOK, TicketsOnce

\* The end of the administration drops streams and gives back no place.
LEMMA ShutdownEventsKeeps ==
    ASSUME EventsInv, ShutdownEvents
    PROVE  EventsInv'
<1>1. closing' \in BOOLEAN /\ dropped' \subseteq Stream
      /\ UNCHANGED <<tickets, issued, streams, count>>
  BY DEF ShutdownEvents
<1> QED BY <1>1, PlacesKept DEF EventsInv, AdminTypeOK, TicketsOnce

\* A step of somebody else.
LEMMA EventsStood ==
    ASSUME EventsInv, UNCHANGED eventVars
    PROVE  EventsInv'
BY PlacesKept DEF eventVars, EventsInv, AdminTypeOK, TicketsOnce

-----------------------------------------------------------------------------
(* What each step of Shutdown leaves behind for good.                      *)

Gone(step) ==
    CASE step \in Http ->
            step \notin listening /\ (~ late => ~ Busy(step))
      [] step = "events" ->
            /\ closing
            /\ ~ late => \A s \in Stream : streams[s].stage \notin Counted
      [] step \in {"control", "relay"} -> step \notin listening
      [] step = "wait" ->
            "control" \notin listening /\ (~ late => ControlEnded)
      [] OTHER -> TRUE

\* What Shutdown went through is gone.
PassedAreGone ==
    main.in = "Shutdown" =>
        \A j \in 1 .. main.at - 1 : Gone(ShutdownOrder[j])

\* Before the HTTP servers serve nobody uses them, and the deadline of
\* Shutdown is not set before Shutdown is called.
NotYetServing ==
    /\ main.in \in {"Start", "failed"} =>
          requests = {} /\ \A s \in Stream : streams[s].stage = "away"
    /\ main.in \in {"Start", "failed", "waiting"} => ~ late

\* How Start and Shutdown end.
EndsClean ==
    /\ main.in \in {"failed", "Shutdown"} => cancelled
    /\ main.in = "failed" => listening = {}
    /\ ~ storeOpen => main.in = "exited"
    /\ main.in = "exited" =>
          /\ listening = {}
          /\ cancelled
          /\ ~ late => /\ ControlEnded
                       /\ requests = {}
                       /\ \A s \in Stream : streams[s].stage \in {"away", "gone"}

LifeInv ==
    /\ TypeOK
    /\ EventsInv
    /\ PassedAreGone
    /\ NotYetServing
    /\ EndsClean

\* The steps of Start and Shutdown, in their order.
LEMMA Orders ==
    /\ Len(StartOrder) = 8
    /\ StartOrder[1] = "certificates" /\ StartOrder[2] = "relay"
    /\ StartOrder[3] = "control" /\ StartOrder[4] = "health"
    /\ StartOrder[5] = "publicWeb" /\ StartOrder[6] = "publicWebRedirect"
    /\ StartOrder[7] = "admin" /\ StartOrder[8] = "serve"
    /\ Len(ShutdownOrder) = 10
    /\ ShutdownOrder[1] = "publicWebRedirect" /\ ShutdownOrder[2] = "publicWeb"
    /\ ShutdownOrder[3] = "events" /\ ShutdownOrder[4] = "admin"
    /\ ShutdownOrder[5] = "hub" /\ ShutdownOrder[6] = "health"
    /\ ShutdownOrder[7] = "control" /\ ShutdownOrder[8] = "relay"
    /\ ShutdownOrder[9] = "wait" /\ ShutdownOrder[10] = "store"
BY DEF StartOrder, ShutdownOrder

\* Where main may be,
LEMMA Places ==
    ASSUME main \in Place
    PROVE  /\ main.in \in {"Start", "failed", "waiting", "exited", "Shutdown"}
           /\ main.in = "Start" => main \in [in: {"Start"}, at: 1 .. 8]
           /\ main.in = "Shutdown" => main \in [in: {"Shutdown"}, at: 1 .. 10]
BY Orders DEF Place

\* The places main goes to.
LEMMA NextPlaces ==
    /\ \A in \in {"failed", "waiting", "exited"} : [in |-> in, at |-> 0] \in Place
    /\ \A at \in 1 .. 8 : [in |-> "Start", at |-> at] \in Place
    /\ \A at \in 1 .. 10 : [in |-> "Shutdown", at |-> at] \in Place
BY Orders DEF Place

\* A step of Shutdown leads to the next one.
LEMMA Proceeding ==
    ASSUME main \in Place, main.in = "Shutdown", main.at # 10, Proceeds
    PROVE  /\ main' \in Place
           /\ main'.in = "Shutdown"
           /\ main'.at = main.at + 1
           /\ main.at \in 1 .. 9
<1>1. main \in [in: {"Shutdown"}, at: 1 .. 10] /\ main.at \in 1 .. 9
  BY Places
<1>2. main' = [in |-> "Shutdown", at |-> main.at + 1]
  BY <1>1 DEF Proceeds
<1> QED BY <1>1, <1>2, NextPlaces

\* The step of Shutdown at which main is decides how far it is.
LEMMA ShutdownPlaces ==
    ASSUME main \in Place, NEW step, ShutdownAt(step)
    PROVE  /\ main.in = "Shutdown"
           /\ main.at \in 1 .. 10
           /\ ShutdownOrder[main.at] = step
           /\ step = "store" <=> main.at = 10
<1>1. main \in [in: {"Shutdown"}, at: 1 .. 10]
  BY Places DEF ShutdownAt
<1>2. main.at \in {1, 2, 3, 4, 5, 6, 7, 8, 9, 10}
  BY <1>1
<1> QED BY <1>1, <1>2, Orders DEF ShutdownAt

-----------------------------------------------------------------------------
(* Types.                                                                  *)

\* Every step of the server keeps what the administration counts.
LEMMA EventsStep ==
    ASSUME EventsInv, Next
    PROVE  EventsInv'
<1>1. CASE UNCHANGED eventVars
  BY <1>1, EventsStood
<1>2. CASE CloseEvents
  BY <1>2, ShutdownEventsKeeps DEF CloseEvents
<1>3. CASE \E s \in Stream : ArriveStream(s)
  BY <1>3, ArriveKeeps DEF ArriveStream
<1>4. CASE IssueTicket
  BY <1>4, IssueKeeps DEF IssueTicket
<1>5. CASE AdminStep
  BY <1>5, ExpireKeeps, StreamStepKeeps DEF AdminStep
<1>6. \/ UNCHANGED eventVars \/ CloseEvents \/ IssueTicket \/ AdminStep
      \/ \E s \in Stream : ArriveStream(s)
  <2>1. Starts => UNCHANGED eventVars
    BY DEF Starts, StartStep, StartFails, StartCleanedUp
  <2>2. Shutdown => UNCHANGED eventVars \/ CloseEvents
    BY DEF Shutdown, CallShutdown, CloseHttpListener, HttpEnded, EventsWaited,
           CloseHub, CloseControl, CloseRelay, ControlWaited, CloseStore
  <2>3. DeadlinePasses \/ Signal \/ AcceptLoopEnds => UNCHANGED eventVars
    BY DEF DeadlinePasses, Signal, AcceptLoopEnds
  <2>4. \A c \in Conn :
           AcceptControl(c) \/ AuthenticateControl(c) \/ EndControl(c)
              => UNCHANGED eventVars
    BY DEF AcceptControl, AuthenticateControl, EndControl
  <2>5. \A part :
           ListenerFails(part) \/ BeginRequest(part) \/ EndRequest(part)
              => UNCHANGED eventVars
    BY DEF ListenerFails, BeginRequest, EndRequest
  <2>6. Exited => UNCHANGED eventVars
    BY DEF Exited, vars
  <2> QED BY <2>1, <2>2, <2>3, <2>4, <2>5, <2>6 DEF Next
<1> QED BY <1>1, <1>2, <1>3, <1>4, <1>5, <1>6

\* Types: the steps of Start,
LEMMA StartTypes ==
    ASSUME TypeOK, Starts, AdminTypeOK'
    PROVE  TypeOK'
<1>1. main \in Place /\ listening \subseteq Part
  BY DEF TypeOK
<1>2. CASE StartStep
  <2>1. main \in [in: {"Start"}, at: 1 .. 8]
    BY <1>1, <1>2, Places DEF StartStep
  <2>2. main.at \in {1, 2, 3, 4, 5, 6, 7, 8}
    BY <2>1
  <2>3. main' \in Place
    <3>1. CASE main.at = 8
      BY <1>2, <3>1, Orders, NextPlaces DEF StartStep
    <3>2. CASE main.at # 8
      <4>1. StartOrder[main.at] # "serve" /\ main.at + 1 \in 1 .. 8
        BY <2>2, <3>2, Orders
      <4>2. main' = [in |-> "Start", at |-> main.at + 1]
        BY <1>2, <2>1, <4>1 DEF StartStep
      <4> QED BY <4>1, <4>2, NextPlaces
    <3> QED BY <3>1, <3>2
  <2>4. listening' \subseteq Part
    BY <1>1, <1>2, ConfiguredAssumption DEF StartStep, Part, Http
  <2> QED BY <1>2, <2>3, <2>4 DEF TypeOK, StartStep
<1>3. CASE StartFails
  BY <1>3, NextPlaces DEF TypeOK, StartFails, ControlClosed, ConnStage
<1>4. CASE StartCleanedUp
  BY <1>4, NextPlaces DEF TypeOK, StartCleanedUp
<1> QED BY <1>2, <1>3, <1>4 DEF Starts

\* those of Shutdown,
LEMMA ShutdownTypes ==
    ASSUME TypeOK, Shutdown, AdminTypeOK'
    PROVE  TypeOK'
<1>1. main \in Place
  BY DEF TypeOK
<1>2. CASE CallShutdown
  BY <1>2, NextPlaces DEF TypeOK, CallShutdown
<1>3. CASE CloseHttpListener
  BY <1>3 DEF TypeOK, CloseHttpListener
<1>4. CASE HttpEnded
  <2>1. main.at # 10
    BY <1>4, Orders DEF HttpEnded, Http
  <2> QED BY <1>1, <1>4, <2>1, Proceeding DEF TypeOK, HttpEnded
<1>5. CASE CloseEvents
  BY <1>5 DEF TypeOK, CloseEvents, lifeVars
<1>6. CASE EventsWaited
  BY <1>1, <1>6, ShutdownPlaces, Proceeding DEF TypeOK, EventsWaited
<1>7. CASE CloseHub
  BY <1>1, <1>7, ShutdownPlaces, Proceeding DEF TypeOK, CloseHub, ConnStage
<1>8. CASE CloseControl
  BY <1>1, <1>8, ShutdownPlaces, Proceeding
  DEF TypeOK, CloseControl, ControlClosed, ConnStage
<1>9. CASE CloseRelay
  BY <1>1, <1>9, ShutdownPlaces, Proceeding DEF TypeOK, CloseRelay
<1>10. CASE ControlWaited
  BY <1>1, <1>10, ShutdownPlaces, Proceeding DEF TypeOK, ControlWaited
<1>11. CASE CloseStore
  BY <1>11, NextPlaces DEF TypeOK, CloseStore
<1> QED BY <1>2, <1>3, <1>4, <1>5, <1>6, <1>7, <1>8, <1>9, <1>10, <1>11
        DEF Shutdown

\* and those of everybody else.
LEMMA RunningTypes ==
    ASSUME TypeOK, Next, ~ Starts, ~ Shutdown, AdminTypeOK'
    PROVE  TypeOK'
<1>1. CASE DeadlinePasses
  BY <1>1 DEF TypeOK, DeadlinePasses
<1>2. CASE Signal
  BY <1>2 DEF TypeOK, Signal
<1>3. ASSUME NEW c \in Conn,
             AcceptControl(c) \/ AuthenticateControl(c) \/ EndControl(c)
      PROVE  TypeOK'
  BY <1>3
  DEF TypeOK, AcceptControl, AuthenticateControl, EndControl, ConnStage
<1>4. CASE AcceptLoopEnds
  BY <1>4 DEF TypeOK, AcceptLoopEnds
<1>5. ASSUME NEW part \in Part, ListenerFails(part) PROVE TypeOK'
  BY <1>5 DEF TypeOK, ListenerFails, Reported
<1>6. ASSUME NEW part \in Http, BeginRequest(part) \/ EndRequest(part)
      PROVE  TypeOK'
  BY <1>6 DEF TypeOK, BeginRequest, EndRequest
<1>7. CASE UNCHANGED lifeVars
  BY <1>7 DEF TypeOK, lifeVars
<1>8. (\E s \in Stream : ArriveStream(s)) \/ IssueTicket \/ AdminStep \/ Exited
         => UNCHANGED lifeVars
  BY DEF ArriveStream, IssueTicket, AdminStep, Exited, vars
<1> QED BY <1>1, <1>2, <1>3, <1>4, <1>5, <1>6, <1>7, <1>8 DEF Next

-----------------------------------------------------------------------------
(* What is gone stays gone.                                                *)

\* Nothing is opened, and nothing begins that is not let in.
Wanes ==
    /\ listening' \subseteq listening
    /\ late => late'
    /\ closing => closing'
    /\ \A part \in requests' : part \in requests \/ Serving(part)
    /\ \A s \in Stream :
          streams'[s].stage \in Owned =>
              streams[s].stage \in Owned \/ Serving("admin")
    /\ \A s \in Stream :
          closing /\ streams'[s].stage \in Counted => streams[s].stage \in Counted
    /\ "control" \notin listening /\ ControlEnded => ControlEnded'

\* What a step of Shutdown waited for stays gone while everything only wanes.
LEMMA GoneStays ==
    ASSUME Wanes, NEW step, Gone(step)
    PROVE  Gone(step)'
<1>1. CASE step \in Http
  <2>1. step \notin listening /\ (~ late => ~ Busy(step))
    BY <1>1 DEF Gone, Http
  <2>2. step \notin listening' /\ ~ Serving(step)
    BY <2>1 DEF Wanes, Serving
  <2>3. ~ late' => ~ Busy(step)'
    BY <2>1, <2>2 DEF Wanes, Busy
  <2> QED BY <1>1, <2>2, <2>3 DEF Gone, Http
<1>2. CASE step = "events"
  BY <1>2 DEF Gone, Wanes, Http
<1>3. CASE step \in {"control", "relay"}
  BY <1>3 DEF Gone, Wanes, Http
<1>4. CASE step = "wait"
  <2>1. "control" \notin listening /\ (~ late => ControlEnded)
    BY <1>4 DEF Gone, Http
  <2>2. "control" \notin listening' /\ (~ late' => ControlEnded')
    BY <2>1 DEF Wanes
  <2> QED BY <1>4, <2>2 DEF Gone, Http
<1>5. CASE step \notin Http \union {"events", "control", "relay", "wait"}
  BY <1>5 DEF Gone
<1> QED BY <1>1, <1>2, <1>3, <1>4, <1>5

\* The steps that do not touch the event connections.
LEMMA StreamsStand ==
    ASSUME UNCHANGED eventVars
    PROVE  /\ closing' = closing
           /\ streams' = streams
BY DEF eventVars

\* A step of Shutdown starts nothing.
LEMMA ShutdownWanes ==
    ASSUME TypeOK, Shutdown
    PROVE  Wanes
<1>1. conns \in [Conn -> ConnStage]
  BY DEF TypeOK
<1>2. CASE CallShutdown
  BY <1>2, StreamsStand DEF CallShutdown, Wanes, ControlEnded
<1>3. CASE CloseHttpListener
  BY <1>3, StreamsStand DEF CloseHttpListener, Wanes, ControlEnded
<1>4. CASE HttpEnded
  BY <1>4, StreamsStand DEF HttpEnded, Wanes, ControlEnded
<1>5. CASE CloseEvents
  BY <1>5 DEF CloseEvents, ShutdownEvents, lifeVars, Wanes, ControlEnded
<1>6. CASE EventsWaited
  BY <1>6, StreamsStand DEF EventsWaited, Wanes, ControlEnded
<1>7. CASE CloseHub
  BY <1>1, <1>7, StreamsStand DEF CloseHub, Wanes, ControlEnded
<1>8. CASE CloseControl
  BY <1>1, <1>8, StreamsStand DEF CloseControl, ControlClosed, Wanes, ControlEnded
<1>9. CASE CloseRelay
  BY <1>9, StreamsStand DEF CloseRelay, Wanes, ControlEnded
<1>10. CASE ControlWaited
  BY <1>10, StreamsStand DEF ControlWaited, Wanes, ControlEnded
<1>11. CASE CloseStore
  BY <1>11, StreamsStand DEF CloseStore, Wanes, ControlEnded
<1> QED BY <1>2, <1>3, <1>4, <1>5, <1>6, <1>7, <1>8, <1>9, <1>10, <1>11
        DEF Shutdown

\* A handler of the administration goes on with what was let in.
LEMMA StreamWanes ==
    ASSUME AdminTypeOK, NEW s \in Stream, StreamStep(s), UNCHANGED lifeVars
    PROVE  Wanes /\ \A x \in Stream : streams[x].stage = "away"
                                         => streams'[x].stage = "away"
<1>1. \A stage \in StreamStage : To(s, stage) =>
         /\ streams'[s].stage = stage
         /\ \A x \in Stream \ {s} : streams'[x] = streams[x]
  BY StreamTo
<1>2. /\ streams[s].stage \in {"arrived", "admitted", "counted", "hijacked",
                               "streaming", "ending"}
      /\ \A x \in Stream \ {s} : streams'[x] = streams[x]
      /\ streams'[s].stage \in Owned => streams[s].stage \in Owned
      /\ closing /\ streams'[s].stage \in Counted => streams[s].stage \in Counted
      /\ closing' = closing
  <2>1. CASE ConsumeEventTicket(s)
    BY <1>1, <2>1 DEF ConsumeEventTicket, StreamStage, Owned, Counted
  <2>2. CASE BeginEventConnection(s)
    BY <1>1, <2>2
    DEF BeginEventConnection, HasCapacity, StreamStage, Owned, Counted
  <2>3. CASE AcceptWebSocket(s)
    BY <1>1, <2>3 DEF AcceptWebSocket, StreamStage, Owned, Counted
  <2>4. CASE TrackEventConnection(s)
    BY <1>1, <2>4 DEF TrackEventConnection, StreamStage, Owned, Counted
  <2>5. CASE EndStream(s)
    BY <1>1, <2>5 DEF EndStream, StreamStage, Owned, Counted
  <2>6. CASE Finish(s)
    BY <1>1, <2>6 DEF Finish, StreamStage, Owned, Counted
  <2> QED BY <2>1, <2>2, <2>3, <2>4, <2>5, <2>6 DEF StreamStep
<1> QED BY <1>2 DEF Wanes, lifeVars, ControlEnded

\* Whatever runs beside main lets nothing begin that is not let in.
LEMMA RunningWanes ==
    ASSUME TypeOK, Next, ~ Starts, ~ Shutdown
    PROVE  /\ Wanes
           /\ main' = main
           /\ (late' = late \/ main.in = "Shutdown")
           /\ storeOpen' = storeOpen
           /\ cancelled => cancelled'
           /\ main.in \in {"Start", "failed"}
                 /\ (\A s \in Stream : streams[s].stage = "away")
                 => \A s \in Stream : streams'[s].stage = "away"
<1>1. CASE DeadlinePasses
  BY <1>1, StreamsStand DEF DeadlinePasses, Wanes, ControlEnded
<1>2. CASE Signal
  BY <1>2, StreamsStand DEF Signal, Wanes, ControlEnded
<1>3. ASSUME NEW c \in Conn, AcceptControl(c) \/ AuthenticateControl(c) \/ EndControl(c)
      PROVE  /\ Wanes
             /\ UNCHANGED <<main, late, storeOpen, cancelled, streams>>
  <2>1. conns \in [Conn -> ConnStage]
    BY DEF TypeOK
  <2>2. CASE AcceptControl(c)
    BY <2>1, <2>2, StreamsStand DEF AcceptControl, Wanes, ControlEnded
  <2>3. CASE AuthenticateControl(c)
    BY <2>1, <2>3, StreamsStand DEF AuthenticateControl, Wanes, ControlEnded
  <2>4. CASE EndControl(c)
    BY <2>1, <2>4, StreamsStand DEF EndControl, Wanes, ControlEnded
  <2> QED BY <1>3, <2>2, <2>3, <2>4
<1>4. CASE AcceptLoopEnds
  BY <1>4, StreamsStand DEF AcceptLoopEnds, Wanes, ControlEnded
<1>5. ASSUME NEW part \in Part, ListenerFails(part)
      PROVE  /\ Wanes
             /\ UNCHANGED <<main, late, storeOpen, streams>>
             /\ cancelled'
  <2>1. /\ listening' \subseteq listening
        /\ UNCHANGED <<main, conns, requests, late, storeOpen, eventVars>>
        /\ cancelled'
    BY <1>5 DEF ListenerFails
  <2>2. ControlEnded => ControlEnded'
    BY <1>5 DEF ListenerFails, ControlEnded
  <2> QED BY <2>1, <2>2, StreamsStand DEF Wanes
<1>6. ASSUME NEW part \in Http, BeginRequest(part) \/ EndRequest(part)
      PROVE  /\ Wanes
             /\ UNCHANGED <<main, late, storeOpen, cancelled, streams>>
  BY <1>6, StreamsStand DEF BeginRequest, EndRequest, Wanes, ControlEnded
<1>7. ASSUME NEW s \in Stream, ArriveStream(s)
      PROVE  /\ Wanes
             /\ UNCHANGED lifeVars
             /\ main.in \notin {"Start", "failed"}
  <2>1. /\ Serving("admin")
        /\ UNCHANGED lifeVars
        /\ \A x \in Stream \ {s} : streams'[x] = streams[x]
        /\ streams'[s].stage = "arrived"
        /\ closing' = closing
    BY <1>7 DEF ArriveStream, Arrive, TypeOK, AdminTypeOK
  <2> QED BY <2>1 DEF Wanes, Serving, lifeVars, ControlEnded, Counted
<1>8. CASE IssueTicket
  BY <1>8 DEF IssueTicket, IssueEventTicket, lifeVars, Wanes, ControlEnded
<1>9. CASE AdminStep
  <2>1. ASSUME NEW t \in Ticket, TicketExpires(t), UNCHANGED lifeVars
        PROVE  Wanes /\ streams' = streams
    BY <2>1 DEF TicketExpires, lifeVars, Wanes, ControlEnded
  <2>2. AdminTypeOK
    BY DEF TypeOK
  <2> QED BY <1>9, <2>1, <2>2, StreamWanes DEF AdminStep, lifeVars
<1>10. CASE Exited
  BY <1>10 DEF Exited, vars, lifeVars, eventVars, Wanes, ControlEnded
<1> QED BY <1>1, <1>2, <1>3, <1>4, <1>5, <1>6, <1>7, <1>8, <1>9, <1>10
        DEF Next, lifeVars

-----------------------------------------------------------------------------
(* The steps.                                                              *)

\* Nothing is open at first.
LEMMA InitLife == Init => LifeInv
<1> SUFFICES ASSUME Init PROVE LifeInv
  OBVIOUS
<1>1. EventsInv
  BY EventsInit DEF Init
<1>2. TypeOK
  <2>1. main \in Place
    BY NextPlaces DEF Init
  <2> QED BY <1>1, <2>1 DEF Init, TypeOK, EventsInv, ConnStage
<1>3. PassedAreGone /\ NotYetServing /\ EndsClean
  BY DEF Init, PassedAreGone, NotYetServing, EndsClean, AdminInit
<1> QED BY <1>1, <1>2, <1>3 DEF LifeInv

\* Start opens in its order, and takes back what it opened when a step fails.
LEMMA StartKeeps ==
    ASSUME LifeInv, TypeOK', EventsInv', Starts
    PROVE  LifeInv'
<1>1. /\ TypeOK /\ PassedAreGone /\ NotYetServing /\ EndsClean
      /\ conns \in [Conn -> ConnStage]
      /\ streams' = streams
  BY StreamsStand
  DEF LifeInv, TypeOK, Starts, StartStep, StartFails, StartCleanedUp
<1>2. CASE StartStep
  <2>1. /\ main.in = "Start" /\ main'.in \in {"Start", "waiting"}
        /\ UNCHANGED <<requests, late, storeOpen, cancelled>>
    <3>1. main \in [in: {"Start"}, at: 1 .. 8]
      BY <1>1, <1>2, Places DEF TypeOK, StartStep
    <3> QED BY <1>2, <3>1 DEF StartStep
  <2>2. PassedAreGone' /\ NotYetServing' /\ EndsClean'
    BY <1>1, <2>1 DEF PassedAreGone, NotYetServing, EndsClean
  <2> QED BY <2>2 DEF LifeInv
<1>3. CASE StartFails
  <2>1. /\ main.in = "Start" /\ main'.in = "failed"
        /\ UNCHANGED <<requests, late, storeOpen>>
        /\ listening' = {} /\ cancelled'
    BY <1>3 DEF StartFails
  <2>2. PassedAreGone' /\ NotYetServing' /\ EndsClean'
    BY <1>1, <2>1 DEF PassedAreGone, NotYetServing, EndsClean
  <2> QED BY <2>2 DEF LifeInv
<1>4. CASE StartCleanedUp
  <2>1. /\ main.in = "failed" /\ main'.in = "exited"
        /\ UNCHANGED <<requests, late, cancelled, listening, accepting, conns>>
        /\ ControlEnded
    BY <1>4 DEF StartCleanedUp
  <2>2. PassedAreGone' /\ NotYetServing' /\ EndsClean'
    BY <1>1, <2>1
    DEF PassedAreGone, NotYetServing, EndsClean, ControlEnded
  <2> QED BY <2>2 DEF LifeInv
<1> QED BY <1>2, <1>3, <1>4 DEF Starts

\* main stays where it is in Shutdown, or goes on by one step that is gone.
LEMMA ShutdownGoesOn ==
    ASSUME LifeInv, TypeOK', EventsInv', Wanes,
           main.in = "Shutdown",
           UNCHANGED <<cancelled, storeOpen>>,
           \/ main' = main
           \/ /\ main.at # 10 /\ Proceeds
              /\ \E step : step = ShutdownOrder[main.at] /\ Gone(step)'
    PROVE  LifeInv'
<1>1. main \in Place /\ PassedAreGone /\ EndsClean
  BY DEF LifeInv, TypeOK
<1>2. \A j \in 1 .. main.at - 1 : \A step : step = ShutdownOrder[j] => Gone(step)'
  BY <1>1, GoneStays DEF PassedAreGone
<1>3. main'.in = "Shutdown" /\ PassedAreGone'
  <2>1. CASE main' = main
    <3>1. \A j \in 1 .. main'.at - 1 : \A step : step = ShutdownOrder[j] => Gone(step)'
      BY <1>2, <2>1
    <3> QED BY <2>1, <3>1 DEF PassedAreGone
  <2>2. CASE /\ main.at # 10 /\ Proceeds
             /\ \E step : step = ShutdownOrder[main.at] /\ Gone(step)'
    <3>1. /\ main'.in = "Shutdown" /\ main'.at = main.at + 1
          /\ main.at \in 1 .. 9
      BY <1>1, <2>2, Proceeding
    <3>2. \A j \in 1 .. main'.at - 1 : j \in 1 .. main.at - 1 \/ j = main.at
      BY <3>1
    <3>3. \A j \in 1 .. main'.at - 1 : \A step : step = ShutdownOrder[j] => Gone(step)'
      BY <1>2, <2>2, <3>2
    <3> QED BY <3>1, <3>3 DEF PassedAreGone
  <2> QED BY <2>1, <2>2
<1>4. NotYetServing' /\ EndsClean'
  BY <1>1, <1>3 DEF NotYetServing, EndsClean
<1> QED BY <1>3, <1>4 DEF LifeInv

\* What is gone when the store is closed.
LEMMA AllGone ==
    ASSUME LifeInv, main.in = "Shutdown", main.at = 10
    PROVE  /\ listening = {}
           /\ ~ late => /\ ControlEnded
                        /\ requests = {}
                        /\ \A s \in Stream : streams[s].stage \in {"away", "gone"}
<1>1. \A step \in Http \union {"events", "control", "relay", "wait"} : Gone(step)
  BY Orders DEF LifeInv, PassedAreGone, Http
<1>2. \A step \in Http : step \notin listening /\ (~ late => ~ Busy(step))
  BY <1>1 DEF Gone, Http
<1>3. "control" \notin listening /\ "relay" \notin listening
  BY <1>1 DEF Gone, Http
<1>4. ~ late => ControlEnded /\ \A s \in Stream : streams[s].stage \notin Counted
  BY <1>1 DEF Gone, Http
<1>5. listening = {}
  BY <1>2, <1>3 DEF LifeInv, TypeOK, Part
<1>6. ~ late => requests = {} /\ \A s \in Stream : streams[s].stage \notin Owned
  BY <1>2 DEF LifeInv, TypeOK, Busy, Http
<1>7. \A s \in Stream : streams[s].stage \in StreamStage
  BY DEF LifeInv, TypeOK, AdminTypeOK
<1> QED BY <1>4, <1>5, <1>6, <1>7 DEF StreamStage, Owned, Counted

\* Shutdown closes in its order.
LEMMA ShutdownKeeps ==
    ASSUME LifeInv, TypeOK', EventsInv', Shutdown
    PROVE  LifeInv'
<1>1. TypeOK /\ main \in Place /\ Wanes
  BY ShutdownWanes DEF LifeInv, TypeOK
<1>2. CASE CallShutdown
  <2>1. main'.in = "Shutdown" /\ main'.at = 1 /\ cancelled'
        /\ main.in = "waiting" /\ storeOpen' = storeOpen
    BY <1>2 DEF CallShutdown
  <2>2. PassedAreGone' /\ NotYetServing' /\ EndsClean'
    BY <2>1 DEF LifeInv, PassedAreGone, NotYetServing, EndsClean
  <2> QED BY <2>2 DEF LifeInv
<1>3. CASE CloseHttpListener
  BY <1>1, <1>3, ShutdownGoesOn DEF CloseHttpListener
<1>4. CASE HttpEnded
  <2>1. PICK step \in Http : step = ShutdownOrder[main.at]
    BY <1>4 DEF HttpEnded
  <2>2. /\ step \notin listening
        /\ (~ late => ~ Busy(step))
        /\ main.in = "Shutdown" /\ Proceeds
        /\ UNCHANGED <<cancelled, storeOpen>>
    BY <1>4, <2>1 DEF HttpEnded
  <2>3. Gone(step)'
    BY <1>1, <2>2, GoneStays DEF Gone, Http
  <2>4. main.at # 10
    BY <2>1, Orders DEF Http
  <2> QED BY <1>1, <2>1, <2>2, <2>3, <2>4, ShutdownGoesOn
<1>5. CASE CloseEvents
  BY <1>1, <1>5, ShutdownGoesOn DEF CloseEvents, ShutdownAt, lifeVars
<1>6. CASE EventsWaited
  <2>1. ~ late => \A s \in Stream : streams[s].stage \notin Counted
    <3>1. count = 0 => Placed = {}
      BY FS_EmptySet, StreamsFinite DEF LifeInv, EventsInv
    <3> QED BY <1>6, <3>1 DEF EventsWaited, EventsEnded, Placed
  <2>2. Gone("events")'
    BY <1>1, <1>6, <2>1, GoneStays DEF EventsWaited, Gone, Http
  <2> QED BY <1>1, <1>6, <2>2, ShutdownPlaces, ShutdownGoesOn DEF EventsWaited
<1>7. CASE CloseHub
  <2>1. Gone("hub")'
    BY DEF Gone, Http
  <2> QED BY <1>1, <1>7, <2>1, ShutdownPlaces, ShutdownGoesOn DEF CloseHub
<1>8. CASE CloseControl
  <2>1. Gone("control")'
    BY <1>8 DEF CloseControl, Gone, Http
  <2> QED BY <1>1, <1>8, <2>1, ShutdownPlaces, ShutdownGoesOn DEF CloseControl
<1>9. CASE CloseRelay
  <2>1. Gone("relay")'
    BY <1>9 DEF CloseRelay, Gone, Http
  <2> QED BY <1>1, <1>9, <2>1, ShutdownPlaces, ShutdownGoesOn DEF CloseRelay
<1>10. CASE ControlWaited
  <2>1. main.in = "Shutdown" /\ main.at = 9
    BY <1>1, <1>10, Places, Orders DEF ControlWaited, ShutdownAt
  <2>2. Gone("control")
    BY <2>1, Orders DEF LifeInv, PassedAreGone
  <2>3. Gone("wait")
    BY <1>10, <2>2 DEF ControlWaited, Gone, Http
  <2>4. Gone("wait")'
    BY <1>1, <2>3, GoneStays
  <2> QED BY <1>1, <1>10, <2>4, ShutdownPlaces, ShutdownGoesOn DEF ControlWaited
<1>11. CASE CloseStore
  <2>1. main.in = "Shutdown" /\ main.at = 10
    BY <1>1, <1>11, ShutdownPlaces DEF CloseStore
  <2>2. main'.in = "exited"
        /\ UNCHANGED <<listening, accepting, conns, requests, cancelled, late>>
        /\ streams' = streams
    BY <1>11, StreamsStand DEF CloseStore
  <2>3. cancelled
    BY <2>1 DEF LifeInv, EndsClean
  <2>4. PassedAreGone' /\ NotYetServing' /\ EndsClean'
    BY <2>1, <2>2, <2>3, AllGone
    DEF PassedAreGone, NotYetServing, EndsClean, ControlEnded
  <2> QED BY <2>4 DEF LifeInv
<1> QED BY <1>2, <1>3, <1>4, <1>5, <1>6, <1>7, <1>8, <1>9, <1>10, <1>11
        DEF Shutdown

\* Every step keeps the invariant.
LEMMA NextLife == LifeInv /\ [Next]_vars => LifeInv'
<1> SUFFICES ASSUME LifeInv, [Next]_vars PROVE LifeInv'
  OBVIOUS
<1>1. TypeOK /\ EventsInv /\ PassedAreGone /\ NotYetServing /\ EndsClean
  BY DEF LifeInv
<1>2. CASE UNCHANGED vars
  <2>1. UNCHANGED <<lifeVars, eventVars>>
    BY <1>2 DEF vars
  <2>2. EventsInv' /\ TypeOK'
    BY <1>1, <2>1, EventsStood DEF EventsInv, TypeOK, lifeVars
  <2>3. Wanes
    BY <2>1 DEF Wanes, lifeVars, eventVars, ControlEnded
  <2>4. NotYetServing' /\ EndsClean'
    BY <1>1, <2>1
    DEF NotYetServing, EndsClean, lifeVars, eventVars, ControlEnded
  <2>5. main' = main
    BY <2>1 DEF lifeVars
  <2>6. PassedAreGone'
    <3>1. \A step : Gone(step) => Gone(step)'
      BY <2>3, GoneStays
    <3> QED BY <1>1, <2>5, <3>1 DEF PassedAreGone
  <2> QED BY <2>2, <2>4, <2>6 DEF LifeInv
<1>3. CASE Next
  <2>1. EventsInv' /\ AdminTypeOK'
    BY <1>1, <1>3, EventsStep DEF EventsInv
  <2>2. TypeOK'
    BY <1>1, <1>3, <2>1, StartTypes, ShutdownTypes, RunningTypes
  <2>3. CASE Starts
    BY <2>1, <2>2, <2>3, StartKeeps
  <2>4. CASE Shutdown
    BY <2>1, <2>2, <2>4, ShutdownKeeps
  <2>5. CASE ~ Starts /\ ~ Shutdown /\ main.in # "exited"
    <3>1. /\ Wanes
          /\ main' = main
          /\ (late' = late \/ main.in = "Shutdown")
          /\ storeOpen' = storeOpen
          /\ cancelled => cancelled'
          /\ main.in \in {"Start", "failed"}
                /\ (\A s \in Stream : streams[s].stage = "away")
                => \A s \in Stream : streams'[s].stage = "away"
      BY <1>1, <1>3, <2>5, RunningWanes
    <3>2. PassedAreGone'
      <4>1. \A step : Gone(step) => Gone(step)'
        BY <3>1, GoneStays
      <4> QED BY <1>1, <3>1, <4>1 DEF PassedAreGone
    <3>3. NotYetServing'
      BY <1>1, <3>1 DEF NotYetServing, Wanes, Serving
    <3>4. EndsClean'
      BY <1>1, <2>5, <3>1 DEF EndsClean, Wanes
    <3> QED BY <2>1, <2>2, <3>2, <3>3, <3>4 DEF LifeInv
  <2>6. CASE ~ Starts /\ ~ Shutdown /\ main.in = "exited"
    <3>1. UNCHANGED vars
      BY <1>3, <2>6 DEF Next, Exited
    <3> QED BY <1>2, <3>1
  <2> QED BY <2>3, <2>4, <2>5, <2>6
<1> QED BY <1>2, <1>3

\* The inductive invariant.
LEMMA LifeInvHolds == Spec => []LifeInv
BY InitLife, NextLife, PTL DEF Spec

-----------------------------------------------------------------------------
(* The theorems.                                                           *)

\* Every variable holds what its Go counterpart can hold; the counter of the
\* event connections never leaves its range.
THEOREM TypeCorrect == Spec => []TypeOK
<1>1. LifeInv => TypeOK
  BY DEF LifeInv
<1> QED BY <1>1, LifeInvHolds, PTL

\* A ticket opens one connection at most, and the counter that bounds the
\* connections is the number of handlers that took a place.
THEOREM StreamsAccounted == Spec => []StreamsAreAccounted
<1>1. LifeInv => StreamsAreAccounted
  BY EventsAccounted DEF LifeInv
<1> QED BY <1>1, LifeInvHolds, PTL

\* The database is closed after everything that uses it has ended, however
\* far Start came and unless the deadline of Shutdown passed.
THEOREM StoreCloses == Spec => []StoreClosesLast
<1>1. LifeInv => StoreClosesLast
  BY DEF LifeInv, EndsClean, StoreClosesLast
<1> QED BY <1>1, LifeInvHolds, PTL
=============================================================================
