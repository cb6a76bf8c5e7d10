-------------------------- MODULE SeatPresenceProofs --------------------------
(***************************************************************************)
(* Theorems on SeatPresence: the types with the exclusion of the session's *)
(* guard, that absence is always timed and that routes lead to the players *)
(* who hold the seats, for every number of seats, sockets and guests.      *)
(***************************************************************************)
EXTENDS SeatPresence, TLAPS

Phases == {"idle", "waiting", "holding", "attached"}
Ops == {"none", "join", "return", "depart"}
SockType == [phase : Phases, op : Ops, seat : Seats, player : Players \cup {Open}, age : Ages]
SweepType == [pc : {"idle", "reported", "candidate", "decided", "reaped", "delisted",
                    "lapsed", "acted", "captured", "consumed"},
              prepared : BOOLEAN, captured : [Seats -> Sockets \cup {NoSocket}]]

\* Every reading of the clock that is kept is an age.
LEMMA AgesFacts ==
    /\ 0 \in Ages /\ 0 \in Seats /\ None \notin Ages
    /\ \A age \in Ages : Older(age) \in Ages
BY PresenceConstants DEF Ages, LongAgo, Older, Seats, None

\* The parts of the type invariant, and what a step must leave of them.
Data ==
    /\ registered \in BOOLEAN /\ started \in BOOLEAN /\ terminal \in BOOLEAN
    /\ faults \in 0..MaxFaults
    /\ occupant \in [Seats -> Players \cup {Open, AI}]
    /\ connected \in [Seats -> BOOLEAN]
    /\ issued \in SUBSET Players
    /\ disconnected \in [Seats -> Ages \cup {None}]
    /\ route \in [Seats -> Sockets \cup {NoSocket}]
    /\ listing \in {"absent", "present", "away"}
    /\ sweep \in SweepType

\* The guard and its holder.
Guarded ==
    /\ lease \in Sockets \cup {Free}
    /\ sock \in [Sockets -> SockType]
    /\ \A s \in Sockets : sock[s].phase = "holding" <=> lease = s

\* The type invariant taken apart and put together again.
LEMMA TypeParts ==
    ASSUME RTypeOK PROVE Data /\ Guarded
BY DEF RTypeOK, SockType, SweepType, Phases, Ops, Data, Guarded

\* The same for the next state.
LEMMA TypeAssembled ==
    ASSUME Data', Guarded' PROVE RTypeOK'
BY DEF RTypeOK, SockType, SweepType, Phases, Ops, Data, Guarded

\* A socket that neither holds the guard nor takes it.
LEMMA SockSet ==
    ASSUME Guarded, NEW s \in Sockets, NEW r \in SockType,
           sock[s].phase # "holding", r.phase # "holding",
           sock' = [sock EXCEPT ![s] = r], lease' = lease
    PROVE  Guarded'
BY DEF Guarded

\* A socket that takes the free guard.
LEMMA SockTakes ==
    ASSUME Guarded, NEW s \in Sockets, NEW r \in SockType,
           lease = Free, r.phase = "holding",
           sock' = [sock EXCEPT ![s] = r], lease' = s
    PROVE  Guarded'
BY PresenceConstants DEF Guarded

\* The holder gives the guard back.
LEMMA SockReleases ==
    ASSUME Guarded, NEW s \in Sockets, NEW r \in SockType,
           sock[s].phase = "holding", r.phase # "holding",
           sock' = [sock EXCEPT ![s] = r], lease' = Free
    PROVE  Guarded'
BY PresenceConstants DEF Guarded

\* A step that leaves the sockets and the guard alone.
LEMMA SockKept ==
    ASSUME Guarded, UNCHANGED <<sock, lease>>
    PROVE  Guarded'
BY DEF Guarded

\* The socket records the handlers write.
LEMMA SockRecords ==
    ASSUME NEW op \in Ops, NEW x \in Seats, NEW p \in Players \cup {Open}
    PROVE  /\ Idle \in SockType /\ Idle.phase = "idle"
           /\ [phase |-> "waiting", op |-> op, seat |-> x, player |-> p, age |-> 0] \in SockType
           /\ [phase |-> "attached", op |-> op, seat |-> x, player |-> p, age |-> 0] \in SockType
BY AgesFacts DEF Idle, SockType, Phases, Ops, Players

\* Frames that arrive.
LEMMA ReceiveStep ==
    ASSUME RTypeOK, NEW s \in Sockets,
           \/ ReceiveJoin(s)
           \/ \E p \in Players : ReceiveReconnect(s, p)
           \/ Close(s)
    PROVE  RTypeOK'
<1> USE TypeParts, AgesFacts
<1>1. Data'
  BY DEF Data, ReceiveJoin, ReceiveReconnect, Close, session, database
<1>2. Guarded'
  <2>1. CASE ReceiveJoin(s)
    BY <2>1, SockRecords, SockSet DEF ReceiveJoin, Wait, Unused, Idle, Ops
  <2>2. ASSUME NEW p \in Players, ReceiveReconnect(s, p) PROVE Guarded'
    BY <2>2, SockRecords, SockSet DEF ReceiveReconnect, Wait, Unused, Idle, Ops
  <2>3. CASE Close(s)
    <3>1. sock[s] \in SockType /\ lease' = lease /\ sock[s].phase # "holding"
      BY <2>3 DEF Close, Guarded
    <3>2. CASE registered
      BY <2>3, <3>1, <3>2, SockRecords, SockSet DEF Close, Wait, Ops, SockType
    <3>3. CASE ~registered
      BY <2>3, <3>1, <3>3, SockRecords, SockSet DEF Close, Ops
    <3> QED BY <3>2, <3>3
  <2> QED BY <2>1, <2>2, <2>3
<1> QED BY <1>1, <1>2, TypeAssembled

\* Joins.
LEMMA JoinStep ==
    ASSUME RTypeOK, NEW s \in Sockets,
           \/ JoinRefused(s)
           \/ \E p \in Guests, x \in Seats, start \in BOOLEAN : JoinSeat(s, p, x, start)
    PROVE  RTypeOK'
<1> USE TypeParts, AgesFacts
<1>1. CASE JoinRefused(s)
  <2>1. Data'
    BY <1>1 DEF Data, JoinRefused, GiveUp, session, database
  <2>2. Guarded'
    BY <1>1, SockRecords, SockSet DEF JoinRefused, GiveUp, Granted, Ops
  <2> QED BY <2>1, <2>2, TypeAssembled
<1>2. ASSUME NEW p \in Guests, NEW x \in Seats, NEW start \in BOOLEAN, JoinSeat(s, p, x, start)
      PROVE  RTypeOK'
  <2>1. Data'
    BY <1>2 DEF Data, JoinSeat, Players, database
  <2>2. Guarded'
    BY <1>2, SockRecords, SockSet DEF JoinSeat, Granted, Ops, Players
  <2> QED BY <2>1, <2>2, TypeAssembled
<1> QED BY <1>1, <1>2

\* Returns.
LEMMA ReturnStep ==
    ASSUME RTypeOK, NEW s \in Sockets,
           \/ ReturnRefused(s)
           \/ \E x \in Seats : AdmitReturn(s, x)
           \/ PublishReturn(s)
    PROVE  RTypeOK'
<1> USE TypeParts, AgesFacts
<1>0. sock[s] \in SockType
  BY DEF Guarded
<1>1. CASE ReturnRefused(s)
  <2>1. disconnected' \in [Seats -> Ages \cup {None}]
    BY <1>1 DEF Data, ReturnRefused, attempt_reconnect
  <2>2. Data'
    BY <1>1, <2>1 DEF Data, ReturnRefused, session, database
  <2>3. Guarded'
    BY <1>1, SockRecords, SockSet DEF ReturnRefused, Granted, Ops
  <2> QED BY <2>2, <2>3, TypeAssembled
<1>2. ASSUME NEW x \in Seats, AdmitReturn(s, x) PROVE RTypeOK'
  <2>1. Data'
    BY <1>2 DEF Data, AdmitReturn, attempt_reconnect, database
  <2> DEFINE r == [sock[s] EXCEPT !.phase = "holding", !.seat = x, !.age = 0]
  <2>2. r \in SockType /\ r.phase = "holding"
    BY <1>0 DEF SockType, Phases
  <2>3. lease = Free /\ lease' = s /\ sock' = [sock EXCEPT ![s] = r]
    BY <1>2 DEF AdmitReturn, Granted, Guarded, SockType
  <2> HIDE DEF r
  <2>4. Guarded'
    BY <2>2, <2>3, SockTakes
  <2> QED BY <2>1, <2>4, TypeAssembled
<1>3. CASE PublishReturn(s)
  <2>1. Data'
    BY <1>0, <1>3 DEF Data, PublishReturn, HostReturned, session, database, SockType
  <2> DEFINE r == [sock[s] EXCEPT !.phase = "attached", !.op = "none"]
  <2>2. r \in SockType /\ r.phase # "holding"
    BY <1>0 DEF SockType, Phases, Ops
  <2>3. sock[s].phase = "holding" /\ lease' = Free /\ sock' = [sock EXCEPT ![s] = r]
    BY <1>3 DEF PublishReturn, Guarded, SockType
  <2> HIDE DEF r
  <2>4. Guarded'
    BY <2>2, <2>3, SockReleases
  <2> QED BY <2>1, <2>4, TypeAssembled
<1> QED BY <1>1, <1>2, <1>3

\* Departures.
LEMMA DepartureStep ==
    ASSUME RTypeOK, NEW s \in Sockets,
           StaleDeparture(s) \/ Unroute(s) \/ RecordDeparture(s)
    PROVE  RTypeOK'
<1> USE TypeParts, AgesFacts
<1>0. sock[s] \in SockType
  BY DEF Guarded
<1>1. CASE StaleDeparture(s)
  <2>1. Data'
    BY <1>1 DEF Data, StaleDeparture, GiveUp, session, database
  <2>2. Guarded'
    BY <1>1, SockRecords, SockSet DEF StaleDeparture, GiveUp, Granted, Ops
  <2> QED BY <2>1, <2>2, TypeAssembled
<1>2. CASE Unroute(s)
  <2>1. Data'
    BY <1>0, <1>2 DEF Data, Unroute, mark_disconnected_at, database, SockType
  <2> DEFINE r == [sock[s] EXCEPT !.phase = "holding"]
  <2>2. r \in SockType /\ r.phase = "holding"
    BY <1>0 DEF SockType, Phases
  <2>3. lease = Free /\ lease' = s /\ sock' = [sock EXCEPT ![s] = r]
    BY <1>2 DEF Unroute, Granted, Guarded, SockType
  <2> HIDE DEF r
  <2>4. Guarded'
    BY <2>2, <2>3, SockTakes
  <2> QED BY <2>1, <2>4, TypeAssembled
<1>3. CASE RecordDeparture(s)
  <2>1. Data'
    BY <1>0, <1>3 DEF Data, RecordDeparture, record_disconnect, session, database, SockType
  <2>2. Guarded'
    BY <1>3, SockRecords, SockReleases DEF RecordDeparture, Ops
  <2> QED BY <2>1, <2>2, TypeAssembled
<1> QED BY <1>1, <1>2, <1>3

\* The host's edits.
LEMMA EditStep ==
    ASSUME RTypeOK, NEW s \in Sockets,
           \/ \E x \in Seats, kind \in {Open, AI} : SetKind(s, x, kind)
           \/ Start(s)
    PROVE  RTypeOK'
<1> USE TypeParts
<1>1. ASSUME NEW x \in Seats, NEW kind \in {Open, AI}, SetKind(s, x, kind) PROVE Data'
  BY <1>1 DEF Data, SetKind, RouteAfterEdit, database
<1>2. ASSUME Start(s) PROVE Data'
  BY <1>2 DEF Data, Start, database
<1>3. Guarded'
  BY SockKept DEF SetKind, Start
<1> QED BY <1>1, <1>2, <1>3, TypeAssembled

\* The background task.
LEMMA SweepStep ==
    ASSUME RTypeOK, Sweep
    PROVE  RTypeOK'
<1> USE TypeParts
<1>1. Guarded'
  <2>1. UNCHANGED <<sock, lease>>
    BY DEF Sweep, GraceReport, PickCandidate, CommitTerminal, ReapDisconnects, DelistRemoved,
           PruneConnections, LobbyReport, HandleLapsed, CaptureRoutes, ConsumeEntry, PruneCaptured
  <2> QED BY <2>1, SockKept
<1>2. Resting \in SweepType /\ NoRoutes \in [Seats -> Sockets \cup {NoSocket}]
  BY DEF Resting, NoRoutes, SweepType
<1>3. \A pc \in {"reported", "candidate", "decided", "reaped", "delisted", "lapsed", "acted", "consumed"} :
         [sweep EXCEPT !.pc = pc] \in SweepType
  BY DEF Data, SweepType
<1>4. ASSUME GraceReport \/ PickCandidate PROVE Data'
  BY <1>3, <1>4 DEF Data, GraceReport, PickCandidate, Goto, session, database
<1>5. ASSUME NEW outcome \in {"refused", "unread", "read"}, CommitTerminal(outcome) PROVE Data'
  <2>1. sweep' \in SweepType
    BY <1>5 DEF Data, CommitTerminal, SweepType
  <2>2. faults' \in 0..MaxFaults
    BY <1>5, PresenceConstants DEF Data, CommitTerminal
  <2>3. terminal' \in BOOLEAN
    BY <1>5 DEF CommitTerminal
  <2> QED BY <1>5, <2>1, <2>2, <2>3 DEF Data, CommitTerminal, session
<1>6. ASSUME ReapDisconnects PROVE Data'
  <2>1. disconnected' \in [Seats -> Ages \cup {None}]
    BY <1>6 DEF Data, ReapDisconnects, RecordsAfterReap
  <2>2. registered' \in BOOLEAN
    BY <1>6 DEF ReapDisconnects
  <2>3. sweep' \in SweepType
    BY <1>2, <1>3, <1>6 DEF ReapDisconnects
  <2> QED BY <1>6, <2>1, <2>2, <2>3 DEF Data, ReapDisconnects, session, database
<1>7. ASSUME DelistRemoved \/ PruneConnections \/ LobbyReport \/ ConsumeEntry PROVE Data'
  BY <1>2, <1>3, <1>7 DEF Data, DelistRemoved, PruneConnections, LobbyReport, ConsumeEntry, Goto,
                          session, database
<1>8. ASSUME HandleLapsed PROVE Data'
  <2>1. disconnected' \in [Seats -> Ages \cup {None}]
    BY <1>8 DEF Data, HandleLapsed
  <2>2. registered' \in BOOLEAN
    BY <1>8 DEF HandleLapsed
  <2>3. sweep' \in SweepType
    BY <1>2, <1>3, <1>8 DEF HandleLapsed
  <2> QED BY <1>8, <2>1, <2>2, <2>3 DEF Data, HandleLapsed, session, database
<1>9. ASSUME CaptureRoutes PROVE Data'
  <2>1. sweep' \in SweepType
    BY <1>9 DEF Data, CaptureRoutes, SweepType
  <2> QED BY <1>9, <2>1 DEF Data, CaptureRoutes, session, database
<1>10. ASSUME PruneCaptured PROVE Data'
  <2>1. route' \in [Seats -> Sockets \cup {NoSocket}]
    BY <1>10 DEF Data, PruneCaptured
  <2> QED BY <1>2, <1>10, <2>1 DEF Data, PruneCaptured, session, database
<1>11. Data'
  BY <1>4, <1>5, <1>6, <1>7, <1>8, <1>9, <1>10 DEF Sweep
<1> QED BY <1>1, <1>11, TypeAssembled

\* The clock.
LEMMA TickStep ==
    ASSUME RTypeOK, Tick
    PROVE  RTypeOK'
<1> USE TypeParts, AgesFacts
<1>1. Data'
  BY DEF Data, Tick, session, database
<1>2. \A s \in Sockets : sock'[s] \in SockType /\ sock'[s].phase = sock[s].phase
  <2> TAKE s \in Sockets
  <2>1. sock[s] \in SockType
    BY DEF Guarded
  <2>2. [sock[s] EXCEPT !.age = Older(sock[s].age)] \in SockType
    BY <2>1 DEF SockType
  <2> QED BY <2>1, <2>2 DEF Tick, SockType
<1>3. Guarded'
  BY <1>2 DEF Guarded, Tick
<1> QED BY <1>1, <1>3, TypeAssembled

\* A new room is of the types.
LEMMA InitType ==
    ASSUME RInit PROVE RTypeOK
<1> USE AgesFacts, PresenceConstants
<1>1. PICK s \in Sockets :
         /\ route = [x \in Seats |-> IF x = 0 THEN s ELSE NoSocket]
         /\ sock = [t \in Sockets |->
                       IF t = s THEN [Idle EXCEPT !.phase = "attached", !.player = Host] ELSE Idle]
  BY DEF RInit
<1>2. Idle \in SockType /\ [Idle EXCEPT !.phase = "attached", !.player = Host] \in SockType
  BY DEF Idle, SockType, Phases, Ops, Players
<1>3. Resting \in SweepType
  BY DEF Resting, SweepType
<1>4. \A t \in Sockets : sock[t] \in SockType /\ sock[t].phase # "holding"
  BY <1>1, <1>2 DEF Idle
<1>5. Guarded
  BY <1>1, <1>2, <1>4 DEF Guarded, RInit
<1>6. Data
  <2>1. occupant \in [Seats -> Players \cup {Open, AI}] /\ issued \in SUBSET Players
    BY DEF RInit, Players
  <2>2. route \in [Seats -> Sockets \cup {NoSocket}] /\ sweep \in SweepType
    BY <1>1, <1>3 DEF RInit
  <2>3. /\ connected \in [Seats -> BOOLEAN]
        /\ disconnected \in [Seats -> Ages \cup {None}]
    BY DEF RInit
  <2>4. registered \in BOOLEAN /\ started \in BOOLEAN /\ terminal \in BOOLEAN
    BY Zenon DEF RInit
  <2>5. faults \in 0..MaxFaults /\ listing \in {"absent", "present", "away"}
    BY DEF RInit
  <2> QED BY <2>1, <2>2, <2>3, <2>4, <2>5 DEF Data
<1> QED BY <1>5, <1>6 DEF RTypeOK, SockType, SweepType, Phases, Ops, Data, Guarded

\* Every step of the room keeps the types.
LEMMA TypeStep ==
    ASSUME RTypeOK, [RNext]_rvars PROVE RTypeOK'
<1>1. CASE UNCHANGED rvars
  BY <1>1 DEF RTypeOK, rvars
<1>2. ASSUME NEW s \in Sockets, Handler(s) PROVE RTypeOK'
  BY <1>2, JoinStep, ReturnStep, DepartureStep DEF Handler
<1> QED BY <1>1, <1>2, ReceiveStep, EditStep, SweepStep, TickStep DEF RNext

\* The types of the room's state, and that the session's guard excludes: at
\* most one handler is between the two halves of a return or a departure.
THEOREM PresenceTypeCorrect == RSpec => []RTypeOK
<1>1. RInit => RTypeOK
  BY InitType
<1>2. RTypeOK /\ [RNext]_rvars => RTypeOK'
  BY TypeStep
<1> QED BY <1>1, <1>2, PTL DEF RSpec

-----------------------------------------------------------------------------
(* Absence is always timed. *)

\* AbsenceTimed says nothing while a handler holds the guard, so it is not
\* inductive.  What holds then: the one absence without a record is that of the
\* seat whose departure is under way.
Departing(x) == lease \in Sockets /\ sock[lease].op = "depart" /\ sock[lease].seat = x

AwayTimed ==
    registered =>
        \A x \in Seats : Seated(x) /\ ~connected[x] => disconnected[x] # None \/ Departing(x)

\* A step that leaves the seats alone, keeps the records of a room that stays
\* and does not touch the holder of the guard.
LEMMA TimedKept ==
    ASSUME AwayTimed,
           registered' => /\ registered
                          /\ UNCHANGED <<occupant, connected, lease>>
                          /\ \A x \in Seats : disconnected[x] # None => disconnected'[x] # None
                          /\ lease \in Sockets => /\ sock'[lease].op = sock[lease].op
                                                  /\ sock'[lease].seat = sock[lease].seat
    PROVE  AwayTimed'
BY DEF AwayTimed, Departing, Seated

\* A socket's step that is not the holder's leaves the holder alone.
LEMMA HolderKept ==
    ASSUME Guarded, NEW s \in Sockets, NEW r, sock[s].phase # "holding",
           sock' = [sock EXCEPT ![s] = r]
    PROVE  lease \in Sockets => sock'[lease] = sock[lease]
BY DEF Guarded

\* While the guard is free every absence has its record.
LEMMA FreeTimed ==
    ASSUME AwayTimed, lease = Free, registered, NEW x \in Seats, Seated(x), ~connected[x]
    PROVE  disconnected[x] # None
BY PresenceConstants DEF AwayTimed, Departing

\* Frames that arrive, and handlers that end without a change.
LEMMA TimedQuiet ==
    ASSUME RTypeOK, AwayTimed, NEW s \in Sockets,
           \/ ReceiveJoin(s)
           \/ \E p \in Players : ReceiveReconnect(s, p)
           \/ Close(s)
           \/ JoinRefused(s)
           \/ ReturnRefused(s)
           \/ StaleDeparture(s)
    PROVE  AwayTimed'
<1> USE TypeParts
<1>1. sock[s].phase # "holding" /\ \E r : sock' = [sock EXCEPT ![s] = r]
  BY DEF ReceiveJoin, ReceiveReconnect, Close, JoinRefused, ReturnRefused, StaleDeparture,
         Unused, Wait, Granted, GiveUp, Idle
<1>2. lease \in Sockets => sock'[lease] = sock[lease]
  BY <1>1, HolderKept
<1>3. UNCHANGED <<registered, occupant, connected, lease, disconnected>>
  BY DEF ReceiveJoin, ReceiveReconnect, Close, JoinRefused, ReturnRefused, StaleDeparture,
         GiveUp, attempt_reconnect, session
<1> QED BY <1>2, <1>3, TimedKept

\* Handlers that write the presence of a seat.
LEMMA TimedHandlers ==
    ASSUME RTypeOK, AwayTimed, NEW s \in Sockets,
           \/ \E p \in Guests, x \in Seats, start \in BOOLEAN : JoinSeat(s, p, x, start)
           \/ \E x \in Seats : AdmitReturn(s, x)
           \/ PublishReturn(s)
           \/ Unroute(s)
           \/ RecordDeparture(s)
    PROVE  AwayTimed'
<1> USE TypeParts, PresenceConstants
<1>0. sock[s] \in SockType /\ sock[s].seat \in Seats /\ sock[s].age \in Ages
  BY DEF Guarded, SockType
<1>1. ASSUME NEW p \in Guests, NEW x \in Seats, NEW start \in BOOLEAN, JoinSeat(s, p, x, start)
      PROVE  AwayTimed'
  BY <1>1, FreeTimed DEF JoinSeat, Granted, Data, AwayTimed, Seated
<1>2. ASSUME NEW x \in Seats, AdmitReturn(s, x) PROVE AwayTimed'
  BY <1>2, FreeTimed DEF AdmitReturn, Granted, attempt_reconnect, Data, AwayTimed, Seated
<1>3. CASE PublishReturn(s)
  <2>1. lease = s /\ \A x \in Seats : ~Departing(x)
    BY <1>3 DEF PublishReturn, Guarded, Departing
  <2> QED BY <1>3, <2>1 DEF PublishReturn, AwayTimed, Seated, session
<1>4. CASE Unroute(s)
  <2> DEFINE x == sock[s].seat
  <2>1. \A y \in Seats \ {x} : connected'[y] = connected[y]
    BY <1>0, <1>4 DEF Unroute, mark_disconnected_at, Data
  <2>2. \A y \in Seats : y = x => Departing(y)'
    BY <1>0, <1>4 DEF Unroute, Granted, Guarded, Departing, SockType
  <2>3. UNCHANGED <<registered, occupant, disconnected>> /\ lease = Free
    BY <1>4 DEF Unroute, Granted
  <2> HIDE DEF x
  <2> QED BY <2>1, <2>2, <2>3, FreeTimed DEF AwayTimed, Seated
<1>5. CASE RecordDeparture(s)
  <2> DEFINE x == sock[s].seat
  <2>1. disconnected'[x] # None /\ \A y \in Seats \ {x} : disconnected'[y] = disconnected[y]
    BY <1>0, <1>5, AgesFacts DEF RecordDeparture, record_disconnect, Data
  <2>2. lease = s /\ \A y \in Seats \ {x} : ~Departing(y)
    BY <1>5 DEF RecordDeparture, Guarded, Departing
  <2>3. UNCHANGED <<registered, occupant, connected>>
    BY <1>5 DEF RecordDeparture, session
  <2> HIDE DEF x
  <2> QED BY <2>1, <2>2, <2>3 DEF AwayTimed, Seated
<1> QED BY <1>1, <1>2, <1>3, <1>4, <1>5

\* The host's edits, the background task and the clock.
LEMMA TimedOthers ==
    ASSUME RTypeOK, AwayTimed,
           \/ \E s \in Sockets, x \in Seats, kind \in {Open, AI} : SetKind(s, x, kind)
           \/ \E s \in Sockets : Start(s)
           \/ Sweep
           \/ Tick
    PROVE  AwayTimed'
<1> USE TypeParts
<1>1. ASSUME NEW s \in Sockets, NEW x \in Seats, NEW kind \in {Open, AI}, SetKind(s, x, kind)
      PROVE  AwayTimed'
  <2>1. kind \notin Players
    BY PresenceConstants DEF Players
  <2>2. \A y \in Seats \ {x} : occupant'[y] = occupant[y] /\ connected'[y] = connected[y]
    BY <1>1 DEF SetKind, Data
  <2>3. occupant'[x] = kind /\ UNCHANGED <<registered, disconnected>> /\ lease = Free
    BY <1>1 DEF SetKind, HostActs, Data
  <2> QED BY <2>1, <2>2, <2>3, FreeTimed DEF AwayTimed, Seated
<1>2. ASSUME NEW s \in Sockets, Start(s) PROVE AwayTimed'
  BY <1>2, TimedKept DEF Start
<1>3. CASE Sweep
  <2>1. UNCHANGED <<occupant, connected, lease, sock>>
    BY <1>3 DEF Sweep, GraceReport, PickCandidate, CommitTerminal, ReapDisconnects, DelistRemoved,
        PruneConnections, LobbyReport, HandleLapsed, CaptureRoutes, ConsumeEntry, PruneCaptured, session
  <2>2. registered' => registered /\ UNCHANGED disconnected
    BY <1>3 DEF Sweep, GraceReport, PickCandidate, CommitTerminal, ReapDisconnects, RecordsAfterReap,
        DelistRemoved, PruneConnections, LobbyReport, HandleLapsed, CaptureRoutes, ConsumeEntry,
        PruneCaptured
  <2> QED BY <2>1, <2>2, TimedKept
<1>4. CASE Tick
  <2>1. \A x \in Seats : disconnected[x] # None => disconnected'[x] # None
    BY <1>4, AgesFacts DEF Tick, Data
  <2>2. \A t \in Sockets : sock'[t].op = sock[t].op /\ sock'[t].seat = sock[t].seat
    BY <1>4 DEF Tick, Guarded, SockType
  <2> QED BY <1>4, <2>1, <2>2, TimedKept DEF Tick, session
<1> QED BY <1>1, <1>2, <1>3, <1>4

\* An absent player is always on the clock: whenever no handler is at work on a
\* registered room, a seated player that is not connected has a disconnect
\* record for the grace sweep to find.
THEOREM AbsenceAlwaysTimed == RSpec => []AbsenceTimed
<1>1. RInit => AwayTimed
  BY PresenceConstants, ZenonT(30) DEF RInit, AwayTimed, Seated, Players
<1>2. RTypeOK /\ AwayTimed /\ [RNext]_rvars => AwayTimed'
  <2> SUFFICES ASSUME RTypeOK, AwayTimed, [RNext]_rvars PROVE AwayTimed'
    OBVIOUS
  <2>1. CASE UNCHANGED rvars
    BY <2>1 DEF rvars, AwayTimed, Departing, Seated
  <2>2. ASSUME NEW s \in Sockets, Handler(s) PROVE AwayTimed'
    BY <2>2, TimedQuiet, TimedHandlers DEF Handler
  <2> QED BY <2>1, <2>2, TimedQuiet, TimedOthers DEF RNext
<1>3. AwayTimed => AbsenceTimed
  BY PresenceConstants DEF AwayTimed, AbsenceTimed, Departing, Settled
<1> QED BY <1>1, <1>2, <1>3, PresenceTypeCorrect, PTL DEF RSpec

-----------------------------------------------------------------------------
(* Routes lead to the players who hold the seats. *)

\* RouteOwned with what keeps it: a routed seat is a player's, its socket is
\* attached or waits to depart (never in mid-handler), and a return that is
\* under way still names its seat, since nobody else can edit the seats then.
Entitled(x, k) ==
    /\ k.seat = x /\ k.player = occupant[x] /\ Seated(x)
    /\ k.phase = "attached" \/ (k.phase = "waiting" /\ k.op = "depart")

Routed == registered => \A x \in Seats : route[x] # NoSocket => Entitled(x, sock[route[x]])

Returning ==
    \A s \in Sockets :
        sock[s].op = "return" =>
            /\ sock[s].player \in Players
            /\ sock[s].phase = "holding" => occupant[sock[s].seat] = sock[s].player

\* A socket that no route names may change at will.
LEMMA RoutedApart ==
    ASSUME RTypeOK, Routed, NEW s \in Sockets, NEW r,
           sock' = [sock EXCEPT ![s] = r],
           registered' => /\ registered
                          /\ UNCHANGED <<route, occupant>>
                          /\ \A x \in Seats : route[x] # s
    PROVE  Routed'
<1> USE TypeParts
<1> SUFFICES ASSUME registered', NEW x \in Seats, route'[x] # NoSocket
             PROVE  Entitled(x, sock[route[x]])'
  BY DEF Routed
<1>1. registered /\ route'[x] = route[x] /\ occupant'[x] = occupant[x] /\ route[x] # s
  OBVIOUS
<1>2. route[x] \in Sockets
  BY <1>1 DEF Data
<1>3. sock'[route'[x]] = sock[route[x]]
  BY <1>1, <1>2 DEF Guarded
<1>4. Entitled(x, sock[route[x]])
  BY <1>1 DEF Routed
<1> QED BY <1>1, <1>3, <1>4 DEF Entitled, Seated

\* A socket no route names: it neither is attached nor waits to depart.
LEMMA Unrouted ==
    ASSUME Routed, registered, NEW s \in Sockets, sock[s].phase # "attached",
           ~(sock[s].phase = "waiting" /\ sock[s].op = "depart"),
           NEW x \in Seats
    PROVE  route[x] # s
BY PresenceConstants DEF Routed, Entitled

\* Frames that arrive, and the refused.
LEMMA RoutedQuiet ==
    ASSUME RTypeOK, Routed, NEW s \in Sockets,
           \/ ReceiveJoin(s)
           \/ \E p \in Players : ReceiveReconnect(s, p)
           \/ Close(s)
           \/ JoinRefused(s)
           \/ ReturnRefused(s)
           \/ StaleDeparture(s)
    PROVE  Routed'
<1> USE TypeParts
<1>1. UNCHANGED <<registered, route, occupant>>
  BY DEF ReceiveJoin, ReceiveReconnect, Close, JoinRefused, ReturnRefused, StaleDeparture,
         GiveUp, session
<1>2. CASE ReceiveJoin(s) \/ \E p \in Players : ReceiveReconnect(s, p)
  BY <1>1, <1>2, RoutedApart DEF ReceiveJoin, ReceiveReconnect, Unused, Wait
<1>3. CASE JoinRefused(s) \/ ReturnRefused(s)
  <2>1. sock[s].phase # "attached" /\ ~(sock[s].phase = "waiting" /\ sock[s].op = "depart")
    BY <1>3 DEF JoinRefused, ReturnRefused, Granted
  <2>2. sock' = [sock EXCEPT ![s] = Idle]
    BY <1>3 DEF JoinRefused, ReturnRefused, GiveUp
  <2> QED BY <1>1, <2>1, <2>2, Unrouted, RoutedApart
<1>4. CASE StaleDeparture(s)
  <2>1. registered => \A x \in Seats : route[x] # s
    BY <1>4, PresenceConstants DEF StaleDeparture, OwnsSeat, Routed, Entitled
  <2>2. sock' = [sock EXCEPT ![s] = Idle]
    BY <1>4 DEF StaleDeparture, GiveUp
  <2> QED BY <1>1, <2>1, <2>2, RoutedApart
<1>5. CASE Close(s)
  <2>1. CASE ~registered
    BY <1>1, <2>1 DEF Routed
  <2>2. CASE registered
    <3>1. /\ sock'[s].phase = "waiting" /\ sock'[s].op = "depart"
          /\ sock'[s].seat = sock[s].seat /\ sock'[s].player = sock[s].player
      BY <1>5, <2>2 DEF Close, Wait, Guarded
    <3>2. \A t \in Sockets \ {s} : sock'[t] = sock[t]
      BY <1>5, <2>2 DEF Close, Wait, Guarded
    <3>3. \A x \in Seats : route[x] \in Sockets \cup {NoSocket}
      BY DEF Data
    <3> QED BY <1>1, <2>2, <3>1, <3>2, <3>3 DEF Routed, Entitled, Seated
  <2> QED BY <2>1, <2>2
<1> QED BY <1>2, <1>3, <1>4, <1>5

\* Handlers that write a route or the record of a routed socket.
LEMMA RoutedHandlers ==
    ASSUME RTypeOK, Routed, Returning, NEW s \in Sockets,
           \/ \E p \in Guests, x \in Seats, start \in BOOLEAN : JoinSeat(s, p, x, start)
           \/ \E x \in Seats : AdmitReturn(s, x)
           \/ PublishReturn(s)
           \/ Unroute(s)
           \/ RecordDeparture(s)
    PROVE  Routed'
<1> USE TypeParts
<1>0. /\ sock[s] \in SockType /\ sock[s].seat \in Seats
      /\ \A x \in Seats : route[x] \in Sockets \cup {NoSocket}
  BY DEF Guarded, Data, SockType
<1>1. ASSUME NEW p \in Guests, NEW x \in Seats, NEW start \in BOOLEAN, JoinSeat(s, p, x, start)
      PROVE  Routed'
  <2>1. registered => \A y \in Seats : route[y] # s
    BY <1>1, Unrouted DEF JoinSeat, Granted
  <2>2. /\ sock'[s].phase = "attached" /\ sock'[s].seat = x /\ sock'[s].player = p
        /\ \A t \in Sockets \ {s} : sock'[t] = sock[t]
    BY <1>1 DEF JoinSeat, Guarded
  <2>3. /\ route'[x] = s /\ occupant'[x] = p /\ p \in Players
        /\ \A y \in Seats \ {x} : route'[y] = route[y] /\ occupant'[y] = occupant[y]
    BY <1>1 DEF JoinSeat, Data, Players
  <2>4. registered' = registered
    BY <1>1 DEF JoinSeat
  <2> QED BY <1>0, <2>1, <2>2, <2>3, <2>4 DEF Routed, Entitled, Seated
<1>2. ASSUME NEW x \in Seats, AdmitReturn(s, x) PROVE Routed'
  <2>1. registered => \A y \in Seats : route[y] # s
    BY <1>2, Unrouted DEF AdmitReturn, Granted
  <2>2. sock' = [sock EXCEPT ![s] = [sock[s] EXCEPT !.phase = "holding", !.seat = x, !.age = 0]]
    BY <1>2 DEF AdmitReturn, Guarded, SockType
  <2> QED BY <1>2, <2>1, <2>2, RoutedApart DEF AdmitReturn
<1>3. CASE PublishReturn(s)
  <2> DEFINE x == sock[s].seat
  <2>1. registered => \A y \in Seats : route[y] # s
    BY <1>3, Unrouted DEF PublishReturn
  <2>2. /\ sock'[s].phase = "attached" /\ sock'[s].seat = x /\ sock'[s].player = sock[s].player
        /\ \A t \in Sockets \ {s} : sock'[t] = sock[t]
    BY <1>0, <1>3 DEF PublishReturn, Guarded, SockType
  <2>3. route'[x] = s /\ \A y \in Seats \ {x} : route'[y] = route[y]
    BY <1>0, <1>3 DEF PublishReturn, Data
  <2>4. occupant[x] = sock[s].player /\ sock[s].player \in Players
    BY <1>3 DEF PublishReturn, Returning
  <2>5. registered' = registered /\ occupant' = occupant
    BY <1>3 DEF PublishReturn, session
  <2> HIDE DEF x
  <2> QED BY <1>0, <2>1, <2>2, <2>3, <2>4, <2>5 DEF Routed, Entitled, Seated, x
<1>4. CASE Unroute(s)
  <2> DEFINE x == sock[s].seat
  <2>1. registered => \A y \in Seats \ {x} : route[y] # s
    BY PresenceConstants DEF Routed, Entitled
  <2>2. \A t \in Sockets \ {s} : sock'[t] = sock[t]
    BY <1>4 DEF Unroute, Guarded
  <2>3. route'[x] = NoSocket /\ \A y \in Seats \ {x} : route'[y] = route[y]
    BY <1>0, <1>4 DEF Unroute, Data
  <2>4. registered' = registered /\ occupant' = occupant
    BY <1>4 DEF Unroute
  <2> HIDE DEF x
  <2> QED BY <1>0, <2>1, <2>2, <2>3, <2>4 DEF Routed, Entitled, Seated
<1>5. CASE RecordDeparture(s)
  <2>1. registered => \A y \in Seats : route[y] # s
    BY <1>5, Unrouted DEF RecordDeparture
  <2> QED BY <1>5, <2>1, RoutedApart DEF RecordDeparture, session
<1> QED BY <1>1, <1>2, <1>3, <1>4, <1>5

\* The host's edits, the background task and the clock.
LEMMA RoutedOthers ==
    ASSUME RTypeOK, Routed,
           \/ \E s \in Sockets, x \in Seats, kind \in {Open, AI} : SetKind(s, x, kind)
           \/ \E s \in Sockets : Start(s)
           \/ Sweep
           \/ Tick
    PROVE  Routed'
<1> USE TypeParts
<1>0. \A x \in Seats : route[x] \in Sockets \cup {NoSocket}
  BY DEF Data
<1>1. ASSUME NEW s \in Sockets, NEW x \in Seats, NEW kind \in {Open, AI}, SetKind(s, x, kind)
      PROVE  Routed'
  <2>1. \A y \in Seats \ {x} : occupant'[y] = occupant[y] /\ route'[y] = route[y]
    BY <1>1 DEF SetKind, RouteAfterEdit, Data
  <2>2. registered => route'[x] = NoSocket
    BY <1>1 DEF SetKind, RouteAfterEdit, Data, Routed, Entitled
  <2>3. UNCHANGED <<registered, sock>>
    BY <1>1 DEF SetKind
  <2> QED BY <2>1, <2>2, <2>3 DEF Routed, Entitled, Seated
<1>2. ASSUME NEW s \in Sockets, Start(s) PROVE Routed'
  BY <1>2 DEF Start, Routed, Entitled, Seated
<1>3. CASE Sweep
  <2>1. UNCHANGED <<occupant, sock>>
    BY <1>3 DEF Sweep, GraceReport, PickCandidate, CommitTerminal, ReapDisconnects, DelistRemoved,
        PruneConnections, LobbyReport, HandleLapsed, CaptureRoutes, ConsumeEntry, PruneCaptured, session
  <2>2. registered' => registered
    BY <1>3 DEF Sweep, GraceReport, PickCandidate, CommitTerminal, ReapDisconnects, DelistRemoved,
        PruneConnections, LobbyReport, HandleLapsed, CaptureRoutes, ConsumeEntry, PruneCaptured
  <2>3. \A x \in Seats : route'[x] # NoSocket => route'[x] = route[x]
    BY <1>3 DEF Sweep, GraceReport, PickCandidate, CommitTerminal, ReapDisconnects, DelistRemoved,
        PruneConnections, LobbyReport, HandleLapsed, CaptureRoutes, ConsumeEntry, PruneCaptured, NoRoutes
  <2> QED BY <2>1, <2>2, <2>3 DEF Routed, Entitled, Seated
<1>4. CASE Tick
  <2>1. \A t \in Sockets : /\ sock'[t].op = sock[t].op /\ sock'[t].seat = sock[t].seat
                           /\ sock'[t].phase = sock[t].phase /\ sock'[t].player = sock[t].player
    BY <1>4 DEF Tick, Guarded, SockType
  <2>2. UNCHANGED <<registered, route, occupant>>
    BY <1>4 DEF Tick, session
  <2> QED BY <1>0, <2>1, <2>2 DEF Routed, Entitled, Seated
<1> QED BY <1>1, <1>2, <1>3, <1>4

\* A return under way keeps its seat: every edit of the seats needs the guard.
LEMMA ReturningStep ==
    ASSUME RTypeOK, Returning, [RNext]_rvars
    PROVE  Returning'
<1> USE TypeParts, PresenceConstants
<1>0. \A t \in Sockets : sock[t] \in SockType
  BY DEF Guarded
<1>1. CASE UNCHANGED rvars
  BY <1>1 DEF rvars, Returning
<1>2. ASSUME NEW s \in Sockets,
             \/ ReceiveJoin(s)
             \/ \E p \in Players : ReceiveReconnect(s, p)
             \/ Close(s)
             \/ JoinRefused(s)
             \/ ReturnRefused(s)
             \/ StaleDeparture(s)
             \/ RecordDeparture(s)
      PROVE  Returning'
  <2>1. /\ sock'[s].op = "return" => sock'[s].player \in Players /\ sock'[s].phase = "waiting"
        /\ \A t \in Sockets \ {s} : sock'[t] = sock[t]
    BY <1>2 DEF ReceiveJoin, ReceiveReconnect, Close, JoinRefused, ReturnRefused, StaleDeparture,
                RecordDeparture, GiveUp, Wait, Idle, Guarded
  <2>2. UNCHANGED occupant
    BY <1>2 DEF ReceiveJoin, ReceiveReconnect, Close, JoinRefused, ReturnRefused, StaleDeparture,
                RecordDeparture, GiveUp, session
  <2> QED BY <2>1, <2>2 DEF Returning
<1>3. ASSUME NEW s \in Sockets, NEW p \in Guests, NEW x \in Seats, NEW start \in BOOLEAN,
             JoinSeat(s, p, x, start)
      PROVE  Returning'
  <2>1. \A t \in Sockets : sock[t].phase # "holding"
    BY <1>3 DEF JoinSeat, Granted, Guarded
  <2>2. sock'[s].op = "none" /\ \A t \in Sockets \ {s} : sock'[t] = sock[t]
    BY <1>3 DEF JoinSeat, Guarded
  <2> QED BY <2>1, <2>2 DEF Returning
<1>4. ASSUME NEW s \in Sockets, NEW x \in Seats, AdmitReturn(s, x) PROVE Returning'
  <2>1. /\ sock'[s].player = sock[s].player /\ sock'[s].seat = x /\ sock[s].op = "return"
        /\ \A t \in Sockets \ {s} : sock'[t] = sock[t]
    BY <1>0, <1>4 DEF AdmitReturn, Granted, Guarded, SockType
  <2>2. occupant[x] = sock[s].player /\ UNCHANGED occupant
    BY <1>4 DEF AdmitReturn
  <2> QED BY <2>1, <2>2 DEF Returning
<1>5. ASSUME NEW s \in Sockets, PublishReturn(s) \/ Unroute(s) PROVE Returning'
  <2>1. sock'[s].op # "return" /\ \A t \in Sockets \ {s} : sock'[t] = sock[t]
    BY <1>0, <1>5 DEF PublishReturn, Unroute, Granted, Guarded, SockType
  <2>2. UNCHANGED occupant
    BY <1>5 DEF PublishReturn, Unroute, session
  <2> QED BY <2>1, <2>2 DEF Returning
<1>6. ASSUME NEW s \in Sockets, NEW x \in Seats, NEW kind \in {Open, AI}, SetKind(s, x, kind)
      PROVE  Returning'
  <2>1. \A t \in Sockets : sock[t].phase # "holding"
    BY <1>6 DEF SetKind, HostActs, Guarded
  <2> QED BY <1>6, <2>1 DEF SetKind, Returning
<1>7. ASSUME NEW s \in Sockets, Start(s) PROVE Returning'
  BY <1>7 DEF Start, Returning
<1>8. CASE Sweep
  <2>1. UNCHANGED <<occupant, sock>>
    BY <1>8 DEF Sweep, GraceReport, PickCandidate, CommitTerminal, ReapDisconnects, DelistRemoved,
        PruneConnections, LobbyReport, HandleLapsed, CaptureRoutes, ConsumeEntry, PruneCaptured, session
  <2> QED BY <2>1 DEF Returning
<1>9. CASE Tick
  <2>1. \A t \in Sockets : /\ sock'[t].op = sock[t].op /\ sock'[t].seat = sock[t].seat
                           /\ sock'[t].phase = sock[t].phase /\ sock'[t].player = sock[t].player
    BY <1>0, <1>9 DEF Tick, SockType
  <2> QED BY <1>9, <2>1 DEF Tick, session, Returning
<1>10. ASSUME NEW s \in Sockets, Handler(s) PROVE Returning'
  BY <1>2, <1>3, <1>4, <1>5, <1>10 DEF Handler
<1> QED BY <1>1, <1>2, <1>6, <1>7, <1>8, <1>9, <1>10 DEF RNext

\* The invariant behind RouteOwned.
LEMMA RoutesKept == RSpec => [](Routed /\ Returning)
<1>1. RInit => Routed /\ Returning
  <2> SUFFICES ASSUME RInit PROVE Routed /\ Returning
    OBVIOUS
  <2>1. PICK s \in Sockets :
           /\ route = [x \in Seats |-> IF x = 0 THEN s ELSE NoSocket]
           /\ sock = [t \in Sockets |->
                         IF t = s THEN [Idle EXCEPT !.phase = "attached", !.player = Host] ELSE Idle]
    BY DEF RInit
  <2>2. sock[s].phase = "attached" /\ sock[s].seat = 0 /\ sock[s].player = Host
    BY <2>1 DEF Idle
  <2>3. occupant = [x \in Seats |-> IF x = 0 THEN Host ELSE Open]
    BY DEF RInit
  <2>4. Routed
    BY <2>1, <2>2, <2>3, AgesFacts DEF Routed, Entitled, Seated, Players
  <2>5. \A t \in Sockets : sock[t].op = "none"
    BY <2>1 DEF Idle
  <2> QED BY <2>4, <2>5 DEF Returning
<1>2. RTypeOK /\ Routed /\ Returning /\ [RNext]_rvars => Routed' /\ Returning'
  <2> SUFFICES ASSUME RTypeOK, Routed, Returning, [RNext]_rvars PROVE Routed' /\ Returning'
    OBVIOUS
  <2>1. CASE UNCHANGED rvars
    BY <2>1, ReturningStep DEF rvars, Routed, Entitled, Seated
  <2>2. ASSUME NEW s \in Sockets, Handler(s) PROVE Routed'
    BY <2>2, RoutedQuiet, RoutedHandlers DEF Handler
  <2>3. CASE RNext
    BY <2>2, <2>3, RoutedQuiet, RoutedOthers, ReturningStep DEF RNext
  <2> QED BY <2>1, <2>3
<1> QED BY <1>1, <1>2, PresenceTypeCorrect, PTL DEF RSpec

\* A route of a registered room leads to the socket of the player who holds the
\* seat, whatever was replaced, kicked, departed or swept: nobody is sent
\* another player's view.
THEOREM RoutesOwned == RSpec => []RouteOwned
<1>1. Routed => RouteOwned
  BY DEF Routed, RouteOwned, Entitled
<1> QED BY <1>1, RoutesKept, PTL

-----------------------------------------------------------------------------
(* What the background task may find between its steps. *)

\* A room whose removal the task is finishing is out of the registry, one whose
\* lobby entry it takes out is so too or has started, a started game has no
\* entry, and a room that left the registry with its entry is one the task is
\* still at work on.
Swept ==
    /\ sweep.pc \in {"reaped", "delisted"} => ~registered
    /\ sweep.pc \in {"acted", "captured", "consumed"} => ~registered \/ started
    /\ started => listing = "absent"
    /\ ~registered /\ listing # "absent" => sweep.pc \in {"reaped", "acted", "captured"}

\* Steps of the sockets: an entry that is gone does not come back, and a start
\* takes it out.
LEMMA SweptKept ==
    ASSUME Swept, UNCHANGED <<registered, sweep>>,
           listing = "absent" => listing' = "absent",
           started => started',
           started' => started \/ listing' = "absent"
    PROVE  Swept'
BY DEF Swept

LEMMA SweptSockets ==
    ASSUME RTypeOK, Swept, NEW s \in Sockets,
           \/ ReceiveJoin(s)
           \/ \E p \in Players : ReceiveReconnect(s, p)
           \/ Close(s)
           \/ Handler(s)
           \/ \E x \in Seats, kind \in {Open, AI} : SetKind(s, x, kind)
           \/ Start(s)
    PROVE  Swept'
<1>1. CASE \E p \in Guests, x \in Seats, start \in BOOLEAN : JoinSeat(s, p, x, start)
  <2>1. PICK p \in Guests, x \in Seats, start \in BOOLEAN : JoinSeat(s, p, x, start)
    BY <1>1
  <2>2. /\ UNCHANGED <<registered, sweep>>
        /\ listing' = IF start THEN "absent" ELSE listing
        /\ started' = (started \/ start)
    BY <2>1 DEF JoinSeat
  <2>3. /\ listing = "absent" => listing' = "absent"
        /\ started => started'
        /\ started' => started \/ listing' = "absent"
    BY <2>2
  <2> QED BY <2>2, <2>3, SweptKept
<1>2. CASE Start(s)
  <2>1. UNCHANGED <<registered, sweep>> /\ started' = TRUE /\ listing' = "absent"
    BY <1>2 DEF Start
  <2> QED BY <2>1, SweptKept
<1>3. CASE PublishReturn(s) \/ RecordDeparture(s)
  <2>1. /\ UNCHANGED <<registered, sweep>> /\ started' = started
        /\ listing = "absent" => listing' = "absent"
    BY <1>3 DEF PublishReturn, RecordDeparture, HostReturned, session
  <2> QED BY <2>1, SweptKept
<1>4. CASE \/ ReceiveJoin(s)
           \/ \E p \in Players : ReceiveReconnect(s, p)
           \/ Close(s) \/ JoinRefused(s) \/ ReturnRefused(s) \/ StaleDeparture(s)
           \/ \E x \in Seats : AdmitReturn(s, x)
           \/ Unroute(s)
           \/ \E x \in Seats, kind \in {Open, AI} : SetKind(s, x, kind)
  <2>1. UNCHANGED <<registered, sweep, started, listing>>
    BY <1>4 DEF ReceiveJoin, ReceiveReconnect, Close, JoinRefused, ReturnRefused, StaleDeparture,
                GiveUp, AdmitReturn, Unroute, SetKind, session
  <2> QED BY <2>1, SweptKept
<1> QED BY <1>1, <1>2, <1>3, <1>4 DEF Handler

\* Steps of the background task.
LEMMA SweptSweep ==
    ASSUME RTypeOK, Swept, Sweep
    PROVE  Swept'
<1> USE TypeParts
<1>0. sweep \in SweepType /\ Resting.pc = "idle"
  BY DEF Data, Resting
<1>1. CASE GraceReport \/ LobbyReport \/ PickCandidate
  <2>1. /\ UNCHANGED <<registered, started, listing>>
        /\ sweep'.pc \in {"reported", "lapsed", "candidate", "decided"}
        /\ sweep.pc \notin {"reaped", "acted", "captured"}
    BY <1>0, <1>1 DEF GraceReport, LobbyReport, PickCandidate, Goto, session, SweepType
  <2> QED BY <2>1 DEF Swept
<1>2. CASE \E outcome \in {"refused", "unread", "read"} : CommitTerminal(outcome)
  <2>1. UNCHANGED <<registered, started, listing>> /\ sweep.pc = "candidate" /\ sweep'.pc = "decided"
    BY <1>0, <1>2 DEF CommitTerminal, session, SweepType
  <2> QED BY <2>1 DEF Swept
<1>3. CASE ReapDisconnects
  <2>1. /\ UNCHANGED <<started, listing>> /\ sweep.pc = "decided"
        /\ registered' = (registered /\ ~MayRemove)
        /\ (registered /\ MayRemove) => sweep'.pc = "reaped"
        /\ ~(registered /\ MayRemove) => sweep'.pc = "idle"
    BY <1>0, <1>3 DEF ReapDisconnects, session, SweepType
  <2> QED BY <2>1 DEF Swept
<1>4. CASE DelistRemoved \/ ConsumeEntry
  <2>1. /\ UNCHANGED <<registered, started>> /\ listing' = "absent"
        /\ \/ sweep.pc = "reaped" /\ sweep'.pc = "delisted"
           \/ sweep.pc = "captured" /\ sweep'.pc = "consumed"
    BY <1>0, <1>4 DEF DelistRemoved, ConsumeEntry, Goto, session, SweepType
  <2> QED BY <2>1 DEF Swept
<1>5. CASE PruneConnections \/ PruneCaptured
  <2>1. /\ UNCHANGED <<registered, started, listing>> /\ sweep'.pc = "idle"
        /\ sweep.pc \in {"delisted", "consumed"}
    BY <1>0, <1>5 DEF PruneConnections, PruneCaptured, session
  <2> QED BY <2>1 DEF Swept
<1>6. CASE CaptureRoutes
  <2>1. UNCHANGED <<registered, started, listing>> /\ sweep.pc = "acted" /\ sweep'.pc = "captured"
    BY <1>0, <1>6 DEF CaptureRoutes, session, SweepType
  <2> QED BY <2>1 DEF Swept
<1>7. CASE HandleLapsed
  <2> DEFINE retired == registered /\ lease = Free /\ ~started /\ ~HostWaiting
             acted == ~registered \/ (lease = Free /\ (started \/ ~HostWaiting))
  <2>1. /\ UNCHANGED <<started, listing>> /\ sweep.pc = "lapsed"
        /\ registered' = (registered /\ ~retired)
        /\ acted => sweep'.pc = "acted"
        /\ ~acted => sweep'.pc = "idle"
    BY <1>0, <1>7 DEF HandleLapsed, session, SweepType
  <2>2. retired => acted
    OBVIOUS
  <2>3. acted /\ ~retired => ~registered \/ started
    OBVIOUS
  <2> HIDE DEF retired, acted
  <2>4. ~registered => listing = "absent"
    BY <2>1 DEF Swept
  <2>5. CASE acted
    BY <2>1, <2>2, <2>3, <2>4, <2>5 DEF Swept
  <2>6. CASE ~acted
    <3>1. registered' = registered
      BY <2>1, <2>2, <2>6 DEF Data
    <3> QED BY <2>1, <2>4, <2>6, <3>1 DEF Swept
  <2> QED BY <2>5, <2>6
<1> QED BY <1>1, <1>2, <1>3, <1>4, <1>5, <1>6, <1>7 DEF Sweep

\* The background task leaves no room between its views.
LEMMA AlwaysSwept == RSpec => []Swept
<1>1. RInit => Swept
  BY DEF RInit, Swept, Resting
<1>2. RTypeOK /\ Swept /\ [RNext]_rvars => Swept'
  <2> SUFFICES ASSUME RTypeOK, Swept, [RNext]_rvars PROVE Swept'
    OBVIOUS
  <2>1. CASE UNCHANGED rvars
    BY <2>1, SweptKept DEF rvars
  <2>2. CASE Tick
    <3>1. UNCHANGED <<registered, sweep, started, listing>>
      BY <2>2 DEF Tick, session
    <3> QED BY <3>1, SweptKept
  <2> QED BY <2>1, <2>2, SweptSockets, SweptSweep DEF RNext
<1> QED BY <1>1, <1>2, PresenceTypeCorrect, PTL DEF RSpec

\* Whatever the two sweeps and the sockets' handlers do in between, a room that
\* left the registry has no lobby entry once the background task rests, and a
\* started one never has.
THEOREM NoGhosts == RSpec => []NoGhostListing
<1>1. Swept => NoGhostListing
  BY DEF Swept, NoGhostListing
<1> QED BY <1>1, AlwaysSwept, PTL

\* No sweep cuts a socket off from a room that goes on waiting for players, and
\* no close does but the socket's own.
THEOREM RoutesSurviveSweeps == RSpec => KeepsItsRoute
<1> DEFINE Keeps == \A x \in Seats :
              route[x] # NoSocket /\ route'[x] = NoSocket /\ registered /\ ~started
              => sock[route[x]].op = "depart" \/ occupant'[x] # occupant[x]
<1>1. RTypeOK /\ Swept /\ [RNext]_rvars => [Keeps]_rvars
  <2> SUFFICES ASSUME RTypeOK, Swept, RNext, NEW x \in Seats,
                      route[x] # NoSocket, route'[x] = NoSocket, registered, ~started
               PROVE  sock[route[x]].op = "depart" \/ occupant'[x] # occupant[x]
    OBVIOUS
  <2> USE TypeParts
  <2>0. /\ route \in [Seats -> Sockets \cup {NoSocket}]
        /\ occupant \in [Seats -> Players \cup {Open, AI}]
    BY DEF Data
  <2>1. ASSUME NEW s \in Sockets, NEW p \in Guests, NEW y \in Seats, NEW start \in BOOLEAN,
               JoinSeat(s, p, y, start)
        PROVE  FALSE
    <3>1. route' = [route EXCEPT ![y] = s]
      BY <2>1 DEF JoinSeat
    <3> QED BY <2>0, <3>1, PresenceConstants
  <2>2. ASSUME NEW s \in Sockets, PublishReturn(s) PROVE FALSE
    <3>1. route' = [route EXCEPT ![sock[s].seat] = s]
      BY <2>2 DEF PublishReturn
    <3> QED BY <2>0, <3>1, PresenceConstants
  <2>3. ASSUME NEW s \in Sockets, Unroute(s) PROVE sock[route[x]].op = "depart"
    <3>1. /\ route' = [route EXCEPT ![sock[s].seat] = NoSocket]
          /\ sock[s].op = "depart" /\ route[sock[s].seat] = s
      BY <2>3 DEF Unroute, Granted, OwnsSeat
    <3>2. x = sock[s].seat
      BY <2>0, <3>1
    <3> QED BY <3>1, <3>2
  <2>4. ASSUME NEW s \in Sockets, NEW y \in Seats, NEW kind \in {Open, AI}, SetKind(s, y, kind)
        PROVE  occupant'[x] # occupant[x]
    <3>1. /\ occupant[y] # kind /\ occupant' = [occupant EXCEPT ![y] = kind]
          /\ route' \in {route, [route EXCEPT ![y] = NoSocket]}
      BY <2>4 DEF SetKind, RouteAfterEdit
    <3>2. x = y
      BY <2>0, <3>1
    <3> QED BY <2>0, <3>1, <3>2
  <2>5. CASE PruneConnections \/ PruneCaptured
    BY <2>5 DEF PruneConnections, PruneCaptured, Swept
  <2>6. ASSUME NEW s \in Sockets,
               \/ ReceiveJoin(s)
               \/ \E p \in Players : ReceiveReconnect(s, p)
               \/ Close(s) \/ JoinRefused(s) \/ ReturnRefused(s) \/ StaleDeparture(s)
               \/ \E y \in Seats : AdmitReturn(s, y)
               \/ RecordDeparture(s) \/ Start(s)
        PROVE  FALSE
    <3>1. route' = route
      BY <2>6 DEF ReceiveJoin, ReceiveReconnect, Close, JoinRefused, ReturnRefused, StaleDeparture,
                  GiveUp, AdmitReturn, RecordDeparture, Start
    <3> QED BY <3>1
  <2>7. CASE \/ GraceReport \/ PickCandidate
             \/ \E outcome \in {"refused", "unread", "read"} : CommitTerminal(outcome)
             \/ ReapDisconnects \/ DelistRemoved \/ LobbyReport \/ HandleLapsed \/ CaptureRoutes \/ ConsumeEntry
             \/ Tick
    <3>1. route' = route
      BY <2>7 DEF GraceReport, PickCandidate, CommitTerminal, ReapDisconnects, DelistRemoved, LobbyReport,
                  HandleLapsed, CaptureRoutes, ConsumeEntry, Tick
    <3> QED BY <3>1
  <2>8. ASSUME NEW s \in Sockets, Handler(s)
        PROVE  sock[route[x]].op = "depart" \/ occupant'[x] # occupant[x]
    BY <2>1, <2>2, <2>3, <2>6, <2>8 DEF Handler
  <2>9. CASE Sweep
    BY <2>5, <2>7, <2>9 DEF Sweep
  <2> QED BY <2>4, <2>6, <2>7, <2>8, <2>9 DEF RNext
<1> QED BY <1>1, PresenceTypeCorrect, AlwaysSwept, PTL DEF RSpec, KeepsItsRoute

\* A player whose grace had lapsed when its Reconnect was received is not
\* seated again: the record that says so cannot have been lost.
THEOREM LateReturnsRefused == RSpec => NoLateReturn
<1> DEFINE InTime == \A s \in Sockets : \A x \in Seats :
              /\ sock[s].phase = "waiting" /\ sock'[s].phase = "holding"
              /\ sock[s].op = "return" /\ sock'[s].seat = x
              /\ registered /\ ~connected[x]
              => disconnected[x] # None /\ disconnected[x] - sock[s].age <= GraceTicks
<1>1. RTypeOK /\ AbsenceTimed /\ Returning /\ [RNext]_rvars => [InTime]_rvars
  <2> SUFFICES ASSUME RTypeOK, AbsenceTimed, Returning, RNext, NEW s \in Sockets, NEW x \in Seats,
                      sock[s].phase = "waiting", sock'[s].phase = "holding",
                      sock[s].op = "return", sock'[s].seat = x, registered, ~connected[x]
               PROVE  disconnected[x] # None /\ disconnected[x] - sock[s].age <= GraceTicks
    OBVIOUS
  <2> USE TypeParts
  <2>0. sock \in [Sockets -> SockType] /\ \A t \in Sockets : sock[t] \in SockType
    BY DEF Guarded
  <2>1. ASSUME NEW y \in Seats, AdmitReturn(s, y)
        PROVE  disconnected[x] # None /\ disconnected[x] - sock[s].age <= GraceTicks
    <3>1. /\ lease = Free /\ occupant[y] = sock[s].player /\ ~Expired(y, sock[s].age)
          /\ sock'[s].seat = y
      BY <2>0, <2>1 DEF AdmitReturn, Granted, SockType
    <3>2. x = y
      BY <3>1
    <3>3. Seated(x)
      BY <3>1, <3>2 DEF Returning, Seated
    <3>4. disconnected[x] # None
      BY <3>1, <3>3 DEF AbsenceTimed, Settled
    <3>5. disconnected[x] \in Int /\ sock[s].age \in Int /\ GraceTicks \in Int
      <4>1. Ages \subseteq Int /\ GraceTicks \in Int
        BY PresenceConstants DEF Ages, LongAgo
      <4> QED BY <2>0, <3>4, <4>1 DEF Data, SockType
    <3>6. ~(disconnected[x] - sock[s].age > GraceTicks)
      BY <3>1, <3>2, <3>4 DEF Expired
    <3>7. disconnected[x] - sock[s].age <= GraceTicks
      <4> DEFINE a == disconnected[x]
                 w == sock[s].age
      <4>1. a \in Int /\ w \in Int /\ GraceTicks \in Int /\ ~(a - w > GraceTicks)
        BY <3>5, <3>6
      <4> HIDE DEF a, w
      <4>2. a - w <= GraceTicks
        BY <4>1
      <4> QED BY <4>2 DEF a, w
    <3> QED BY <3>4, <3>7
  <2>2. ASSUME NEW t \in Sockets, t # s,
               \/ ReceiveJoin(t)
               \/ \E p \in Players : ReceiveReconnect(t, p)
               \/ Close(t) \/ Handler(t)
        PROVE  FALSE
    <3>1. sock'[s] = sock[s]
      BY <2>0, <2>2 DEF ReceiveJoin, ReceiveReconnect, Close, Wait, Handler, JoinRefused, JoinSeat, ReturnRefused,
           AdmitReturn, PublishReturn, StaleDeparture, GiveUp, Unroute, RecordDeparture
    <3> QED BY <3>1
  <2>3. ASSUME \/ ReceiveJoin(s)
               \/ \E p \in Players : ReceiveReconnect(s, p)
               \/ Close(s) \/ JoinRefused(s) \/ ReturnRefused(s) \/ StaleDeparture(s)
               \/ \E p \in Guests, y \in Seats, start \in BOOLEAN : JoinSeat(s, p, y, start)
               \/ PublishReturn(s) \/ RecordDeparture(s)
        PROVE  FALSE
    <3>1. CASE ReceiveJoin(s) \/ (\E p \in Players : ReceiveReconnect(s, p)) \/ Close(s)
      <4>1. sock[s] = Idle \/ sock[s].phase = "attached"
        BY <3>1 DEF ReceiveJoin, ReceiveReconnect, Close, Unused
      <4>2. Idle.phase = "idle"
        BY DEF Idle
      <4> QED BY <4>1, <4>2
    <3>2. CASE JoinRefused(s) \/ ReturnRefused(s) \/ StaleDeparture(s)
      <4>1. sock' = [sock EXCEPT ![s] = Idle]
        BY <3>2 DEF JoinRefused, ReturnRefused, StaleDeparture, GiveUp
      <4> QED BY <2>0, <4>1 DEF Idle
    <3>3. CASE \E p \in Guests, y \in Seats, start \in BOOLEAN : JoinSeat(s, p, y, start)
      BY <3>3 DEF JoinSeat, Granted
    <3>4. CASE PublishReturn(s) \/ RecordDeparture(s)
      BY <3>4 DEF PublishReturn, RecordDeparture
    <3> QED BY <2>3, <3>1, <3>2, <3>3, <3>4
  <2>4. ASSUME Unroute(s) PROVE FALSE
    BY <2>4 DEF Unroute, Granted
  <2>5. ASSUME NEW t \in Sockets,
               (\E y \in Seats, kind \in {Open, AI} : SetKind(t, y, kind)) \/ Start(t)
        PROVE  FALSE
    BY <2>5 DEF SetKind, Start
  <2>6. CASE Sweep
    <3>1. sock' = sock
      BY <2>6 DEF Sweep, GraceReport, PickCandidate, CommitTerminal, ReapDisconnects, DelistRemoved,
          PruneConnections, LobbyReport, HandleLapsed, CaptureRoutes, ConsumeEntry, PruneCaptured
    <3> QED BY <3>1
  <2>7. CASE Tick
    <3>1. sock'[s].phase = sock[s].phase
      BY <2>0, <2>7 DEF Tick, SockType
    <3> QED BY <3>1
  <2>8. CASE Handler(s)
    BY <2>1, <2>3, <2>4, <2>8 DEF Handler
  <2> QED BY <2>2, <2>3, <2>5, <2>6, <2>7, <2>8 DEF RNext
<1> QED BY <1>1, PresenceTypeCorrect, AbsenceAlwaysTimed, RoutesKept, PTL DEF RSpec, NoLateReturn
=============================================================================
