---------------------------- MODULE SeatPresence ----------------------------
(***************************************************************************)
(* Who is present at the table of one server-run ("Full") game: the seats  *)
(* of its `GameSession', the disconnect records of `ReconnectManager', the *)
(* socket routes of the connection map and the room's lobby entry are four *)
(* views of one fact, written under different locks.  The module has the   *)
(* socket handlers that write them (join, Reconnect, seat mutations,       *)
(* close) and the background task's two sweeps (lapsed grace, lapsed lobby *)
(* entry).                                                                 *)
(*                                                                         *)
(* A handler that needs the session first obtains its handle from the      *)
(* registry (`lock_session') and then queues for the guard, the `lease':   *)
(* the room may leave the registry in between, or, once a terminal is      *)
(* committed, even while a handler holds the guard.  Two handlers give up  *)
(* the processor while they hold it and take two steps here; the others    *)
(* are one.  Time is relative: a record carries the ticks since its        *)
(* disconnect, a waiting frame the ticks since the socket received it.     *)
(***************************************************************************)
EXTENDS Integers, FiniteSets

CONSTANTS
    LastSeat,       \* seats 0..LastSeat, the host at seat 0
    Sockets,        \* transport connections; a closed one is used again
    Host, Guests,   \* player tokens: the host's, and those a join may issue
    Open, AI,       \* occupants that are no player
    Free,           \* the guard of the session is not held
    NoSocket,
    GraceTicks,     \* ReconnectManager.grace_period
    MaxWait,        \* bound: ticks a received frame waits for its handler
    MaxFaults       \* bound: database failures after a terminal's commit

ASSUME PresenceConstants ==
    /\ LastSeat \in Nat \ {0}
    /\ Host \notin Guests
    /\ {Open, AI} \cap ({Host} \cup Guests) = {} /\ Open # AI
    /\ Free \notin Sockets /\ NoSocket \notin Sockets
    /\ GraceTicks \in Nat \ {0}
    /\ MaxWait \in Nat /\ MaxFaults \in Nat

VARIABLES
    registered,   \* the room is in SessionManager.sessions
    started,      \* GameSession.game_started
    occupant,     \* GameSession.player_tokens and ai_seats
    connected,    \* GameSession.connected
    issued,       \* tokens handed out so far
    lease,        \* the holder of the session's guard
    disconnected, \* ReconnectManager.disconnected: ticks since, or None
    route,        \* SharedConnections[game_code]
    listing,      \* the room's lobby entry
    terminal,     \* a disconnect terminal is committed to the database
    faults,       \* such failures so far
    sock,         \* what each transport connection is doing
    sweep         \* where the background task is

session == <<started, occupant, connected, issued>>
rvars == <<registered, started, occupant, connected, issued, lease, disconnected,
           route, listing, terminal, faults, sock, sweep>>
database == <<terminal, faults>>

Seats == 0..LastSeat
Players == {Host} \cup Guests
None == -1
\* Counted no further: past it every waiting frame finds the record expired.
LongAgo == GraceTicks + MaxWait + 1
Ages == 0..LongAgo

Idle == [phase |-> "idle", op |-> "none", seat |-> 0, player |-> Open, age |-> 0]
Resting == [pc |-> "idle", prepared |-> FALSE, captured |-> [x \in Seats |-> NoSocket]]
NoRoutes == [x \in Seats |-> NoSocket]

\* The types, and that the guard of the session excludes: `lease' is the one
\* handler between the two halves of its critical section.
RTypeOK ==
    /\ {registered, started, terminal} \subseteq BOOLEAN
    /\ faults \in 0..MaxFaults
    /\ occupant \in [Seats -> Players \cup {Open, AI}]
    /\ connected \in [Seats -> BOOLEAN]
    /\ issued \in SUBSET Players
    /\ lease \in Sockets \cup {Free}
    /\ disconnected \in [Seats -> Ages \cup {None}]
    /\ route \in [Seats -> Sockets \cup {NoSocket}]
    /\ listing \in {"absent", "present", "away"}
    /\ sock \in [Sockets -> [phase : {"idle", "waiting", "holding", "attached"},
                             op : {"none", "join", "return", "depart"},
                             seat : Seats, player : Players \cup {Open}, age : Ages]]
    /\ sweep \in [pc : {"idle", "reported", "candidate", "decided", "reaped", "delisted",
                        "lapsed", "acted", "captured", "consumed"},
                  prepared : BOOLEAN, captured : [Seats -> Sockets \cup {NoSocket}]]
    /\ \A s \in Sockets : sock[s].phase = "holding" <=> lease = s

\* A room just created: its host sits at seat 0 on its own socket.
RInit ==
    /\ registered = TRUE /\ started = FALSE /\ terminal = FALSE /\ faults = 0
    /\ occupant = [x \in Seats |-> IF x = 0 THEN Host ELSE Open]
    /\ connected = [x \in Seats |-> x = 0]
    /\ issued = {Host}
    /\ lease = Free
    /\ disconnected = [x \in Seats |-> None]
    /\ listing = "present"
    /\ sweep = Resting
    /\ \E s \in Sockets :
          /\ route = [x \in Seats |-> IF x = 0 THEN s ELSE NoSocket]
          /\ sock = [t \in Sockets |->
                        IF t = s THEN [Idle EXCEPT !.phase = "attached", !.player = Host] ELSE Idle]

Seated(x) == occupant[x] \in Players
SeatsOf(p) == {x \in Seats : occupant[x] = p}

-----------------------------------------------------------------------------
(* Frames arrive and wait. *)

\* A channel is new: nothing names it any more.
Unused(s) ==
    /\ sock[s] = Idle
    /\ \A x \in Seats : route[x] # s /\ sweep.captured[x] # s

Wait(s, op, seat, player) ==
    sock' = [sock EXCEPT ![s] =
                [phase |-> "waiting", op |-> op, seat |-> seat, player |-> player, age |-> 0]]

\* lock_session for a JoinGame: the handle is taken from the registry.
ReceiveJoin(s) ==
    /\ Unused(s) /\ registered
    /\ Wait(s, "join", 0, Open)
    /\ UNCHANGED <<registered, session, lease, disconnected, route, listing, database, sweep>>

\* Reconnect: the key stored for the code must be active, then the handle.
ReceiveReconnect(s, p) ==
    /\ Unused(s) /\ registered /\ ~terminal
    /\ p \in issued
    /\ Wait(s, "return", 0, p)
    /\ UNCHANGED <<registered, session, lease, disconnected, route, listing, database, sweep>>

\* The transport closes; an absent game has nothing to tell.
Close(s) ==
    /\ sock[s].phase = "attached"
    /\ IF registered THEN Wait(s, "depart", sock[s].seat, sock[s].player)
                     ELSE sock' = [sock EXCEPT ![s] = Idle]
    /\ UNCHANGED <<registered, session, lease, disconnected, route, listing, database, sweep>>

\* The guard of the session goes to a waiting handler.
Granted(s, op) == lease = Free /\ sock[s].phase = "waiting" /\ sock[s].op = op

\* The handler ends without a change but to its own socket.
GiveUp(s) ==
    /\ sock' = [sock EXCEPT ![s] = Idle]
    /\ UNCHANGED <<registered, session, lease, disconnected, route, listing, database, sweep>>

-----------------------------------------------------------------------------
(* Join. *)

first_open_seat(x) == occupant[x] = Open /\ \A y \in 0..(x - 1) : occupant[y] # Open

is_full == \A x \in Seats : occupant[x] # Open

\* lobby_admission and reject_if_host_away.
JoinAdmitted == listing # "absent" /\ ~is_full /\ connected[0]

\* Refused, or no token is left (the bound on joins).
JoinRefused(s) == Granted(s, "join") /\ (JoinAdmitted => Guests \subseteq issued) /\ GiveUp(s)

\* seat_guest_and_start: the seat, the route and, when the room is full and
\* set to, the start with its delisting.
JoinSeat(s, p, x, start) ==
    /\ Granted(s, "join") /\ JoinAdmitted
    /\ p \in Guests \ issued
    /\ first_open_seat(x)
    /\ start => \A y \in Seats \ {x} : occupant[y] # Open
    /\ issued' = issued \cup {p}
    /\ occupant' = [occupant EXCEPT ![x] = p]
    /\ connected' = [connected EXCEPT ![x] = TRUE]
    /\ route' = [route EXCEPT ![x] = s]
    /\ sock' = [sock EXCEPT ![s] =
                   [phase |-> "attached", op |-> "none", seat |-> x, player |-> p, age |-> 0]]
    /\ started' = (started \/ start)
    /\ listing' = IF start THEN "absent" ELSE listing
    /\ UNCHANGED <<registered, lease, disconnected, database, sweep>>

-----------------------------------------------------------------------------
(* Reconnect. *)

\* ReconnectManager::attempt_reconnect, measured from the frame's receipt.
Expired(x, wait) == disconnected[x] # None /\ disconnected[x] - wait > GraceTicks

\* Mutant: an expired attempt uses the record up.
attempt_reconnect_consuming(x, wait) == [disconnected EXCEPT ![x] = None]

\* Only a successful attempt uses the record up.
attempt_reconnect(x, wait) ==
    IF Expired(x, wait) THEN disconnected ELSE [disconnected EXCEPT ![x] = None]

ReturnRefused(s) ==
    /\ Granted(s, "return")
    /\ \/ /\ SeatsOf(sock[s].player) = {}
          /\ UNCHANGED disconnected
       \/ \E x \in SeatsOf(sock[s].player) :
             /\ Expired(x, sock[s].age)
             /\ disconnected' = attempt_reconnect(x, sock[s].age)
    /\ sock' = [sock EXCEPT ![s] = Idle]
    /\ UNCHANGED <<registered, session, lease, route, listing, database, sweep>>

\* admit_seat_return_while_session_locked.
AdmitReturn(s, x) ==
    /\ Granted(s, "return")
    /\ occupant[x] = sock[s].player
    /\ ~Expired(x, sock[s].age)
    /\ disconnected' = attempt_reconnect(x, sock[s].age)
    /\ connected' = [connected EXCEPT ![x] = TRUE]
    /\ lease' = s
    /\ sock' = [sock EXCEPT ![s].phase = "holding", ![s].seat = x, ![s].age = 0]
    /\ UNCHANGED <<registered, started, occupant, issued, route, listing, database, sweep>>

\* mark_host_returned: nothing on an absent entry.
HostReturned(x) == IF x = 0 /\ ~started /\ listing = "away" THEN "present" ELSE listing

\* install_full_sender_while_state_locked and the listing, before the guard
\* is released.
PublishReturn(s) ==
    LET x == sock[s].seat
    IN  /\ sock[s].phase = "holding" /\ sock[s].op = "return"
        /\ route' = [route EXCEPT ![x] = s]
        /\ listing' = HostReturned(x)
        /\ lease' = Free
        /\ sock' = [sock EXCEPT ![s].phase = "attached", ![s].op = "none"]
        /\ UNCHANGED <<registered, session, disconnected, database, sweep>>

-----------------------------------------------------------------------------
(* Departure. *)

\* Mutant: the close of a replaced socket departs the seat all the same.
OwnsSeat_by_token(s, x) == occupant[x] = sock[s].player

\* disconnect_full_seat_if_current: the token still names the seat and the
\* route is still this socket's.
OwnsSeat(s, x) == occupant[x] = sock[s].player /\ route[x] = s

StaleDeparture(s) == Granted(s, "depart") /\ ~OwnsSeat(s, sock[s].seat) /\ GiveUp(s)

mark_disconnected_at(x) == [connected EXCEPT ![x] = FALSE]

\* depart_full_seat_while_session_locked, up to the session's flag.
Unroute(s) ==
    LET x == sock[s].seat
    IN  /\ Granted(s, "depart") /\ OwnsSeat(s, x)
        /\ route' = [route EXCEPT ![x] = NoSocket]
        /\ connected' = mark_disconnected_at(x)
        /\ lease' = s
        /\ sock' = [sock EXCEPT ![s].phase = "holding"]
        /\ UNCHANGED <<registered, started, occupant, issued, disconnected, listing, database, sweep>>

\* Mutant: only a started game records the disconnect.
record_disconnect_started(x, age) ==
    IF started THEN [disconnected EXCEPT ![x] = age] ELSE disconnected

record_disconnect(x, age) == [disconnected EXCEPT ![x] = age]

\* Its rest: the record, from transport detection time, and the listing.
RecordDeparture(s) ==
    LET x == sock[s].seat
    IN  /\ sock[s].phase = "holding" /\ sock[s].op = "depart"
        /\ disconnected' = record_disconnect(x, sock[s].age)
        /\ listing' = IF x = 0 /\ ~started /\ listing = "present" THEN "away" ELSE listing
        /\ lease' = Free
        /\ sock' = [sock EXCEPT ![s] = Idle]
        /\ UNCHANGED <<registered, session, route, database, sweep>>

-----------------------------------------------------------------------------
(* The host edits the seats. *)

\* full_socket_is_current_while_state_locked for the host's seat.
HostActs(s) ==
    /\ sock[s].phase = "attached" /\ sock[s].seat = 0
    /\ registered /\ lease = Free
    /\ OwnsSeat(s, 0)
    /\ ~started

\* Mutant: a kicked player's route is kept.
RouteAfterEdit_kept(x) == route

RouteAfterEdit(x) == IF Seated(x) THEN [route EXCEPT ![x] = NoSocket] ELSE route

\* SeatMutate with SetKind: kick, or put in and take out an AI player.  The
\* seat's disconnect record is not touched.
SetKind(s, x, kind) ==
    /\ HostActs(s)
    /\ x # 0 /\ occupant[x] # kind
    /\ occupant' = [occupant EXCEPT ![x] = kind]
    /\ connected' = [connected EXCEPT ![x] = (kind = AI)]
    /\ route' = RouteAfterEdit(x)
    /\ UNCHANGED <<registered, started, issued, lease, disconnected, listing, database, sock, sweep>>

\* SeatMutate with Start.
Start(s) ==
    /\ HostActs(s)
    /\ is_full
    /\ started' = TRUE
    /\ listing' = "absent"
    /\ UNCHANGED <<registered, occupant, connected, issued, lease, disconnected, route,
                   database, sock, sweep>>

-----------------------------------------------------------------------------
(* The background task: lapsed grace. *)

Goto(pc) == sweep' = [sweep EXCEPT !.pc = pc]

\* ReconnectManager::check_expired, by game code.
GraceReport ==
    /\ sweep.pc = "idle"
    /\ \E x \in Seats : disconnected[x] > GraceTicks
    /\ Goto("reported")
    /\ UNCHANGED <<registered, session, lease, disconnected, route, listing, database, sock>>

\* prepare_disconnect_terminals: a started game that nobody holds.
PickCandidate ==
    /\ sweep.pc = "reported"
    /\ sweep' = IF registered /\ lease = Free /\ started
                THEN [sweep EXCEPT !.pc = "candidate"] ELSE [sweep EXCEPT !.pc = "decided"]
    /\ UNCHANGED <<registered, session, lease, disconnected, route, listing, database, sock>>

\* Its database transaction and the read of the deliveries.  A failure before
\* the commit, one after it and a retry's own failure all leave the game
\* unprepared; a retry with the same artifact finds it committed already.
CommitTerminal(outcome) ==
    LET late == outcome = "unread" \/ (outcome = "refused" /\ terminal)
    IN  /\ sweep.pc = "candidate"
        /\ late => faults < MaxFaults
        /\ terminal' = (terminal \/ outcome # "refused")
        /\ faults' = IF late THEN faults + 1 ELSE faults
        /\ sweep' = [sweep EXCEPT !.pc = "decided", !.prepared = (outcome = "read")]
        /\ UNCHANGED <<registered, session, lease, disconnected, route, listing, sock>>

\* A committed terminal removes the room whoever holds it.
MayRemove == sweep.prepared \/ (lease = Free /\ ~started)


\* Mutant: records of a room the registry no longer holds are kept.
RecordsAfterReap_kept == IF registered /\ MayRemove THEN [x \in Seats |-> None] ELSE disconnected

\* remove_game erases the records, and so does the sweep for a room that is gone.
RecordsAfterReap == IF ~registered \/ MayRemove THEN [x \in Seats |-> None] ELSE disconnected

\* reap_expired_disconnects.  The records are not read again.
ReapDisconnects ==
    /\ sweep.pc = "decided"
    /\ registered' = (registered /\ ~MayRemove)
    /\ disconnected' = RecordsAfterReap
    /\ sweep' = IF registered /\ MayRemove THEN [sweep EXCEPT !.pc = "reaped"] ELSE Resting
    /\ UNCHANGED <<session, lease, route, listing, database, sock>>

\* Mutant: only a row that is shown is taken out.
DelistRemoved_shown ==
    /\ sweep.pc = "reaped"
    /\ listing' = IF listing = "present" THEN "absent" ELSE listing
    /\ Goto("delisted")
    /\ UNCHANGED <<registered, session, lease, disconnected, route, database, sock>>

\* delist_removed_sessions.
DelistRemoved ==
    /\ sweep.pc = "reaped"
    /\ listing' = "absent"
    /\ Goto("delisted")
    /\ UNCHANGED <<registered, session, lease, disconnected, route, database, sock>>

\* prune_game_connections.
PruneConnections ==
    /\ sweep.pc = "delisted"
    /\ route' = NoRoutes
    /\ sweep' = Resting
    /\ UNCHANGED <<registered, session, lease, disconnected, listing, database, sock>>

-----------------------------------------------------------------------------
(* The background task: a lapsed lobby entry. *)

\* Any entry lapses: only this sweep refreshes those of server-run rooms.
LobbyReport ==
    /\ sweep.pc = "idle"
    /\ listing # "absent"
    /\ Goto("lapsed")
    /\ UNCHANGED <<registered, session, lease, disconnected, route, listing, database, sock>>

\* A connected host, or one inside its grace, is waiting.
HostWaiting == connected[0] \/ disconnected[0] # None

\* handle_expired_lobby_games: contended rooms and waiting hosts are left alone,
\* an abandoned unstarted room is removed, a started one loses its entry only.
HandleLapsed ==
    /\ sweep.pc = "lapsed"
    /\ LET retired == registered /\ lease = Free /\ ~started /\ ~HostWaiting
           acted == ~registered \/ (lease = Free /\ (started \/ ~HostWaiting))
       IN  /\ registered' = (registered /\ ~retired)
           /\ disconnected' = IF retired THEN [x \in Seats |-> None] ELSE disconnected
           /\ sweep' = IF acted THEN [sweep EXCEPT !.pc = "acted"] ELSE Resting
    /\ UNCHANGED <<session, lease, route, listing, database, sock>>

\* ExpiredLobbyRoutes::capture.
CaptureRoutes ==
    /\ sweep.pc = "acted"
    /\ sweep' = [sweep EXCEPT !.pc = "captured", !.captured = route]
    /\ UNCHANGED <<registered, session, lease, disconnected, route, listing, database, sock>>

\* consume_lobby_expiry_sweep.
ConsumeEntry ==
    /\ sweep.pc = "captured"
    /\ listing' = "absent"
    /\ Goto("consumed")
    /\ UNCHANGED <<registered, session, lease, disconnected, route, database, sock>>

\* ExpiredLobbyRoutes::prune: the routes that are still the captured ones.
PruneCaptured ==
    /\ sweep.pc = "consumed"
    /\ route' = [x \in Seats |-> IF route[x] = sweep.captured[x] THEN NoSocket ELSE route[x]]
    /\ sweep' = Resting
    /\ UNCHANGED <<registered, session, lease, disconnected, listing, database, sock>>

-----------------------------------------------------------------------------
Older(age) == IF age = LongAgo THEN age ELSE age + 1

\* The clock, for records and for waiting frames.
Tick ==
    /\ \A s \in Sockets : sock[s].op = "return" /\ sock[s].phase = "waiting" => sock[s].age < MaxWait
    /\ disconnected' = [x \in Seats |-> IF disconnected[x] = None THEN None ELSE Older(disconnected[x])]
    /\ sock' = [s \in Sockets |->
                   IF sock[s].op \in {"return", "depart"} /\ sock[s].phase # "attached"
                      /\ (sock[s].op = "return" => sock[s].phase = "waiting")
                   THEN [sock[s] EXCEPT !.age = Older(@)] ELSE sock[s]]
    /\ UNCHANGED <<registered, session, lease, route, listing, database, sweep>>

Handler(s) ==
    \/ JoinRefused(s)
    \/ \E p \in Guests, x \in Seats, start \in BOOLEAN : JoinSeat(s, p, x, start)
    \/ ReturnRefused(s)
    \/ \E x \in Seats : AdmitReturn(s, x)
    \/ PublishReturn(s)
    \/ StaleDeparture(s)
    \/ Unroute(s)
    \/ RecordDeparture(s)

Sweep ==
    \/ GraceReport \/ PickCandidate \/ \E outcome \in {"refused", "unread", "read"} : CommitTerminal(outcome)
    \/ ReapDisconnects \/ DelistRemoved \/ PruneConnections
    \/ LobbyReport \/ HandleLapsed \/ CaptureRoutes \/ ConsumeEntry \/ PruneCaptured

RNext ==
    \/ \E s \in Sockets :
          \/ ReceiveJoin(s)
          \/ \E p \in Players : ReceiveReconnect(s, p)
          \/ Close(s)
          \/ Handler(s)
          \/ \E x \in Seats, kind \in {Open, AI} : SetKind(s, x, kind)
          \/ Start(s)
    \/ Sweep
    \/ Tick

RSpec == RInit /\ [][RNext]_rvars

\* The background task runs on an interval, and a handler that was granted the
\* guard, or waits for it, gets on.
RFairSpec ==
    /\ RSpec
    /\ WF_rvars(Sweep)
    /\ WF_rvars(Tick)
    /\ \A s \in Sockets : WF_rvars(Handler(s))

-----------------------------------------------------------------------------
(* Properties. *)

\* The session's views are compared when no handler is between two of them.
Settled == registered /\ lease = Free

\* An absent player is always on the clock: a seated player that is not
\* connected has a disconnect record, without which no sweep would ever
\* forfeit the game and no other path would notice.
AbsenceTimed ==
    Settled => \A x \in Seats : Seated(x) /\ ~connected[x] => disconnected[x] # None

\* A route leads to the socket of the player who holds the seat now, or to
\* one whose departure is on its way: a replaced, kicked or departed socket
\* is never sent another player's view.
RouteOwned ==
    registered =>
        \A x \in Seats : route[x] # NoSocket =>
            LET k == sock[route[x]]
            IN  /\ k.seat = x /\ k.player = occupant[x]
                /\ k.phase = "attached" \/ k.op = "depart"

\* A socket is cut off from its seat only by its own close, by a newer socket
\* of the same player, or by a kick: not by the late close of a socket it
\* replaced, and not by a sweep of a room that goes on waiting for players.
KeepsItsRoute ==
    [][\A x \in Seats :
        route[x] # NoSocket /\ route'[x] = NoSocket /\ registered /\ ~started
        => sock[route[x]].op = "depart" \/ occupant'[x] # occupant[x]]_rvars

\* Nothing is listed that cannot be joined: once the background task rests, a
\* room that left the registry, or started, has no lobby entry.
NoGhostListing ==
    (sweep.pc = "idle" /\ ~registered) \/ started => listing = "absent"

\* A player whose grace had lapsed when its Reconnect was received is not
\* seated again, however often it tries and whatever the sweep defers.
NoLateReturn ==
    [][\A s \in Sockets : \A x \in Seats :
        /\ sock[s].phase = "waiting" /\ sock'[s].phase = "holding"
        /\ sock[s].op = "return" /\ sock'[s].seat = x
        /\ registered /\ ~connected[x]
        => disconnected[x] # None /\ disconnected[x] - sock[s].age <= GraceTicks]_rvars


\* "A code this call declines to act on keeps its reconnect records, so the next
\* tick reports it again", "retried rather than stranded" (main.rs): a committed
\* terminal is carried out in the end, whatever the sweep declined at first.
TerminalCarriedOut == terminal ~> ~registered

\* Records of a room that is gone are consumed, those written by a departure
\* that overtook the removal included.
RecordsConsumed ==
    (~registered /\ \E x \in Seats : disconnected[x] # None)
        ~> (\A x \in Seats : disconnected[x] = None)
=============================================================================
