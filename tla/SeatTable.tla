----------------------------- MODULE SeatTable ------------------------------
(***************************************************************************)
(* The seats of a server-run room while it is being filled.  A seat is a   *)
(* number, and what is known of it is spread over arrays of the            *)
(* `GameSession' (tokens, presence, decks, deck choices, AI seats,         *)
(* reservations), the registry's token index, the connection map and the   *)
(* sockets' own identities.  The host's seat mutations go through          *)
(* `seat_reducer::apply', whose delta `apply_seat_delta' writes back; a    *)
(* removal renumbers the seats behind the removed one.                     *)
(*                                                                         *)
(* A handler holds the guard of the session for its edit, so an edit is    *)
(* one step; the seat count it publishes to the lobby is another, after    *)
(* the guard is released.  Grace periods and sweeps are in SeatPresence.   *)
(***************************************************************************)
EXTENDS Integers, FiniteSets

CONSTANTS
    MaxSeats,       \* seats of the room when it is created
    MinPlayers,     \* format.min_players
    Sockets,
    Host, Guests,   \* player tokens: the host's, and those joins may issue
    BotDecks, Random,
    Bot, NoToken, NoDeck, NoSocket

ASSUME TableConstants ==
    /\ MaxSeats \in Nat /\ MinPlayers \in 2..MaxSeats
    /\ Host \notin Guests
    /\ {Bot, NoToken, NoDeck, Random} \cap ({Host} \cup Guests \cup BotDecks) = {}
    /\ Bot # NoToken /\ Random # NoDeck
    /\ BotDecks \cap ({Host} \cup Guests) = {}
    /\ {"HostHuman", "JoinedHuman", "WaitingHuman"} \cap (BotDecks \cup {Random}) = {}
    /\ NoSocket \notin Sockets

VARIABLES
    player_count, tokens, connected, decks, deck_choices, ai_seats,
    reservations,   \* by the socket that holds it: the seat, and whether it lapsed
    started,        \* GameSession.game_started
    issued,         \* tokens handed out so far
    indexed,        \* SessionManager.token_to_game
    route,          \* SharedConnections[game_code]
    sock,           \* each socket's SocketIdentity
    count,          \* the seat count a handler is about to publish
    listing,        \* the lobby entry's current_players and max_players
    chair           \* which chair bears the number: not in the program

arrays == <<player_count, tokens, connected, decks, deck_choices, ai_seats, chair>>
table == <<arrays, reservations, started, issued, indexed>>
tvars == <<table, route, sock, count, listing>>

Players == {Host} \cup Guests
None == -1
Numbers == 0..(MaxSeats - 1)
Seats == 0..(player_count - 1)
Choices == BotDecks \cup {Random}

Away == [seat |-> None, token |-> NoToken]
NoHold == [seat |-> None, lapsed |-> FALSE]
NoCount == [step |-> "none", current |-> 0, max |-> 0]
Delisted == [current |-> 0, max |-> 0]

\* Every array has one entry per seat, the lobby shows a number of seats, and a
\* token resolves to the room exactly while it holds a seat of it.
TTypeOK ==
    /\ player_count \in MinPlayers..MaxSeats
    /\ tokens \in [Seats -> Players \cup {NoToken}]
    /\ connected \in [Seats -> BOOLEAN]
    /\ decks \in [Seats -> Players \cup BotDecks \cup {NoDeck}]
    /\ deck_choices \in [Seats -> Players \cup Choices \cup {NoDeck}]
    /\ ai_seats \subseteq Seats \ {0}
    /\ reservations \in [Sockets -> [seat : Numbers \cup {None}, lapsed : BOOLEAN]]
    /\ started \in BOOLEAN
    /\ issued \subseteq Players
    /\ indexed = {tokens[i] : i \in Seats} \ {NoToken} /\ indexed \subseteq issued
    /\ route \in [Numbers -> Sockets \cup {NoSocket}]
    /\ sock \in [Sockets -> [seat : Numbers \cup {None}, token : Players \cup {NoToken}]]
    /\ count \in [Sockets -> [step : {"none", "read", "publish"}, current : 0..MaxSeats, max : 0..MaxSeats]]
    /\ listing \in [current : 0..MaxSeats, max : 0..MaxSeats]
    /\ chair \in [Seats -> Numbers]

\* The host has created the room and is attached to seat 0.
TInit ==
    /\ player_count = MaxSeats
    /\ tokens = [i \in Numbers |-> IF i = 0 THEN Host ELSE NoToken]
    /\ connected = [i \in Numbers |-> i = 0]
    /\ decks = [i \in Numbers |-> IF i = 0 THEN Host ELSE NoDeck]
    /\ deck_choices = decks
    /\ ai_seats = {}
    /\ reservations = [s \in Sockets |-> NoHold]
    /\ started = FALSE
    /\ issued = {Host} /\ indexed = {Host}
    /\ \E s \in Sockets :
          /\ route = [i \in Numbers |-> IF i = 0 THEN s ELSE NoSocket]
          /\ sock = [t \in Sockets |-> IF t = s THEN [seat |-> 0, token |-> Host] ELSE Away]
    /\ count = [s \in Sockets |-> NoCount]
    /\ listing = [current |-> 1, max |-> MaxSeats]
    /\ chair = [i \in Numbers |-> i]

-----------------------------------------------------------------------------
(* The session's own view of its seats. *)

Open(i) == tokens[i] = NoToken /\ i \notin ai_seats

\* GameSession::seat_state.
SeatKindOf(i) ==
    CASE i = 0 -> "HostHuman"
      [] i # 0 /\ i \in ai_seats -> IF deck_choices[i] = NoDeck THEN Random ELSE deck_choices[i]
      [] i # 0 /\ i \notin ai_seats /\ tokens[i] # NoToken -> "JoinedHuman"
      [] OTHER -> "WaitingHuman"

is_full == \A i \in Seats : ~Open(i)

current_player_count(held) == Cardinality({i \in Seats : ~Open(i) \/ \E s \in Sockets : held[s].seat = i})

\* cleanup_expired_reservations.
Unlapsed == [s \in Sockets |-> IF reservations[s].lapsed THEN NoHold ELSE reservations[s]]
HeldUnlapsed(i) == \E s \in Sockets : Unlapsed[s].seat = i

\* Mutant: a seat that is only reserved is given away.
first_open_seat_unreserved(i) == i \in Seats /\ Open(i) /\ \A j \in 0..(i - 1) : ~Open(j)

\* The first seat that is neither taken nor reserved.
first_open_seat(i) ==
    /\ i \in Seats /\ Open(i) /\ ~HeldUnlapsed(i)
    /\ \A j \in 0..(i - 1) : ~Open(j) \/ HeldUnlapsed(j)

player_for_token(p) == {i \in Seats : tokens[i] = p /\ p # NoToken}

-----------------------------------------------------------------------------
(* A socket's handler publishes the seat count when the guard is released. *)

Busy(s) == count[s].step # "none"

\* A channel that is not attached, and that no route names any more.
Fresh(s) == ~Busy(s) /\ sock[s] = Away /\ \A i \in Numbers : route[i] # s

Publish(s, current, max) == count' = [count EXCEPT ![s] = [step |-> "publish", current |-> current, max |-> max]]
Recount(s) == count' = [count EXCEPT ![s] = [NoCount EXCEPT !.step = "read"]]

\* The count is read under a guard of its own after a reservation changed; when
\* a socket closes, what lapsed is cleaned up first.
ReadCount(s) ==
    /\ count[s].step = "read"
    /\ reservations' \in {reservations, Unlapsed}
    /\ Publish(s, current_player_count(reservations'), 0)
    /\ UNCHANGED <<arrays, started, issued, indexed, route, sock, listing>>

\* set_current_players and, after a seat mutation, set_max_players: nothing
\* on an absent entry.
SetListing(s) ==
    /\ count[s].step = "publish"
    /\ listing' = IF listing = Delisted THEN listing
                  ELSE [current |-> count[s].current,
                        max |-> IF count[s].max = 0 THEN listing.max ELSE count[s].max]
    /\ count' = [count EXCEPT ![s] = NoCount]
    /\ UNCHANGED <<table, route, sock>>

-----------------------------------------------------------------------------
(* Reservations. *)

\* lobby_admission, reject_if_host_away, and not started.
Admits == listing # Delisted /\ connected[0] /\ ~started

\* LookupJoinTarget with `reserve'.
Reserve(s, i) ==
    /\ Fresh(s) /\ Unlapsed[s] = NoHold
    /\ Admits /\ first_open_seat(i)
    /\ reservations' = [Unlapsed EXCEPT ![s] = [seat |-> i, lapsed |-> FALSE]]
    /\ Recount(s)
    /\ UNCHANGED <<arrays, started, issued, indexed, route, sock, listing>>

\* LookupJoinTarget with `release_reservation_token', or the socket closes.
Release(s) ==
    /\ Fresh(s) /\ reservations[s] # NoHold
    /\ reservations' = [reservations EXCEPT ![s] = NoHold]
    /\ Recount(s)
    /\ UNCHANGED <<arrays, started, issued, indexed, route, sock, listing>>

\* A minute passes for a public reservation; it stays until it is cleaned up.
Lapse(s) ==
    /\ reservations[s] # NoHold /\ ~reservations[s].lapsed
    /\ reservations' = [reservations EXCEPT ![s].lapsed = TRUE]
    /\ UNCHANGED <<arrays, started, issued, indexed, route, sock, count, listing>>

\* A request that is refused has cleaned up all the same.
Refused(s) ==
    /\ Fresh(s) /\ connected[0]
    /\ reservations' = Unlapsed
    /\ UNCHANGED <<arrays, started, issued, indexed, route, sock, count, listing>>

-----------------------------------------------------------------------------
(* Joins, departures, returns. *)

\* start_game refuses a table with a seat that has no deck.
Startable == \A i \in Seats : decks'[i] # NoDeck

\* join_with_reservation and index_token, then the start or the route.
Join(s, p, i, start) ==
    /\ Fresh(s) /\ Admits
    /\ p \in Guests \ issued
    /\ IF reservations[s] = NoHold THEN first_open_seat(i)
                                   ELSE Unlapsed[s].seat = i
    /\ start => \A j \in Seats \ {i} : ~Open(j)
    /\ reservations' = [Unlapsed EXCEPT ![s] = NoHold]
    /\ tokens' = [tokens EXCEPT ![i] = p]
    /\ connected' = [connected EXCEPT ![i] = TRUE]
    /\ decks' = [decks EXCEPT ![i] = p]
    /\ deck_choices' = [deck_choices EXCEPT ![i] = p]
    /\ start => Startable
    /\ started' = start
    /\ issued' = issued \cup {p} /\ indexed' = indexed \cup {p}
    /\ route' = [route EXCEPT ![i] = s]
    /\ sock' = [sock EXCEPT ![s] = [seat |-> i, token |-> p]]
    /\ IF start THEN listing' = Delisted /\ UNCHANGED count
                ELSE /\ Publish(s, Cardinality({j \in Seats : ~Open(j) \/ j = i \/ HeldUnlapsed(j)}), 0)
                     /\ UNCHANGED listing
    /\ UNCHANGED <<player_count, ai_seats, chair>>

\* full_seat_matches_session and full_sender_matches.
Current(s) == sock[s].seat \in player_for_token(sock[s].token) /\ route[sock[s].seat] = s

\* The socket closes: disconnect_full_seat_if_current.
Depart(s) ==
    /\ ~Busy(s) /\ sock[s] # Away
    /\ sock' = [sock EXCEPT ![s] = Away]
    /\ IF Current(s)
       THEN /\ route' = [route EXCEPT ![sock[s].seat] = NoSocket]
            /\ connected' = [connected EXCEPT ![sock[s].seat] = FALSE]
       ELSE UNCHANGED <<route, connected>>
    /\ UNCHANGED <<player_count, tokens, decks, deck_choices, ai_seats, chair,
                   reservations, started, issued, indexed, count, listing>>

\* Reconnect with a token the registry still knows, inside its grace period.
Return(s, p, i) ==
    /\ Fresh(s) /\ reservations[s] = NoHold
    /\ i \in player_for_token(p)
    /\ connected' = [connected EXCEPT ![i] = TRUE]
    /\ route' = [route EXCEPT ![i] = s]
    /\ sock' = [sock EXCEPT ![s] = [seat |-> i, token |-> p]]
    /\ UNCHANGED <<player_count, tokens, decks, deck_choices, ai_seats, chair,
                   reservations, started, issued, indexed, count, listing>>

-----------------------------------------------------------------------------
(* seat_reducer::apply: a delta, and the kinds of the seats after it. *)

Delta(kinds, removed, invalidated, removed_ai, new_ai) ==
    [kinds |-> kinds, removed |-> removed, invalidated |-> invalidated,
     removed_ai |-> removed_ai, new_ai |-> new_ai]

KindsNow == [i \in Seats |-> SeatKindOf(i)]
NoChange == Delta(KindsNow, None, {}, {}, {})

\* SetKind of a seat to `kind', with the deck an AI player's choice resolves to.
apply_set_kind(i, kind, deck) ==
    Delta([KindsNow EXCEPT ![i] = kind], None,
          IF SeatKindOf(i) = "JoinedHuman" THEN {tokens[i]} ELSE {},
          IF SeatKindOf(i) \in Choices THEN {i} ELSE {},
          IF kind \in Choices THEN {[seat |-> i, deck |-> deck]} ELSE {})

\* Vec::remove.
apply_remove(i) ==
    Delta([j \in 0..(player_count - 2) |-> SeatKindOf(IF j < i THEN j ELSE j + 1)], i, {},
          IF SeatKindOf(i) \in Choices THEN {i} ELSE {}, {})

-----------------------------------------------------------------------------
(* apply_seat_delta. *)

\* Mutant: the seats behind the removed one keep their numbers.
old_to_new_kept(d, i) == IF i = d.removed THEN None ELSE i

old_to_new(d, i) ==
    IF d.removed = None \/ i < d.removed THEN i
    ELSE IF i = d.removed THEN None ELSE i - 1

\* Mutant: the AI seats the delta removed are cleared by their old numbers.
ClearedDecks_raw(d) == d.removed_ai \ {n.seat : n \in d.new_ai}

\* removed_ai has numbers from before the renumbering.
ClearedDecks(d) ==
    {old_to_new(d, i) : i \in d.removed_ai} \ ({n.seat : n \in d.new_ai} \cup {None})

\* The arrays, entry by entry from their old places, then the seats that hold
\* no human, then the decks of AI players that came and went.
ApplyDelta(d) ==
    LET after == DOMAIN d.kinds
        from(f, j, none) == IF \E i \in Seats : old_to_new(d, i) = j
                            THEN f[CHOOSE i \in Seats : old_to_new(d, i) = j] ELSE none
        waiting == {j \in after : d.kinds[j] = "WaitingHuman"}
        staffed == {j \in after : d.kinds[j] \in Choices}
        new(j) == {n \in d.new_ai : n.seat = j}
        moved(h) == [h EXCEPT !.seat = IF @ = None THEN None ELSE old_to_new(d, @)]
    IN  /\ player_count' = Cardinality(after)
        /\ tokens' = [j \in after |-> IF j \in waiting \cup staffed THEN NoToken ELSE from(tokens, j, NoToken)]
        /\ connected' = [j \in after |-> IF j \in waiting THEN FALSE
                                         ELSE IF j \in staffed THEN TRUE ELSE from(connected, j, FALSE)]
        /\ decks' = [j \in after |->
                        IF new(j) # {} THEN (CHOOSE n \in new(j) : TRUE).deck
                        ELSE IF j \in waiting \cup ClearedDecks(d) THEN NoDeck ELSE from(decks, j, NoDeck)]
        /\ deck_choices' = [j \in after |->
                        IF new(j) # {} THEN d.kinds[j]
                        ELSE IF j \in waiting \cup ClearedDecks(d) THEN NoDeck ELSE from(deck_choices, j, NoDeck)]
        /\ ai_seats' = staffed
        /\ reservations' = [s \in Sockets |->
                        IF moved(reservations[s]).seat \in {None} \cup waiting \cup staffed
                        THEN NoHold ELSE moved(reservations[s])]
        /\ chair' = [j \in after |-> chair[CHOOSE i \in Seats :
                        i # d.removed /\ j = IF d.removed # None /\ i > d.removed THEN i - 1 ELSE i]]

-----------------------------------------------------------------------------
(* SeatMutate. *)

HostActs(s) == ~Busy(s) /\ sock[s].seat = 0 /\ Current(s) /\ ~started

\* Mutant: the tokens a mutation invalidated stay in the index.
Unindex_not(d) == indexed

Unindex(d) == indexed \ d.invalidated

\* The kicked players' routes, by the seats they had.
Unroute(kicked) == [i \in Numbers |-> IF i \in kicked THEN NoSocket ELSE route[i]]

Mutate(s, d) ==
    /\ ApplyDelta(d)
    /\ indexed' = Unindex(d)
    /\ route' = Unroute({i \in Seats : tokens[i] \in d.invalidated})
    /\ Publish(s, Cardinality({j \in DOMAIN d.kinds :
                     tokens'[j] # NoToken \/ j \in ai_seats' \/ \E t \in Sockets : reservations'[t].seat = j}),
               Cardinality(DOMAIN d.kinds))
    /\ UNCHANGED <<started, issued, sock, listing>>

\* The transitions the reducer accepts; an AI player may be set anew with the
\* same choice, for another difficulty.
SetKind(s, i, kind, deck) ==
    /\ HostActs(s)
    /\ i \in Seats \ {0}
    /\ \/ kind = "WaitingHuman" /\ SeatKindOf(i) # kind /\ deck = NoDeck
       \/ kind = Random /\ deck \in BotDecks
       \/ kind \in BotDecks /\ deck = kind
    /\ Mutate(s, apply_set_kind(i, kind, deck))

\* The seat is of that kind already, or not of the kind the host expected:
\* an empty delta, which is applied like any other.
SetKindStale(s) == HostActs(s) /\ Mutate(s, NoChange)

RemoveAllowed(i) ==
    i \in Seats \ {0} /\ player_count > MinPlayers /\ SeatKindOf(i) \in Choices \cup {"WaitingHuman"}

Remove(s, i) == HostActs(s) /\ RemoveAllowed(i) /\ Mutate(s, apply_remove(i))

\* Start: refused by the reducer unless full, by start_game without decks.
Start(s) ==
    /\ HostActs(s) /\ is_full
    /\ ApplyDelta(NoChange)
    /\ Startable
    /\ started' = TRUE
    /\ listing' = Delisted
    /\ UNCHANGED <<issued, indexed, route, sock, count>>

-----------------------------------------------------------------------------
TNext ==
    \E s \in Sockets :
        \/ ReadCount(s) \/ SetListing(s)
        \/ \E i \in Numbers : Reserve(s, i)
        \/ Release(s) \/ Lapse(s) \/ Refused(s)
        \/ \E p \in Guests, i \in Numbers, start \in BOOLEAN : Join(s, p, i, start)
        \/ Depart(s)
        \/ \E p \in Players, i \in Numbers : Return(s, p, i)
        \/ \E i \in Numbers, kind \in Choices \cup {"WaitingHuman"}, deck \in BotDecks \cup {NoDeck} :
              SetKind(s, i, kind, deck)
        \/ SetKindStale(s)
        \/ \E i \in Numbers : Remove(s, i)
        \/ Start(s)

TSpec == TInit /\ [][TNext]_tvars

-----------------------------------------------------------------------------
(* Properties. *)

Roster == INSTANCE SeatRoster WITH
    Chairs <- Numbers, Head <- 0, Nobody <- NoToken, begun <- started,
    chairs <- [c \in {chair[i] : i \in Seats} |->
                 LET i == CHOOSE j \in Seats : chair[j] = c
                 IN  [who |-> IF i \in ai_seats THEN Bot ELSE tokens[i], deck |-> decks[i],
                      choice |-> deck_choices[i], online |-> connected[i]]]

\* The arrays, renumbered and rewritten piecemeal, behave as chairs: whatever
\* is done to one seat, nobody else changes place, deck, choice or presence.
ArraysAreChairs == Roster!RosterSpec

\* A taken seat has a deck and the choice it came from, which is its own
\* player's; an open seat has neither, so that nobody starts with a deck that
\* was left behind and no start is refused for a deck that was lost.
DecksPaired ==
    \A i \in Seats :
        IF i \in ai_seats THEN Roster!Fits(decks[i], deck_choices[i])
        ELSE LET owner == IF tokens[i] = NoToken THEN NoDeck ELSE tokens[i]
             IN  decks[i] = owner /\ deck_choices[i] = owner

\* A reservation that has not lapsed is good: it is for an open seat of the
\* table that nobody else has reserved.
HoldIsGood ==
    \A s \in Sockets : reservations[s].seat # None =>
        /\ reservations[s].seat \in Seats
        /\ ~reservations[s].lapsed => Open(reservations[s].seat)
        /\ \A t \in Sockets \ {s} : reservations[t].seat # reservations[s].seat

\* "routes an open guest connection by its current seat after pregame
\* renumbering": what is sent to a player's seat reaches no other player.
RoutedBySeat ==
    \A i \in Seats :
        tokens[i] # NoToken /\ route[i] # NoSocket /\ sock[route[i]] # Away => sock[route[i]].token = tokens[i]
=============================================================================
