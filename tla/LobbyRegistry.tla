---------------------------- MODULE LobbyRegistry ----------------------------
(***************************************************************************)
(* The lobby's listing registry: `LobbyManager` of                         *)
(* crates/lobby-broker/src/lobby.rs, as operators on its map.              *)
(*                                                                         *)
(* A registry g is a function whose domain is the set of listed codes.     *)
(* Time is kept relative to now, so that it needs no bound: a listing      *)
(* carries the age of its liveness clock (now - last_seen, in ticks, not   *)
(* counted past TimeoutTicks + 1) and each reservation the ticks it has    *)
(* left (0: its expires_at_ms has passed).  Names, formats, peer ids and   *)
(* passwords are left out: they decide only whether a frame is refused.    *)
(***************************************************************************)
EXTENDS Integers, FiniteSets

CONSTANTS
    Codes,             \* game codes
    Tokens,            \* seat-reservation tokens
    Commits,           \* build commits, UnknownCommit among them
    UnknownCommit,     \* the empty build commit of a legacy client
    MaxSeats,          \* largest table a host asks for (6 in the code)
    RefreshTicks,      \* LIVENESS_REFRESH_SECS
    TimeoutTicks,      \* the reaper's timeout_secs (300)
    ReservationTicks   \* PUBLIC_SEAT_RESERVATION_MS

ASSUME RegistryConstants ==
    /\ UnknownCommit \in Commits
    /\ IsFiniteSet(Tokens)
    /\ MaxSeats \in Nat /\ MaxSeats >= 2
    /\ RefreshTicks \in Nat \ {0}
    /\ TimeoutTicks \in Nat \ {0}
    /\ ReservationTicks \in Nat \ {0}

Lesser(a, b) == IF a < b THEN a ELSE b
Greater(a, b) == IF a > b THEN a ELSE b

\* f is a HashMap<D, R>: a function from some of D to R.
IsMap(f, D, R) == \E S \in SUBSET D : f \in [S -> R]

\* LobbyReservation map of one listing: token -> ticks left.
Reservations == UNION {[S -> 0..ReservationTicks] : S \in SUBSET Tokens}

\* LobbyGameMeta, whose table never counts more players than it has seats.
Meta == [generation : Nat, public : BOOLEAN, commit : Commits,
         current : 0..MaxSeats, max : 1..MaxSeats,
         reservations : Reservations, age : 0..(TimeoutTicks + 1)]
Listing == {m \in Meta : m.current <= m.max}

\* LobbyRegistration: the identity of one listing under its code.
Registration == [code : Codes, generation : Nat]

EmptyMap == [x \in {} |-> 0]

Without(f, S) == [x \in (DOMAIN f) \ S |-> f[x]]
With(f, x, y) == [z \in (DOMAIN f) \cup {x} |-> IF z = x THEN y ELSE f[z]]

-----------------------------------------------------------------------------
(* Identity. *)

\* Mutant: a listing is identified by its code alone.
is_current_by_code(g, r) == r.code \in DOMAIN g

is_current(g, r) == r.code \in DOMAIN g /\ g[r.code].generation = r.generation

RegistrationOf(g, code) == [code |-> code, generation |-> g[code].generation]

unregister_registration(g, r) == IF is_current(g, r) THEN Without(g, {r.code}) ELSE g

register_game(g, code, generation, public, commit, seats) ==
    With(g, code, [generation |-> generation, public |-> public, commit |-> commit,
                   current |-> 1, max |-> seats, reservations |-> EmptyMap, age |-> 0])

-----------------------------------------------------------------------------
(* Liveness of a listing. *)

liveness_refresh_due(g, r) == is_current(g, r) /\ g[r.code].age >= RefreshTicks

refresh_liveness(g, r) ==
    IF liveness_refresh_due(g, r) THEN [g EXCEPT ![r.code].age = 0] ELSE g

\* Mutant: reports a listing one tick early.
check_expired_early(g) ==
    {RegistrationOf(g, code) : code \in {k \in DOMAIN g : g[k].age >= TimeoutTicks}}

\* The expiry report: nothing is removed by it.
check_expired(g) ==
    {RegistrationOf(g, code) : code \in {k \in DOMAIN g : g[k].age > TimeoutTicks}}

\* One tick of the wall clock, as every stored timestamp sees it.
Aged(g) ==
    [code \in DOMAIN g |->
        [g[code] EXCEPT
            !.age = Lesser(@ + 1, TimeoutTicks + 1),
            !.reservations = [t \in DOMAIN @ |-> Greater(@[t] - 1, 0)]]]

-----------------------------------------------------------------------------
(* Seat reservations. *)

cleanup_expired_for(m) ==
    [m EXCEPT !.reservations = Without(@, {t \in DOMAIN @ : @[t] = 0})]

cleanup_expired_reservations(g, code) == [g EXCEPT ![code] = cleanup_expired_for(@)]

\* Seats a listing counts as taken: seated players and pending reservations.
Occupied(m) == m.current + Cardinality(DOMAIN m.reservations)

\* The guard of reserve_seat, after its cleanup.
SeatFree(m) == Occupied(m) < m.max

reserve_seat(g, code, token) ==
    [g EXCEPT ![code].reservations = With(@, token, ReservationTicks)]

release_reservation(g, code, token) ==
    [g EXCEPT ![code].reservations = Without(@, {token})]

\* Mutant: nothing is released.
release_no_reservations(g, pairs) == g

\* Every held pair at once; pairs whose listing or token is gone change nothing.
release_reservations(g, pairs) ==
    [code \in DOMAIN g |->
        [g[code] EXCEPT !.reservations = Without(@, {t \in Tokens : <<code, t>> \in pairs})]]

\* Mutant: consumed seats are counted past the table's size.
consume_reservations_uncapped(g, code, tokens) ==
    LET m == g[code]
        taken == tokens \cap DOMAIN m.reservations
    IN  [g EXCEPT ![code] =
            [m EXCEPT !.reservations = Without(@, taken),
                      !.current = @ + Cardinality(taken)]]

\* The tokens among `tokens' that the listing knows become seated players.
consume_reservations(g, code, tokens) ==
    LET m == g[code]
        taken == tokens \cap DOMAIN m.reservations
    IN  [g EXCEPT ![code] =
            [m EXCEPT !.reservations = Without(@, taken),
                      !.current = Lesser(@ + Cardinality(taken), m.max)]]

-----------------------------------------------------------------------------
(* What the public list shows of a listing. *)

listed(g, code) == code \in DOMAIN g /\ g[code].public

Row == {r \in [current : 0..MaxSeats, max : 1..MaxSeats] : r.current <= r.max}

\* meta_to_lobby_game: the columns a subscriber can act on.
meta_to_lobby_game(m) == [current |-> Lesser(Occupied(m), m.max), max |-> m.max]

\* check_build_commit and lobby_row_visible_to: refused only when both builds
\* are known and differ.
check_build_commit(hostCommit, guestCommit) ==
    hostCommit = UnknownCommit \/ guestCommit = UnknownCommit \/ hostCommit = guestCommit
=============================================================================
