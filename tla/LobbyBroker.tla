----------------------------- MODULE LobbyBroker -----------------------------
(***************************************************************************)
(* The lobby broker: `Broker::handle', `Broker::on_disconnect' and the     *)
(* reaper of crates/lobby-broker/src/broker.rs, with the per-connection    *)
(* state they keep and the lobby feed the shells fan out for them.         *)
(*                                                                         *)
(* Both shells run a handler and its fan-out as one step (the native one   *)
(* under the broker's lock, the Durable Object single-threaded), so each   *)
(* frame is one action.  `view' is the list a subscriber's client has      *)
(* built from the frames sent to it (FIFO per socket).  Frames that are    *)
(* refused before they change anything differ only in their reply and are  *)
(* the action HostFrame (a host's refused frame still refreshes its        *)
(* listing) or a stuttering step.                                          *)
(***************************************************************************)
EXTENDS LobbyRegistry

CONSTANTS
    Conns,            \* sockets
    NoHello, NoHost, NoToken,
    MaxEntries,       \* MAX_LOBBY_ENTRIES
    MaxSubscribers,   \* MAX_LOBBY_SUBSCRIBERS of the native shell
    MintCollides,     \* may a random game code name a listed game?
    MaxGeneration     \* bound: registrations made in a behaviour

ASSUME BrokerConstants ==
    /\ NoHello \notin Commits
    /\ NoHost \notin Registration
    /\ NoToken \notin Tokens
    /\ MaxEntries \in Nat \ {0}
    /\ MaxSubscribers \in Nat
    /\ MintCollides \in BOOLEAN
    /\ MaxGeneration \in Nat

VARIABLES
    games,            \* LobbyManager.games
    next_generation,  \* LobbyManager.next_generation
    client_hello,     \* ConnState.client_hello: the build of an accepted hello
    host_game,        \* ConnState.host_game: the ownership stamp
    held,             \* ConnState.reservations: (code, token) pairs
    feed,             \* sockets the shell fans the lobby feed out to
    view              \* what each of them shows: code -> row

registry == <<games, next_generation>>
sockets == <<client_hello, host_game, held, feed, view>>
vars == <<games, next_generation, client_hello, host_game, held, feed, view>>

TypeOK ==
    /\ IsMap(games, Codes, Listing)
    /\ next_generation \in 0..MaxGeneration
    /\ client_hello \in [Conns -> Commits \cup {NoHello}]
    /\ host_game \in [Conns -> Registration \cup {NoHost}]
    /\ held \in [Conns -> SUBSET (Codes \X Tokens)]
    /\ feed \in SUBSET Conns
    /\ view = [c \in Conns |-> view[c]]
    /\ \A c \in Conns : IsMap(view[c], Codes, Row)

-----------------------------------------------------------------------------
(* The lobby feed. *)

\* lobby_row_visible_to.
Visible(g, code, c) == check_build_commit(g[code].commit, client_hello[c])

\* LobbyUpdate, as Subscribe builds it for c.
Snapshot(g, c) ==
    [code \in {k \in DOMAIN g : listed(g, k) /\ Visible(g, k, c)} |-> meta_to_lobby_game(g[code])]

\* LobbyGameRemoved for each of `gone'.
AnnounceRemoved(v, gone) == [c \in Conns |-> IF c \in feed THEN Without(v[c], gone) ELSE v[c]]

\* Mutant: a new row goes to every subscriber, whatever its build.
AnnounceAddedToAll(v, g, code) ==
    [c \in Conns |->
        IF c \in feed /\ listed(g, code)
        THEN With(v[c], code, meta_to_lobby_game(g[code]))
        ELSE v[c]]

\* LobbyGameAdded: delivered to the viewers that may see the row, withheld
\* from the others.
AnnounceAdded(v, g, code) ==
    [c \in Conns |->
        IF c \in feed /\ listed(g, code) /\ Visible(g, code, c)
        THEN With(v[c], code, meta_to_lobby_game(g[code]))
        ELSE v[c]]

\* Mutant: the update of a row is sent only while the table has a seat free.
AnnounceUpdatedIfOpen(v, g, codes) ==
    [c \in Conns |->
        IF c \notin feed THEN v[c]
        ELSE [k \in DOMAIN v[c] |->
                IF k \in codes /\ listed(g, k) /\ SeatFree(g[k])
                THEN meta_to_lobby_game(g[k]) ELSE v[c][k]]]

\* LobbyGameUpdated: delivered, or turned into a removal for a viewer that
\* may not see the row.
AnnounceUpdated(v, g, codes) ==
    LET rows == {k \in codes : listed(g, k)}
    IN  [c \in Conns |->
            IF c \notin feed THEN v[c]
            ELSE LET shown == {k \in rows : Visible(g, k, c)}
                 IN  [k \in ((DOMAIN v[c]) \ rows) \cup shown |->
                        IF k \in shown THEN meta_to_lobby_game(g[k]) ELSE v[c][k]]]

-----------------------------------------------------------------------------
Init ==
    /\ games = EmptyMap
    /\ next_generation = 0
    /\ client_hello = [c \in Conns |-> NoHello]
    /\ host_game = [c \in Conns |-> NoHost]
    /\ held = [c \in Conns |-> {}]
    /\ feed = {}
    /\ view = [c \in Conns |-> EmptyMap]

\* The handshake gate: until its hello a socket can do nothing else, and a
\* second hello is ignored.
ClientHello(c, commit) ==
    /\ client_hello[c] = NoHello
    /\ client_hello' = [client_hello EXCEPT ![c] = commit]
    /\ UNCHANGED <<games, next_generation, host_game, held, feed, view>>

\* The prelude of `handle': any frame of a host keeps its listing alive.
Prelude(c) == IF host_game[c] = NoHost THEN games ELSE refresh_liveness(games, host_game[c])

Greeted(c) == client_hello[c] # NoHello

\* A host's Ping, or a frame of a host that is refused without a state change.
HostFrame(c) ==
    /\ Greeted(c) /\ host_game[c] # NoHost
    /\ games' = Prelude(c)
    /\ UNCHANGED <<next_generation, sockets>>

\* The native shell caps its subscribers; re-subscribing keeps the slot.
SubscribeLobby(c) ==
    /\ Greeted(c)
    /\ games' = Prelude(c)
    /\ feed' = IF c \in feed \/ Cardinality(feed) < MaxSubscribers THEN feed \cup {c} ELSE feed
    /\ view' = [view EXCEPT ![c] = IF c \in feed' THEN Snapshot(games', c) ELSE @]
    /\ UNCHANGED <<next_generation, client_hello, host_game, held>>

UnsubscribeLobby(c) ==
    /\ c \in feed
    /\ games' = Prelude(c)
    /\ feed' = feed \ {c}
    /\ view' = [view EXCEPT ![c] = EmptyMap]
    /\ UNCHANGED <<next_generation, client_hello, host_game, held>>

-----------------------------------------------------------------------------
(* Hosts. *)

\* The listing a host gives up when it creates another or leaves.
Withdrawn(g, c) == IF host_game[c] = NoHost THEN g ELSE unregister_registration(g, host_game[c])

\* LobbyGameRemoved for the listing `Withdrawn' took out, if it took one.
AnnounceWithdrawn(v, g, c) == AnnounceRemoved(v, (DOMAIN g) \ (DOMAIN Withdrawn(g, c)))

\* handle_create_game, up to its refusals: the previous listing is gone even
\* when the new one is refused.
CreateGameRefused(c, code) ==
    LET g0 == Prelude(c)
        g1 == Withdrawn(g0, c)
    IN  /\ Greeted(c)
        /\ Cardinality(DOMAIN g1) >= MaxEntries \/ code \in DOMAIN g1
        /\ games' = g1
        /\ host_game' = [host_game EXCEPT ![c] = NoHost]
        /\ view' = AnnounceWithdrawn(view, g0, c)
        /\ UNCHANGED <<next_generation, client_hello, held, feed>>

\* A code the host asked for must be free; one the server draws at random is
\* not looked up.
CreateGame(c, code, requested, public, seats) ==
    LET g0 == Prelude(c)
        g1 == Withdrawn(g0, c)
        g2 == register_game(g1, code, next_generation, public, client_hello[c], seats)
    IN  /\ Greeted(c)
        /\ next_generation < MaxGeneration
        /\ Cardinality(DOMAIN g1) < MaxEntries
        /\ requested \/ ~MintCollides => code \notin DOMAIN g1
        /\ games' = g2
        /\ next_generation' = next_generation + 1
        /\ host_game' = [host_game EXCEPT ![c] = [code |-> code, generation |-> next_generation]]
        /\ view' = AnnounceAdded(AnnounceWithdrawn(view, g0, c), g2, code)
        /\ UNCHANGED <<client_hello, held, feed>>

\* handle_update_metadata: the host's own count, raised to the seats it just
\* consumed and capped at its own table size.
UpdateLobbyMetadata(c, current, max, consumed) ==
    LET code == host_game[c].code
        g0 == Prelude(c)
        g1 == consume_reservations(g0, code, consumed)
        floor == IF consumed = {} THEN 0 ELSE g1[code].current
        g2 == [g1 EXCEPT ![code] =
                 [cleanup_expired_for(@) EXCEPT !.current = Lesser(Greater(current, floor), max),
                                                !.max = max]]
    IN  /\ Greeted(c) /\ host_game[c] # NoHost
        /\ is_current(g0, host_game[c])
        /\ consumed \subseteq DOMAIN g0[code].reservations
        /\ games' = g2
        /\ view' = AnnounceUpdated(view, g2, {code})
        /\ UNCHANGED <<next_generation, client_hello, host_game, held, feed>>

UnregisterLobby(c) ==
    LET g0 == Prelude(c)
    IN  /\ Greeted(c) /\ host_game[c] # NoHost
        /\ games' = Withdrawn(g0, c)
        /\ host_game' = [host_game EXCEPT ![c] = NoHost]
        /\ view' = AnnounceWithdrawn(view, g0, c)
        /\ UNCHANGED <<next_generation, client_hello, held, feed>>

-----------------------------------------------------------------------------
(* Guests. *)

\* hosts_current: the socket itself hosts the game it asks about.
hosts_current(g, c, code) ==
    /\ host_game[c] # NoHost
    /\ host_game[c].code = code
    /\ is_current(g, host_game[c])

\* The gates a join and a lookup share (the password aside).
Admitted(g, c, code) ==
    /\ Greeted(c)
    /\ ~hosts_current(g, c, code)
    /\ code \in DOMAIN g
    /\ Visible(g, code, c)

\* handle_join with a reservation.  No expiry is checked here: a reservation
\* that has lapsed and has not been cleaned up is still honoured.
JoinGameWithReservation(c, code, token) ==
    LET g0 == Prelude(c)
    IN  /\ Admitted(g0, c, code)
        /\ <<code, token>> \in held[c]
        /\ token \in DOMAIN g0[code].reservations
        /\ games' = consume_reservations(g0, code, {token})
        /\ held' = [held EXCEPT ![c] = @ \ {<<code, token>>}]
        /\ UNCHANGED <<next_generation, client_hello, host_game, feed, view>>

UnusedTokens ==
    {t \in Tokens : /\ \A code \in DOMAIN games : t \notin DOMAIN games[code].reservations
                    /\ \A c \in Conns : \A code \in Codes : <<code, t>> \notin held[c]}

\* has_active_reservation over what a socket holds, after the cleanup.
ActiveReservations(g, code, pairs) ==
    {r \in pairs : r[1] = code /\ r[2] \in DOMAIN g[code].reservations}

\* Mutant: a guest that has a reservation may add another.
MayReserveAgain(active, listing) == SeatFree(listing)

\* A socket reserves once per table, while a seat is free.
MayReserve(active, listing) == active = {} /\ SeatFree(listing)

\* handle_lookup: an optional release, then an optional reservation.
LookupJoinTarget(c, code, release, reserve) ==
    LET g0 == Prelude(c)
        freed == release # NoToken /\ release \in DOMAIN g0[code].reservations
        g1 == IF freed THEN release_reservation(g0, code, release) ELSE g0
        held1 == IF freed THEN held[c] \ {<<code, release>>} ELSE held[c]
        view1 == IF freed THEN AnnounceUpdated(view, g1, {code}) ELSE view
        g2 == cleanup_expired_reservations(g1, code)
        active == ActiveReservations(g2, code, held1)
        held2 == {r \in held1 : r[1] # code} \cup active
    IN  /\ Admitted(g0, c, code)
        /\ release # NoToken => <<code, release>> \in held[c]
        /\ \/ /\ ~reserve
              /\ games' = g1
              /\ held' = [held EXCEPT ![c] = held1]
              /\ view' = view1
           \/ /\ reserve
              /\ ~MayReserve(active, g2[code])
              /\ games' = g2
              /\ held' = [held EXCEPT ![c] = held2]
              /\ view' = view1
           \/ /\ reserve
              /\ MayReserve(active, g2[code])
              /\ \E token \in UnusedTokens :
                    /\ games' = reserve_seat(g2, code, token)
                    /\ held' = [held EXCEPT ![c] = held2 \cup {<<code, token>>}]
              /\ view' = AnnounceUpdated(view1, games', {code})
        /\ UNCHANGED <<next_generation, client_hello, host_game, feed>>

-----------------------------------------------------------------------------
(* Sockets, time and the reaper. *)

\* on_disconnect: the reservations are released and announced first, then the
\* hosted listing is withdrawn.
Disconnect(c) ==
    LET g1 == release_reservations(games, held[c])
        changed == g1 # games
        view1 == IF changed THEN AnnounceUpdated(view, g1, {r[1] : r \in held[c]}) ELSE view
    IN  /\ Greeted(c)
        /\ games' = Withdrawn(g1, c)
        /\ client_hello' = [client_hello EXCEPT ![c] = NoHello]
        /\ host_game' = [host_game EXCEPT ![c] = NoHost]
        /\ held' = [held EXCEPT ![c] = {}]
        /\ feed' = feed \ {c}
        /\ view' = [AnnounceWithdrawn(view1, g1, c) EXCEPT ![c] = EmptyMap]
        /\ UNCHANGED next_generation

\* Mutant: consumption by code, without the identity check.
ReapHandledByCode(observed) ==
    /\ games' = Without(games, {r.code : r \in observed})
    /\ view' = AnnounceRemoved(view, {r.code : r \in observed})
    /\ UNCHANGED <<next_generation, client_hello, host_game, held, feed>>

\* Mutant: the removal is announced but a current registration stays.
ReapHandledAnnounceOnly(observed) ==
    /\ view' = AnnounceRemoved(view, {r.code : r \in observed})
    /\ UNCHANGED <<games, next_generation, client_hello, host_game, held, feed>>

\* reap_expired_handled: an observed registration is removed if it is still
\* the one listed; its removal is announced unless another one replaced it.
ReapHandled(observed) ==
    LET gone == {r \in observed : is_current(games, r) \/ r.code \notin DOMAIN games}
    IN  /\ games' = Without(games, {r.code : r \in gone})
        /\ view' = AnnounceRemoved(view, {r.code : r \in gone})
        /\ UNCHANGED <<next_generation, client_hello, host_game, held, feed>>

\* The wall clock.
Tick ==
    /\ games' = Aged(games)
    /\ UNCHANGED <<next_generation, sockets>>

\* Frames that leave the registry alone but for the liveness refresh.
ReadOnlyFrame(c) ==
    \/ \E commit \in Commits : ClientHello(c, commit)
    \/ HostFrame(c)
    \/ SubscribeLobby(c)
    \/ UnsubscribeLobby(c)

\* Frames that may change it.
MutatingFrame(c) ==
    \/ \E code \in Codes : CreateGameRefused(c, code)
    \/ \E code \in Codes, requested \in BOOLEAN, public \in BOOLEAN, seats \in 2..MaxSeats :
          CreateGame(c, code, requested, public, seats)
    \/ \E current \in 0..MaxSeats, max \in 1..MaxSeats, consumed \in SUBSET Tokens :
          UpdateLobbyMetadata(c, current, max, consumed)
    \/ UnregisterLobby(c)
    \/ \E code \in Codes, token \in Tokens : JoinGameWithReservation(c, code, token)
    \/ \E code \in Codes, release \in Tokens \cup {NoToken}, reserve \in BOOLEAN :
          LookupJoinTarget(c, code, release, reserve)

-----------------------------------------------------------------------------
(* Properties. *)

\* A listing has at most one owner: `hosts_current' is what every host-only
\* check goes through, and no two sockets pass it for one code, whatever was
\* reaped, re-registered or taken over in between.
OneOwner ==
    \A code \in Codes : \A c, d \in Conns :
        hosts_current(games, c, code) /\ hosts_current(games, d, code) => c = d

\* The identities behind OneOwner: generations are handed out once, to one
\* listing and one socket, from a counter that no removal lowers.
RegistrationIdentity ==
    /\ \A code \in DOMAIN games : games[code].generation < next_generation
    /\ \A c \in Conns : host_game[c] # NoHost => host_game[c].generation < next_generation
    /\ \A k, l \in DOMAIN games : games[k].generation = games[l].generation => k = l
    /\ \A c, d \in Conns :
          /\ host_game[c] # NoHost
          /\ host_game[d] # NoHost
          /\ host_game[c].generation = host_game[d].generation
          => c = d
    /\ \A c \in Conns : \A code \in DOMAIN games :
          /\ host_game[c] # NoHost
          /\ host_game[c].generation = games[code].generation
          => host_game[c].code = code

\* A stamp whose listing is gone never comes back to life: a socket that kept
\* it open while its listing was reaped or replaced cannot reach the listing
\* another host puts under the code later.
StaleStampStaysStale ==
    [][\A c \in Conns :
        /\ host_game[c] # NoHost
        /\ ~is_current(games, host_game[c])
        /\ host_game'[c] = host_game[c]
        => ~is_current(games', host_game[c])]_vars

\* A guest holds at most one seat of a table: a second reserve request finds
\* the first reservation, also after releases, consumption by the host, lapses
\* and a re-registration of the code.
OneSeatPerGuest ==
    \A c \in Conns : \A code \in DOMAIN games :
        Cardinality({t \in DOMAIN games[code].reservations : <<code, t>> \in held[c]}) <= 1

\* No seat leaks: each pending reservation of a listing is held by a socket,
\* which gives it back when it closes.
NoLeakedSeat ==
    \A code \in DOMAIN games : \A t \in DOMAIN games[code].reservations :
        \E c \in Conns : <<code, t>> \in held[c]

\* A subscriber shows exactly the public games of compatible builds: deltas
\* applied to a snapshot never lose or keep a row, whoever creates, updates,
\* withdraws or reaps.
FeedMatchesRegistry ==
    \A c \in feed : DOMAIN view[c] = DOMAIN Snapshot(games, c)

\* A row never shows a seat as free that the registry counts as taken, and
\* shows the current table size.  (The converse fails: expired reservations
\* are dropped without an announcement by a refused second reserve.)
FeedNeverUndercounts ==
    \A c \in feed : \A code \in (DOMAIN view[c]) \cap (DOMAIN games) :
        /\ view[c][code].current >= meta_to_lobby_game(games[code]).current
        /\ view[c][code].max = games[code].max
=============================================================================
