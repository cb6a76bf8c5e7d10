----------------------------- MODULE LobbyWorker -----------------------------
(***************************************************************************)
(* The broker in the Durable Object shell (lobby-worker/src/lobby-do.ts    *)
(* and lobby-worker/broker-wasm/src/lib.rs).  Handlers run one at a time.  *)
(* The registry lives in memory and is written to storage only by frames   *)
(* the shell classifies as dirty; an idle object is evicted and restored   *)
(* from storage, while its sockets keep their attachments.  The reaper     *)
(* runs from a stored alarm that the shell has to keep armed.              *)
(***************************************************************************)
EXTENDS LobbyBroker

VARIABLES
    stored,     \* SNAPSHOT_KEY: the registry as last written
    alarm       \* is the reaper's alarm set?

wvars == <<vars, stored, alarm>>

WInit ==
    /\ Init
    /\ stored = [games |-> EmptyMap, next_generation |-> 0]
    /\ alarm = FALSE

\* storage.put(SNAPSHOT_KEY, broker.snapshot()).
PutSnapshot == stored' = [games |-> games', next_generation |-> next_generation']

\* storage.put followed by ensureAlarm.
Persist == PutSnapshot /\ alarm' = TRUE

\* Mutant: only the kind of the frame decides whether to persist.
never_due(c) == FALSE

\* Broker::host_liveness_refresh_due, read before the frame is handled.
host_liveness_refresh_due(c) ==
    host_game[c] # NoHost /\ liveness_refresh_due(games, host_game[c])

\* webSocketMessage: persist when the frame may have written the registry.
WebSocketMessage(c) ==
    \/ MutatingFrame(c) /\ Persist
    \/ ReadOnlyFrame(c) /\ host_liveness_refresh_due(c) /\ Persist
    \/ ReadOnlyFrame(c) /\ ~host_liveness_refresh_due(c) /\ UNCHANGED <<stored, alarm>>

\* webSocketClose, webSocketError.
WebSocketClose(c) == Disconnect(c) /\ PutSnapshot /\ UNCHANGED alarm

\* Mutant: the alarm is re-armed only by a sweep that reaped something.
AlarmStopsWhenIdle ==
    /\ alarm
    /\ ReapHandled(check_expired(games))
    /\ PutSnapshot
    /\ alarm' = (DOMAIN games' # {} /\ games' # games)

\* alarm(): reap in one step, then stay armed while anything is listed.
Alarm ==
    /\ alarm
    /\ ReapHandled(check_expired(games))
    /\ PutSnapshot
    /\ alarm' = (DOMAIN games' # {})

\* The stored timestamps age as those in memory do.
WTick ==
    /\ Tick
    /\ stored' = [stored EXCEPT !.games = Aged(@)]
    /\ UNCHANGED alarm

\* Mutant: the counter is derived from the listings alone.
SeededFromListings(s) ==
    CHOOSE n \in 0..MaxGeneration :
        /\ \A code \in DOMAIN s.games : s.games[code].generation < n
        /\ \/ n = 0
           \/ \E code \in DOMAIN s.games : s.games[code].generation + 1 = n

\* The generation counter a snapshot is restored with: above every generation
\* it carries.
SeededGeneration(s) ==
    CHOOSE n \in 0..MaxGeneration :
        /\ n >= s.next_generation
        /\ \A code \in DOMAIN s.games : s.games[code].generation < n
        /\ \/ n = s.next_generation
           \/ \E code \in DOMAIN s.games : s.games[code].generation + 1 = n

\* loadBroker on a cold start: what was not written is lost.
Restore ==
    /\ games' = stored.games
    /\ next_generation' = SeededGeneration(stored)
    /\ UNCHANGED <<stored, alarm>>

Hibernate == Restore /\ UNCHANGED sockets

\* A code deploy disconnects every socket without running its close handler.
Deploy ==
    /\ Restore
    /\ client_hello' = [c \in Conns |-> NoHello]
    /\ host_game' = [c \in Conns |-> NoHost]
    /\ held' = [c \in Conns |-> {}]
    /\ feed' = {}
    /\ view' = [c \in Conns |-> EmptyMap]

WNext ==
    \/ \E c \in Conns : WebSocketMessage(c) \/ WebSocketClose(c)
    \/ Alarm
    \/ WTick
    \/ Hibernate
    \/ Deploy

WSpec == WInit /\ [][WNext]_wvars

\* The runtime delivers a stored alarm, and time passes.
WFairSpec == WSpec /\ WF_wvars(WTick) /\ WF_wvars(Alarm)

-----------------------------------------------------------------------------
(* Properties. *)

\* Hibernation loses nothing: between handlers storage holds the registry in
\* memory, liveness clocks included, although read-only frames do not write.
SnapshotCurrent == stored = [games |-> games, next_generation |-> next_generation]

\* A listing leaves the lobby only because the socket that owns it lets go of
\* it or because its liveness clock is past the timeout at that moment; a
\* restore from storage never drops or rolls back a listing.
WListingSafe ==
    [][\A code \in DOMAIN games :
        LET r == RegistrationOf(games, code)
        IN  is_current(games', r)
            \/ (\E c \in Conns : host_game[c] = r /\ host_game'[c] # r)
            \/ games[code].age > TimeoutTicks]_wvars

\* Listing n under `code' is up and no socket owns it.
Orphaned(code, n) ==
    /\ code \in DOMAIN games /\ games[code].generation = n
    /\ \A c \in Conns : host_game[c] # [code |-> code, generation |-> n]

\* A listing whose owner's socket vanished without a close is delisted in the
\* end: the alarm is armed, nobody refreshes it, and it is never re-owned.
OrphanIsReaped ==
    \A code \in Codes : \A n \in 0..(MaxGeneration - 1) :
        Orphaned(code, n) ~> ~is_current(games, [code |-> code, generation |-> n])
=============================================================================
