-------------------------- MODULE LobbyWorkerProofs --------------------------
(***************************************************************************)
(* Theorems on the broker in the Durable Object shell: hibernation and     *)
(* deploys at any moment, storage written only by the frames the shell     *)
(* classifies as dirty.                                                    *)
(***************************************************************************)
EXTENDS LobbyWorker, LobbyBrokerProofs

\* A frame that is not persisted leaves the registry as it was.
LEMMA CleanFrame ==
    ASSUME TypeOK, NEW c \in Conns, ReadOnlyFrame(c), ~host_liveness_refresh_due(c)
    PROVE  UNCHANGED registry
<1>1. Prelude(c) = games
  BY DEF Prelude, refresh_liveness, host_liveness_refresh_due
<1> QED BY <1>1 DEF ReadOnlyFrame, ClientHello, HostFrame, SubscribeLobby, UnsubscribeLobby, registry

\* The restored counter of a snapshot is the counter it was written with.
LEMMA SeedIsCounter ==
    ASSUME TypeOK, RegistrationIdentity, SnapshotCurrent
    PROVE  stored.games = games /\ SeededGeneration(stored) = next_generation
<1>1. stored.games = games /\ stored.next_generation = next_generation
  BY DEF SnapshotCurrent
<1> DEFINE P(n) == /\ n >= stored.next_generation
                   /\ \A code \in DOMAIN stored.games : stored.games[code].generation < n
                   /\ \/ n = stored.next_generation
                      \/ \E code \in DOMAIN stored.games : stored.games[code].generation + 1 = n
<1>2. \A code \in DOMAIN games : games[code].generation \in Nat
  BY TypeParts, ValidParts DEF Listing, Meta
<1>3. next_generation \in 0..MaxGeneration /\ MaxGeneration \in Nat
  BY BrokerConstants DEF TypeOK
<1>4. P(next_generation)
  BY <1>1, <1>3 DEF RegistrationIdentity
<1>5. \A n \in 0..MaxGeneration : P(n) => n = next_generation
  BY <1>1, <1>2, <1>3 DEF RegistrationIdentity
<1>6. (CHOOSE n \in 0..MaxGeneration : P(n)) = next_generation
  <2> HIDE DEF P
  <2> QED BY <1>3, <1>4, <1>5
<1> QED BY <1>1, <1>6 DEF SeededGeneration

\* What every step keeps.
Restorable == TypeOK /\ RegistrationIdentity /\ SnapshotCurrent

\* Hibernation changes nothing, and a deploy takes the sockets only.
LEMMA RestoreShape ==
    ASSUME Restorable, Hibernate \/ Deploy
    PROVE  TypeOK' /\ Inherits /\ UNCHANGED <<games, next_generation, stored>>
<1>1. UNCHANGED <<games, next_generation, stored>>
  BY SeedIsCounter DEF Restorable, Hibernate, Deploy, Restore
<1>2. IsMap(EmptyMap, Codes, Row)
  <2>1. EmptyMap \in [{} -> Row]
    BY DEF EmptyMap
  <2> QED BY <2>1 DEF IsMap
<1>3. CASE Hibernate
  BY <1>1, <1>3, DescendsReflexive DEF Restorable, Hibernate, sockets, TypeOK, IsMap, Inherits
<1>4. CASE Deploy
  BY <1>1, <1>2, <1>4, DescendsReflexive DEF Restorable, Deploy, TypeOK, Inherits
<1> QED BY <1>1, <1>3, <1>4

\* Every step has the shape of a broker's step and leaves storage current.
LEMMA WorkerShape ==
    ASSUME Restorable, [WNext]_wvars
    PROVE  TypeOK' /\ Shape /\ SnapshotCurrent'
<1> USE DEF Restorable
<1>1. ASSUME NEW c \in Conns, WebSocketMessage(c) PROVE TypeOK' /\ Shape /\ SnapshotCurrent'
  <2>1. TypeOK' /\ Shape
    BY <1>1, FrameShape DEF WebSocketMessage
  <2>2. CASE Persist
    BY <2>1, <2>2 DEF Persist, PutSnapshot, SnapshotCurrent
  <2>3. CASE ReadOnlyFrame(c) /\ ~host_liveness_refresh_due(c) /\ UNCHANGED <<stored, alarm>>
    BY <2>1, <2>3, CleanFrame DEF SnapshotCurrent, registry
  <2> QED BY <1>1, <2>2, <2>3 DEF WebSocketMessage
<1>2. ASSUME NEW c \in Conns, WebSocketClose(c) PROVE TypeOK' /\ Shape /\ SnapshotCurrent'
  BY <1>2, FrameShape DEF WebSocketClose, PutSnapshot, SnapshotCurrent
<1>3. CASE Alarm
  BY <1>3, ReapStep DEF Alarm, PutSnapshot, SnapshotCurrent, Shape
<1>4. CASE WTick
  BY <1>4, TickStep DEF WTick, Tick, SnapshotCurrent, Shape
<1>5. CASE Hibernate \/ Deploy
  BY <1>5, RestoreShape DEF SnapshotCurrent, Shape
<1>6. CASE UNCHANGED wvars
  BY <1>6, DescendsReflexive DEF wvars, vars, TypeOK, IsMap, Shape, Inherits, SnapshotCurrent
<1> QED BY <1>1, <1>2, <1>3, <1>4, <1>5, <1>6 DEF WNext

\* The invariant behind the theorems.
LEMMA RestorableHolds == WSpec => []Restorable
<1>1. WInit => Restorable
  BY InitSafe DEF WInit, Init, Restorable, SnapshotCurrent
<1>2. Restorable /\ [WNext]_wvars => Restorable'
  BY WorkerShape, ShapeKeepsIdentity DEF Restorable
<1> QED BY <1>1, <1>2, PTL DEF WSpec

\* Hibernation loses nothing: between handlers the snapshot in storage is the
\* registry in memory, liveness clocks and generation counter included, although
\* read-only frames do not write it (webSocketMessage, loadBroker).
THEOREM StorageCurrent == WSpec => []SnapshotCurrent
BY RestorableHolds, PTL DEF Restorable

\* A stamp that a hibernating socket kept in its attachment never comes back to
\* life, whatever was reaped, re-registered and restored in between.
THEOREM StaleAcrossRestores == WSpec => StaleStampStaysStale
<1> DEFINE Keeps == \A c \in Conns :
                        /\ host_game[c] # NoHost
                        /\ ~is_current(games, host_game[c])
                        /\ host_game'[c] = host_game[c]
                        => ~is_current(games', host_game[c])
<1>1. Restorable /\ [WNext]_wvars => [Keeps]_vars
  BY WorkerShape, ShapeKeepsStale DEF Restorable
<1> QED BY <1>1, RestorableHolds, PTL DEF WSpec, StaleStampStaysStale

\* When codes drawn at random are free, a listing leaves the lobby only because
\* its owner's socket lets go of it or because its liveness clock is past the
\* timeout; hibernation, deploys and the alarm never drop another.
THEOREM ListingsSurviveRestores == ASSUME ~MintCollides PROVE WSpec => WListingSafe
<1> DEFINE Kept(code) ==
        LET r == RegistrationOf(games, code)
        IN  is_current(games', r)
            \/ (\E c \in Conns : host_game[c] = r /\ host_game'[c] # r)
            \/ games[code].age > TimeoutTicks
<1>1. ASSUME Restorable, WNext, NEW code \in DOMAIN games
      PROVE  Kept(code)
  <2>1. TypeOK /\ RegistrationIdentity
    BY <1>1 DEF Restorable
  <2>2. ASSUME NEW c \in Conns, WebSocketMessage(c) \/ WebSocketClose(c)
        PROVE  Kept(code)
    <3>1. Releases(c)
      BY <2>1, <2>2, FrameReleases DEF WebSocketMessage, WebSocketClose
    <3> QED BY <3>1, <1>1 DEF Releases
  <2>3. CASE WTick
    <3>1. Descends(games, games') /\ DOMAIN games' = DOMAIN games
      BY <2>1, <2>3, TypeParts, AgedDescends DEF WTick, Tick
    <3> QED BY <3>1, <1>1 DEF Descends, is_current, RegistrationOf
  <2>4. CASE Alarm
    <3>1. check_expired(games) \in SUBSET Registration
      BY <2>1, TypeParts, ValidParts DEF check_expired, RegistrationOf, Registration, Listing, Meta
    <3>2. \/ is_current(games', RegistrationOf(games, code))
          \/ RegistrationOf(games, code) \in check_expired(games)
      BY <1>1, <2>1, <2>4, <3>1, ReapReleases DEF Alarm
    <3>3. RegistrationOf(games, code) \in check_expired(games) => games[code].age > TimeoutTicks
      BY DEF check_expired, RegistrationOf
    <3> QED BY <3>2, <3>3
  <2>5. CASE Hibernate \/ Deploy
    BY <1>1, <2>5, RestoreShape DEF is_current, RegistrationOf
  <2> QED BY <1>1, <2>2, <2>3, <2>4, <2>5 DEF WNext
<1>2. Restorable /\ [WNext]_wvars => [\A code \in DOMAIN games : Kept(code)]_wvars
  BY <1>1
<1> QED BY <1>2, RestorableHolds, PTL DEF WSpec, WListingSafe

\* A guest never holds two seats of one table in the Durable Object either: the
\* pairs in a socket's attachment and the restored reservations stay in step.
THEOREM OneSeatAcrossRestores == WSpec => []OneSeatPerGuest
<1>1. WInit => OneToken
  BY DEF WInit, Init, EmptyMap, OneToken
<1>2. ASSUME Restorable, OneToken, [WNext]_wvars PROVE OneToken'
  <2>1. TypeOK
    BY <1>2 DEF Restorable
  <2>2. ASSUME NEW c \in Conns, WebSocketMessage(c) \/ WebSocketClose(c) PROVE OneToken'
    <3>1. SeatShape
      BY <2>1, <2>2, FrameSeats DEF WebSocketMessage, WebSocketClose
    <3> QED BY <1>2, <3>1, SeatShapeKeepsSeats
  <2>3. CASE Alarm
    <3>1. check_expired(games) \in SUBSET Registration
      BY <2>1, TypeParts, ValidParts DEF check_expired, RegistrationOf, Registration, Listing, Meta
    <3>2. SeatShape
      BY <2>1, <2>3, <3>1, BackgroundFrees DEF Alarm, SeatShape
    <3> QED BY <1>2, <3>2, SeatShapeKeepsSeats
  <2>4. CASE WTick
    <3>1. SeatShape
      BY <2>1, <2>4, BackgroundFrees DEF WTick, SeatShape
    <3> QED BY <1>2, <3>1, SeatShapeKeepsSeats
  <2>5. CASE Hibernate
    <3>1. games' = games /\ held' = held
      BY <1>2, <2>5, RestoreShape DEF Hibernate, sockets
    <3> QED BY <1>2, <3>1 DEF OneToken
  <2>6. CASE Deploy
    BY <2>6 DEF Deploy, OneToken
  <2>7. CASE UNCHANGED wvars
    BY <1>2, <2>7 DEF wvars, vars, OneToken
  <2> QED BY <1>2, <2>2, <2>3, <2>4, <2>5, <2>6, <2>7 DEF WNext
<1>3. OneToken => OneSeatPerGuest
  BY OneTokenIsOneSeat
<1> QED BY <1>1, <1>2, <1>3, RestorableHolds, PTL DEF WSpec

\* When codes drawn at random are free, a subscriber that sleeps through a
\* hibernation wakes with the right list: exactly the public games of compatible
\* builds, none with a seat shown as free that the registry counts as taken.
THEOREM FeedAcrossRestores ==
    ASSUME ~MintCollides
    PROVE  WSpec => [](FeedMatchesRegistry /\ FeedNeverUndercounts)
<1>1. WInit => FeedInv
  BY DEF WInit, Init, FeedInv, FeedOf
<1>2. ASSUME Restorable, FeedInv, [WNext]_wvars PROVE FeedInv'
  <2>1. TypeOK
    BY <1>2 DEF Restorable
  <2>2. ASSUME NEW c \in Conns, WebSocketMessage(c) \/ WebSocketClose(c) PROVE FeedInv'
    BY <1>2, <2>1, <2>2, FrameFeed DEF WebSocketMessage, WebSocketClose
  <2>3. CASE Alarm \/ WTick
    BY <1>2, <2>1, <2>3, BackgroundFeed DEF Alarm, WTick
  <2>4. CASE Hibernate
    <3>1. UNCHANGED <<games, client_hello, feed, view>>
      BY <1>2, <2>4, RestoreShape DEF Hibernate, sockets
    <3> QED BY <1>2, <3>1 DEF FeedInv, FeedOf, Greeted
  <2>5. CASE Deploy
    BY <2>5 DEF Deploy, FeedInv, FeedOf
  <2>6. CASE UNCHANGED wvars
    BY <1>2, <2>6 DEF wvars, vars, FeedInv, FeedOf, Greeted
  <2> QED BY <1>2, <2>2, <2>3, <2>4, <2>5, <2>6 DEF WNext
<1>3. FeedInv => FeedMatchesRegistry /\ FeedNeverUndercounts
  BY FeedInvGives
<1> QED BY <1>1, <1>2, <1>3, RestorableHolds, PTL DEF WSpec
=============================================================================
