-------------------------- MODULE LobbyNativeProofs --------------------------
(***************************************************************************)
(* Theorems on the broker in the native shell, whose sweep consumes a      *)
(* report that client frames may have outdated: for every set of sockets,  *)
(* codes and tokens.                                                       *)
(***************************************************************************)
EXTENDS LobbyNative, LobbyBrokerProofs

\* Every step keeps the types and has the shape.
LEMMA StepShape ==
    ASSUME NTypeOK, [NNext]_nvars
    PROVE  NTypeOK' /\ Shape
<1>1. TypeOK
  BY DEF NTypeOK
<1>2. CASE UNCHANGED nvars
  <2>1. Inherits
    BY <1>2, DescendsReflexive DEF nvars, vars, Inherits
  <2>2. NTypeOK'
    BY <1>2 DEF nvars, vars, NTypeOK, TypeOK, IsMap
  <2> QED BY <2>1, <2>2 DEF Shape
<1>3. CASE \E c \in Conns : /\ ReadOnlyFrame(c) \/ MutatingFrame(c) \/ Disconnect(c)
                            /\ UNCHANGED observed
  BY <1>1, <1>3, FrameShape DEF NTypeOK
<1>4. CASE Tick /\ UNCHANGED observed
  BY <1>1, <1>4, TickStep DEF NTypeOK, Shape
<1>5. CASE ReportExpired
  <2>1. Inherits
    BY <1>5, DescendsReflexive DEF ReportExpired, vars, Inherits
  <2>2. TypeOK'
    BY <1>1, <1>5 DEF ReportExpired, vars, TypeOK, IsMap
  <2>3. \A code \in DOMAIN games : RegistrationOf(games, code) \in Registration
    BY <1>1, TypeParts, ValidParts DEF RegistrationOf, Registration, Listing, Meta
  <2>4. observed' \in SUBSET Registration
    BY <1>5, <2>3 DEF ReportExpired, check_expired
  <2> QED BY <2>1, <2>2, <2>4 DEF NTypeOK, Shape
<1>6. CASE ConsumeExpired
  <2>1. TypeOK' /\ Inherits
    BY <1>1, <1>6, ReapStep DEF ConsumeExpired
  <2>2. observed' \in SUBSET Registration
    BY <1>6 DEF ConsumeExpired
  <2> QED BY <2>1, <2>2 DEF NTypeOK, Shape
<1> QED BY <1>2, <1>3, <1>4, <1>5, <1>6 DEF NNext

-----------------------------------------------------------------------------
(* The theorems. *)

\* Type correctness of the broker behind the native shell.
THEOREM TypeCorrect == NSpec => []NTypeOK
<1>1. NInit => NTypeOK
  BY InitSafe DEF NInit, NTypeOK
<1>2. NTypeOK /\ [NNext]_nvars => NTypeOK'
  BY StepShape
<1> QED BY <1>1, <1>2, PTL DEF NSpec

\* Every registration identity is handed out once: the inductive invariant.
THEOREM IdentityInvariant == NSpec => []RegistrationIdentity
<1>1. NInit => RegistrationIdentity
  BY InitSafe DEF NInit, NTypeOK
<1>2. NTypeOK /\ NTypeOK' /\ RegistrationIdentity /\ [NNext]_nvars => RegistrationIdentity'
  BY StepShape, ShapeKeepsIdentity DEF NTypeOK
<1> QED BY <1>1, <1>2, TypeCorrect, PTL DEF NSpec

\* No two sockets ever pass the host-only check of one game, across sweeps,
\* collisions of random codes and re-registrations.
THEOREM SingleOwner == NSpec => []OneOwner
<1>1. RegistrationIdentity => OneOwner
  BY IdentityGivesOneOwner
<1> QED BY <1>1, IdentityInvariant, PTL

\* A stamp that went stale can never touch a later listing of its code.
THEOREM StaleForever == NSpec => StaleStampStaysStale
<1> DEFINE Keeps == \A c \in Conns :
                        /\ host_game[c] # NoHost
                        /\ ~is_current(games, host_game[c])
                        /\ host_game'[c] = host_game[c]
                        => ~is_current(games', host_game[c])
<1>1. NTypeOK /\ RegistrationIdentity /\ [NNext]_nvars => [Keeps]_vars
  BY StepShape, ShapeKeepsStale DEF NTypeOK
<1> QED BY <1>1, TypeCorrect, IdentityInvariant, PTL DEF NSpec, StaleStampStaysStale

\* A listing leaves the lobby only because its owner's socket lets go of it, because
\* the sweep observed this very registration as lapsed, or because a randomly
\* drawn code hit it: never by a stale host, a guest, or a sweep that observed
\* the code's previous listing.
THEOREM ListingsAreSafe == NSpec => ListingSafe
<1> DEFINE Kept(code) ==
        LET r == RegistrationOf(games, code)
        IN  is_current(games', r)
            \/ (\E c \in Conns : host_game[c] = r /\ host_game'[c] # r)
            \/ r \in observed
            \/ (MintCollides /\ next_generation' # next_generation /\ code \in DOMAIN games')
<1>1. ASSUME NTypeOK, RegistrationIdentity, NNext, NEW code \in DOMAIN games
      PROVE  Kept(code)
  <2>1. TypeOK /\ observed \in SUBSET Registration
    BY <1>1 DEF NTypeOK
  <2>2. ASSUME NEW c \in Conns, ReadOnlyFrame(c) \/ MutatingFrame(c) \/ Disconnect(c)
        PROVE  Kept(code)
    <3>1. Releases(c)
      BY <1>1, <2>1, <2>2, FrameReleases
    <3> QED BY <3>1, <1>1 DEF Releases
  <2>3. CASE Tick
    <3>1. Descends(games, games') /\ DOMAIN games' = DOMAIN games
      BY <2>1, <2>3, TypeParts, AgedDescends DEF Tick
    <3> QED BY <3>1, <1>1 DEF Descends, is_current, RegistrationOf
  <2>4. CASE ReportExpired
    BY <2>4, <1>1 DEF ReportExpired, vars, is_current, RegistrationOf
  <2>5. CASE ConsumeExpired
    BY <2>1, <2>5, <1>1, ReapReleases DEF ConsumeExpired
  <2> QED BY <1>1, <2>2, <2>3, <2>4, <2>5 DEF NNext
<1>2. NTypeOK /\ RegistrationIdentity /\ [NNext]_nvars => [\A code \in DOMAIN games : Kept(code)]_nvars
  BY <1>1
<1> QED BY <1>2, TypeCorrect, IdentityInvariant, PTL DEF NSpec, ListingSafe

\* Every step of the shell has the shape of a seat step.
LEMMA StepSeats ==
    ASSUME NTypeOK, [NNext]_nvars
    PROVE  SeatShape
<1>1. TypeOK /\ observed \in SUBSET Registration
  BY DEF NTypeOK
<1>2. ASSUME NEW c \in Conns, ReadOnlyFrame(c) \/ MutatingFrame(c) \/ Disconnect(c)
      PROVE  SeatShape
  BY <1>1, <1>2, FrameSeats
<1>3. CASE Tick \/ ConsumeExpired
  BY <1>1, <1>3, BackgroundFrees DEF ConsumeExpired, SeatShape
<1>4. CASE ReportExpired \/ UNCHANGED nvars
  BY <1>4 DEF ReportExpired, nvars, vars, Frees, SeatShape
<1> QED BY <1>2, <1>3, <1>4 DEF NNext

\* No seat leaks: every pending reservation belongs to an open socket, whose
\* close gives it back (on_disconnect), whatever lapses, is consumed or reaped.
THEOREM SeatsAreHeld == NSpec => []NoLeakedSeat
<1>1. NInit => NoLeakedSeat
  BY DEF NInit, Init, EmptyMap, NoLeakedSeat
<1>2. NTypeOK /\ NoLeakedSeat /\ [NNext]_nvars => NoLeakedSeat'
  BY StepSeats, SeatShapeKeepsSeats
<1> QED BY <1>1, <1>2, TypeCorrect, PTL DEF NSpec

\* A guest never holds two seats of one table (handle_lookup), across releases,
\* lapses, consumption by the host and re-registration of the code.
THEOREM OneSeatEach == NSpec => []OneSeatPerGuest
<1>1. NInit => OneToken
  BY DEF NInit, Init, EmptyMap, OneToken
<1>2. NTypeOK /\ OneToken /\ [NNext]_nvars => OneToken'
  BY StepSeats, SeatShapeKeepsSeats
<1>3. OneToken => OneSeatPerGuest
  BY OneTokenIsOneSeat
<1> QED BY <1>1, <1>2, <1>3, TypeCorrect, PTL DEF NSpec

\* When codes drawn at random are free, deltas applied to a snapshot keep every
\* subscriber's list right: the invariant behind the two theorems on the feed.
LEMMA FeedHolds == ASSUME ~MintCollides PROVE NSpec => []FeedInv
<1>1. NInit => FeedInv
  BY DEF NInit, Init, FeedInv, FeedOf
<1>2. ASSUME NTypeOK, FeedInv, [NNext]_nvars PROVE FeedInv'
  <2>1. TypeOK
    BY <1>2 DEF NTypeOK
  <2>2. CASE ReportExpired \/ UNCHANGED nvars
    BY <1>2, <2>2 DEF ReportExpired, nvars, vars, FeedInv, FeedOf, Greeted
  <2>3. CASE Tick \/ ConsumeExpired
    BY <1>2, <2>1, <2>3, BackgroundFeed DEF ConsumeExpired
  <2> QED BY <1>2, <2>1, <2>2, <2>3, FrameFeed DEF NNext
<1> QED BY <1>1, <1>2, TypeCorrect, PTL DEF NSpec

\* A subscriber lists exactly the public games of compatible builds, whoever
\* creates, updates, withdraws or reaps them and whenever it subscribed.
THEOREM FeedIsExact == ASSUME ~MintCollides PROVE NSpec => []FeedMatchesRegistry
<1>1. FeedInv => FeedMatchesRegistry
  BY FeedInvGives
<1> QED BY <1>1, FeedHolds, PTL

\* A row never shows a seat as free that the registry counts as taken, although
\* joins, lapses and clean-ups are not announced, and shows the table's size.
THEOREM FeedIsCautious == ASSUME ~MintCollides PROVE NSpec => []FeedNeverUndercounts
<1>1. FeedInv => FeedNeverUndercounts
  BY FeedInvGives
<1> QED BY <1>1, FeedHolds, PTL
=============================================================================
