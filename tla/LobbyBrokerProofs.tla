-------------------------- MODULE LobbyBrokerProofs --------------------------
(***************************************************************************)
(* Lemmas on the broker's handlers, for both of its shells.  First, on the *)
(* registry's operators: each keeps a registry well formed and, but for    *)
(* register_game, gives no listing a new identity.                         *)
(*                                                                         *)
(* Every step either inherits the registry (listings are dropped or        *)
(* changed, none gets a new identity, sockets keep or lose their stamp) or *)
(* claims one code for one socket with a generation never used before.     *)
(* That shape is proved once per action; the identity invariant and the    *)
(* action properties follow from the shape alone.                          *)
(***************************************************************************)
EXTENDS LobbyBroker, FiniteSetTheorems, TLAPS

-----------------------------------------------------------------------------
(* The registry. *)

Valid(g) == IsMap(g, Codes, Listing)

\* The registry with the listing under `code' replaced by m.
Replaced(g, code, m) == [g EXCEPT ![code] = m]

\* The listing m with the reservations r.
Rebooked(m, r) == [m EXCEPT !.reservations = r]

\* h lists nothing that g does not list with the same identity.
Descends(g, h) ==
    /\ DOMAIN h \subseteq DOMAIN g
    /\ \A code \in DOMAIN h : h[code].generation = g[code].generation

-----------------------------------------------------------------------------
(* Maps. *)

\* A map stays one when an entry is set.
LEMMA WithIsMap ==
    ASSUME NEW D, NEW R, NEW f, IsMap(f, D, R), NEW x \in D, NEW y \in R
    PROVE  /\ IsMap(With(f, x, y), D, R)
           /\ DOMAIN With(f, x, y) = (DOMAIN f) \cup {x}
           /\ With(f, x, y)[x] = y
           /\ \A z \in DOMAIN f : z # x => With(f, x, y)[z] = f[z]
<1>1. PICK S \in SUBSET D : f \in [S -> R]
  BY DEF IsMap
<1>2. With(f, x, y) \in [S \cup {x} -> R]
  BY <1>1 DEF With
<1>3. S \cup {x} \in SUBSET D
  BY <1>1
<1> QED
  BY <1>1, <1>2, <1>3 DEF IsMap, With

\* A map stays one when entries are removed.
LEMMA WithoutIsMap ==
    ASSUME NEW D, NEW R, NEW f, IsMap(f, D, R), NEW Gone
    PROVE  /\ IsMap(Without(f, Gone), D, R)
           /\ DOMAIN Without(f, Gone) = (DOMAIN f) \ Gone
           /\ \A z \in (DOMAIN f) \ Gone : Without(f, Gone)[z] = f[z]
<1>1. PICK S \in SUBSET D : f \in [S -> R]
  BY DEF IsMap
<1>2. Without(f, Gone) \in [S \ Gone -> R]
  BY <1>1 DEF Without
<1>3. S \ Gone \in SUBSET D
  BY <1>1
<1> QED
  BY <1>1, <1>2, <1>3 DEF IsMap, Without

\* A map built pointwise over part of its keys is one.
LEMMA PointwiseIsMap ==
    ASSUME NEW D, NEW R, NEW S \in SUBSET D, NEW f \in [S -> R]
    PROVE  IsMap(f, D, R) /\ DOMAIN f = S
BY DEF IsMap

\* A listing's reservations are a map from tokens.
LEMMA ReservationsAreMaps == \A r : r \in Reservations <=> IsMap(r, Tokens, 0..ReservationTicks)
BY DEF Reservations, IsMap

\* The parts of a well-formed registry.
LEMMA ValidParts ==
    ASSUME NEW g, Valid(g)
    PROVE  /\ DOMAIN g \subseteq Codes
           /\ g \in [DOMAIN g -> Listing]
           /\ \A code \in DOMAIN g :
                /\ g[code] \in Listing
                /\ IsMap(g[code].reservations, Tokens, 0..ReservationTicks)
                /\ DOMAIN g[code].reservations \subseteq Tokens
                /\ IsFiniteSet(DOMAIN g[code].reservations)
<1>1. PICK S \in SUBSET Codes : g \in [S -> Listing]
  BY DEF Valid, IsMap
<1>2. S = DOMAIN g
  BY <1>1
<1>3. ASSUME NEW code \in DOMAIN g
      PROVE  /\ g[code] \in Listing
             /\ IsMap(g[code].reservations, Tokens, 0..ReservationTicks)
             /\ DOMAIN g[code].reservations \subseteq Tokens
             /\ IsFiniteSet(DOMAIN g[code].reservations)
  <2>1. g[code] \in Listing
    BY <1>1
  <2>2. g[code].reservations \in Reservations
    BY <2>1 DEF Listing, Meta
  <2>3. IsMap(g[code].reservations, Tokens, 0..ReservationTicks)
    BY <2>2, ReservationsAreMaps
  <2>4. DOMAIN g[code].reservations \subseteq Tokens
    BY <2>3 DEF IsMap
  <2>5. IsFiniteSet(DOMAIN g[code].reservations)
    BY <2>4, FS_Subset, RegistryConstants
  <2> QED BY <2>1, <2>3, <2>4, <2>5
<1> QED
  BY <1>1, <1>2, <1>3

\* A well-formed registry stays one when a listed entry is replaced by a
\* listing of the same generation.
LEMMA ReplaceIsValid ==
    ASSUME NEW g, Valid(g), NEW code \in DOMAIN g, NEW m \in Listing,
           m.generation = g[code].generation
    PROVE  /\ Valid(Replaced(g, code, m))
           /\ Descends(g, Replaced(g, code, m))
           /\ DOMAIN Replaced(g, code, m) = DOMAIN g
           /\ Replaced(g, code, m)[code] = m
           /\ \A k \in DOMAIN g : k # code => Replaced(g, code, m)[k] = g[k]
<1>1. /\ DOMAIN g \in SUBSET Codes
      /\ g \in [DOMAIN g -> Listing]
  BY ValidParts
<1>2. Replaced(g, code, m) \in [DOMAIN g -> Listing]
  BY <1>1 DEF Replaced
<1> QED
  BY <1>1, <1>2 DEF Valid, IsMap, Descends, Replaced

\* Descent composes.
LEMMA DescendsTransitive ==
    ASSUME NEW f, NEW g, NEW h, Descends(f, g), Descends(g, h)
    PROVE  Descends(f, h)
BY DEF Descends

\* A registry descends from itself.
LEMMA DescendsReflexive == ASSUME NEW g PROVE Descends(g, g)
BY DEF Descends

-----------------------------------------------------------------------------
(* Operators. *)

\* Dropping listings.
LEMMA WithoutDescends ==
    ASSUME NEW g, Valid(g), NEW Gone
    PROVE  /\ Valid(Without(g, Gone))
           /\ Descends(g, Without(g, Gone))
<1>1. IsMap(g, Codes, Listing)
  BY DEF Valid
<1>2. /\ IsMap(Without(g, Gone), Codes, Listing)
      /\ DOMAIN Without(g, Gone) = (DOMAIN g) \ Gone
      /\ \A z \in (DOMAIN g) \ Gone : Without(g, Gone)[z] = g[z]
  BY <1>1, WithoutIsMap
<1> QED
  BY <1>2 DEF Valid, Descends

\* unregister_registration.
LEMMA UnregisterDescends ==
    ASSUME NEW g, Valid(g), NEW r
    PROVE  /\ Valid(unregister_registration(g, r))
           /\ Descends(g, unregister_registration(g, r))
BY WithoutDescends, DescendsReflexive DEF unregister_registration

\* refresh_liveness.
LEMMA RefreshDescends ==
    ASSUME NEW g, Valid(g), NEW r
    PROVE  /\ Valid(refresh_liveness(g, r))
           /\ Descends(g, refresh_liveness(g, r))
           /\ DOMAIN refresh_liveness(g, r) = DOMAIN g
<1>1. CASE ~liveness_refresh_due(g, r)
  BY <1>1, DescendsReflexive DEF refresh_liveness
<1>2. CASE liveness_refresh_due(g, r)
  <2> DEFINE m == [g[r.code] EXCEPT !.age = 0]
  <2>1. r.code \in DOMAIN g
    BY <1>2 DEF liveness_refresh_due, is_current
  <2>2. g[r.code] \in Listing
    BY <2>1, ValidParts
  <2>3. m \in Listing /\ m.generation = g[r.code].generation
    BY <2>2, RegistryConstants DEF Listing, Meta
  <2>4. refresh_liveness(g, r) = Replaced(g, r.code, m)
    BY <1>2 DEF refresh_liveness, Replaced
  <2> HIDE DEF m
  <2> QED BY <2>1, <2>3, <2>4, ReplaceIsValid
<1> QED BY <1>1, <1>2

\* A listing with other reservations is a listing of the same generation.
LEMMA ReservationsReplaced ==
    ASSUME NEW m \in Listing, NEW r, IsMap(r, Tokens, 0..ReservationTicks)
    PROVE  /\ Rebooked(m, r) \in Listing
           /\ Rebooked(m, r).generation = m.generation
           /\ Rebooked(m, r).reservations = r
           /\ Rebooked(m, r).current = m.current
           /\ Rebooked(m, r).max = m.max
<1>1. r \in Reservations
  BY ReservationsAreMaps
<1>2. Rebooked(m, r) \in Listing
  BY <1>1 DEF Listing, Meta, Rebooked
<1> QED BY <1>2 DEF Listing, Meta, Rebooked

\* cleanup_expired_for.
LEMMA CleanupListing ==
    ASSUME NEW m \in Listing
    PROVE  /\ cleanup_expired_for(m) \in Listing
           /\ cleanup_expired_for(m).generation = m.generation
           /\ DOMAIN cleanup_expired_for(m).reservations \subseteq DOMAIN m.reservations
<1> DEFINE r == m.reservations
           lapsed == {t \in DOMAIN r : r[t] = 0}
           s == Without(r, lapsed)
<1>1. r \in Reservations
  BY DEF Listing, Meta
<1>2. IsMap(r, Tokens, 0..ReservationTicks)
  BY <1>1, ReservationsAreMaps
<1>3. IsMap(s, Tokens, 0..ReservationTicks) /\ DOMAIN s \subseteq DOMAIN r
  <2> HIDE DEF lapsed, r
  <2>1. IsMap(Without(r, lapsed), Tokens, 0..ReservationTicks)
    BY <1>2, WithoutIsMap
  <2>2. DOMAIN Without(r, lapsed) \subseteq DOMAIN r
    BY DEF Without
  <2> QED BY <2>1, <2>2
<1>4. cleanup_expired_for(m) = Rebooked(m, s)
  BY DEF cleanup_expired_for, Rebooked
<1> HIDE DEF s
<1> QED BY <1>3, <1>4, ReservationsReplaced

\* cleanup_expired_reservations.
LEMMA CleanupDescends ==
    ASSUME NEW g, Valid(g), NEW code \in DOMAIN g
    PROVE  /\ Valid(cleanup_expired_reservations(g, code))
           /\ Descends(g, cleanup_expired_reservations(g, code))
           /\ DOMAIN cleanup_expired_reservations(g, code) = DOMAIN g
<1>1. g[code] \in Listing
  BY ValidParts
<1>2. cleanup_expired_reservations(g, code) = Replaced(g, code, cleanup_expired_for(g[code]))
  BY DEF cleanup_expired_reservations, Replaced
<1> QED BY <1>1, <1>2, CleanupListing, ReplaceIsValid

\* release_reservation.
LEMMA ReleaseDescends ==
    ASSUME NEW g, Valid(g), NEW code \in DOMAIN g, NEW token
    PROVE  /\ Valid(release_reservation(g, code, token))
           /\ Descends(g, release_reservation(g, code, token))
           /\ DOMAIN release_reservation(g, code, token) = DOMAIN g
<1> DEFINE s == Without(g[code].reservations, {token})
<1>1. /\ g[code] \in Listing
      /\ IsMap(g[code].reservations, Tokens, 0..ReservationTicks)
  BY ValidParts
<1>2. IsMap(s, Tokens, 0..ReservationTicks)
  BY <1>1, WithoutIsMap
<1>3. release_reservation(g, code, token) = Replaced(g, code, Rebooked(g[code], s))
  BY DEF release_reservation, Replaced, Rebooked
<1> HIDE DEF s
<1> QED BY <1>1, <1>2, <1>3, ReservationsReplaced, ReplaceIsValid

\* reserve_seat.
LEMMA ReserveDescends ==
    ASSUME NEW g, Valid(g), NEW code \in DOMAIN g, NEW token \in Tokens
    PROVE  /\ Valid(reserve_seat(g, code, token))
           /\ Descends(g, reserve_seat(g, code, token))
           /\ DOMAIN reserve_seat(g, code, token) = DOMAIN g
<1> DEFINE s == With(g[code].reservations, token, ReservationTicks)
<1>1. /\ g[code] \in Listing
      /\ IsMap(g[code].reservations, Tokens, 0..ReservationTicks)
  BY ValidParts
<1>2. ReservationTicks \in 0..ReservationTicks
  BY RegistryConstants
<1>3. IsMap(s, Tokens, 0..ReservationTicks)
  BY <1>1, <1>2, WithIsMap
<1>4. reserve_seat(g, code, token) = Replaced(g, code, Rebooked(g[code], s))
  BY DEF reserve_seat, Replaced, Rebooked
<1> HIDE DEF s
<1> QED BY <1>1, <1>3, <1>4, ReservationsReplaced, ReplaceIsValid

\* release_reservations.
LEMMA ReleaseAllDescends ==
    ASSUME NEW g, Valid(g), NEW pairs
    PROVE  /\ Valid(release_reservations(g, pairs))
           /\ Descends(g, release_reservations(g, pairs))
           /\ DOMAIN release_reservations(g, pairs) = DOMAIN g
<1> DEFINE s(code) == Without(g[code].reservations, {t \in Tokens : <<code, t>> \in pairs})
           h == [code \in DOMAIN g |-> Rebooked(g[code], s(code))]
<1>1. ASSUME NEW code \in DOMAIN g
      PROVE  /\ Rebooked(g[code], s(code)) \in Listing
             /\ Rebooked(g[code], s(code)).generation = g[code].generation
  <2>1. /\ g[code] \in Listing
        /\ IsMap(g[code].reservations, Tokens, 0..ReservationTicks)
    BY ValidParts
  <2>2. IsMap(s(code), Tokens, 0..ReservationTicks)
    BY <2>1, WithoutIsMap
  <2> HIDE DEF s
  <2> QED BY <2>1, <2>2, ReservationsReplaced
<1>2. release_reservations(g, pairs) = h
  BY DEF release_reservations, Rebooked
<1>3. DOMAIN g \in SUBSET Codes
  BY ValidParts
<1> HIDE DEF s
<1>4. h \in [DOMAIN g -> Listing]
  BY <1>1
<1>5. Valid(h) /\ DOMAIN h = DOMAIN g
  BY <1>3, <1>4 DEF Valid, IsMap
<1>6. Descends(g, h)
  BY <1>1 DEF Descends
<1> QED BY <1>2, <1>5, <1>6

\* consume_reservations.
LEMMA ConsumeDescends ==
    ASSUME NEW g, Valid(g), NEW code \in DOMAIN g, NEW tokens
    PROVE  /\ Valid(consume_reservations(g, code, tokens))
           /\ Descends(g, consume_reservations(g, code, tokens))
           /\ DOMAIN consume_reservations(g, code, tokens) = DOMAIN g
<1> DEFINE m == g[code]
           taken == tokens \cap DOMAIN m.reservations
           s == Without(m.reservations, taken)
           seated == Lesser(m.current + Cardinality(taken), m.max)
           n == [Rebooked(m, s) EXCEPT !.current = seated]
<1>1. /\ m \in Listing
      /\ IsMap(m.reservations, Tokens, 0..ReservationTicks)
      /\ IsFiniteSet(DOMAIN m.reservations)
  BY ValidParts
<1>2. IsMap(s, Tokens, 0..ReservationTicks)
  <2> HIDE DEF taken
  <2> QED BY <1>1, WithoutIsMap
<1>3. Cardinality(taken) \in Nat
  BY <1>1, FS_Intersection, FS_CardinalityType
<1>4. m.current \in 0..MaxSeats /\ m.max \in 1..MaxSeats
  BY <1>1 DEF Listing, Meta
<1>5. seated \in 0..MaxSeats /\ seated <= m.max
  <2> HIDE DEF taken, m
  <2> QED BY <1>3, <1>4, RegistryConstants DEF Lesser
<1>6. Rebooked(m, s) \in Listing /\ Rebooked(m, s).generation = m.generation
      /\ Rebooked(m, s).max = m.max
  <2>1. Rebooked(m, s).max = m.max
    BY <1>1 DEF Rebooked, Listing, Meta
  <2> HIDE DEF s, m
  <2> QED BY <1>1, <1>2, <2>1, ReservationsReplaced
<1>7. n \in Listing /\ n.generation = m.generation
  <2> HIDE DEF seated, m, s
  <2> QED BY <1>5, <1>6 DEF Listing, Meta
<1>8. consume_reservations(g, code, tokens) = Replaced(g, code, n)
  BY DEF consume_reservations, Replaced, Rebooked
<1> HIDE DEF n
<1> QED BY <1>7, <1>8, ReplaceIsValid

\* A listing with other seat counts is a listing of the same generation.
LEMMA SeatsReplaced ==
    ASSUME NEW m \in Listing, NEW cur \in 0..MaxSeats, NEW max \in 1..MaxSeats, cur <= max
    PROVE  /\ [m EXCEPT !.current = cur, !.max = max] \in Listing
           /\ [m EXCEPT !.current = cur, !.max = max].generation = m.generation
BY DEF Listing, Meta

\* One tick ages listings and changes nothing else about them.
LEMMA AgedDescends ==
    ASSUME NEW g, Valid(g)
    PROVE  /\ Valid(Aged(g))
           /\ Descends(g, Aged(g))
           /\ DOMAIN Aged(g) = DOMAIN g
<1> DEFINE age(code) == Lesser(g[code].age + 1, TimeoutTicks + 1)
           res(code) == [t \in DOMAIN g[code].reservations |->
                            Greater(g[code].reservations[t] - 1, 0)]
           m(code) == [Rebooked(g[code], res(code)) EXCEPT !.age = age(code)]
           h == [code \in DOMAIN g |-> m(code)]
<1>1. ASSUME NEW code \in DOMAIN g
      PROVE  m(code) \in Listing /\ m(code).generation = g[code].generation
  <2>1. /\ g[code] \in Listing
        /\ IsMap(g[code].reservations, Tokens, 0..ReservationTicks)
    BY ValidParts
  <2>2. PICK S \in SUBSET Tokens : g[code].reservations \in [S -> 0..ReservationTicks]
    BY <2>1 DEF IsMap
  <2>3. res(code) \in [S -> 0..ReservationTicks]
    <3>1. ASSUME NEW n \in 0..ReservationTicks PROVE Greater(n - 1, 0) \in 0..ReservationTicks
      BY RegistryConstants DEF Greater
    <3> QED BY <2>2, <3>1
  <2>4. IsMap(res(code), Tokens, 0..ReservationTicks)
    BY <2>3 DEF IsMap
  <2>5. age(code) \in 0..(TimeoutTicks + 1)
    <3>1. g[code].age \in 0..(TimeoutTicks + 1)
      BY <2>1 DEF Listing, Meta
    <3> QED BY <3>1, RegistryConstants DEF Lesser
  <2>6. /\ Rebooked(g[code], res(code)) \in Listing
        /\ Rebooked(g[code], res(code)).generation = g[code].generation
    <3> HIDE DEF res
    <3> QED BY <2>1, <2>4, ReservationsReplaced
  <2> HIDE DEF res, age
  <2> QED BY <2>5, <2>6 DEF Listing, Meta
<1>2. Aged(g) = h
  BY DEF Aged, Rebooked
<1>3. DOMAIN g \in SUBSET Codes
  BY ValidParts
<1> HIDE DEF m
<1>4. h \in [DOMAIN g -> Listing]
  BY <1>1
<1>5. Valid(h) /\ DOMAIN h = DOMAIN g
  BY <1>3, <1>4 DEF Valid, IsMap
<1>6. Descends(g, h)
  BY <1>1 DEF Descends
<1> QED BY <1>2, <1>5, <1>6

\* One code is listed anew and the others are left alone.
ListsAnew(g, h, code, n) ==
    /\ Valid(h)
    /\ DOMAIN h = (DOMAIN g) \cup {code}
    /\ h[code].generation = n
    /\ \A k \in DOMAIN g : k # code => h[k] = g[k]

\* register_game lists one code anew and leaves the others alone.
LEMMA RegisterAdds ==
    ASSUME NEW g, Valid(g), NEW code \in Codes, NEW n \in Nat, NEW public \in BOOLEAN,
           NEW commit \in Commits, NEW seats \in 2..MaxSeats
    PROVE  ListsAnew(g, register_game(g, code, n, public, commit, seats), code, n)
<1> DEFINE m == [generation |-> n, public |-> public, commit |-> commit,
                 current |-> 1, max |-> seats, reservations |-> EmptyMap, age |-> 0]
<1>1. EmptyMap \in [{} -> 0..ReservationTicks]
  BY DEF EmptyMap
<1>2. IsMap(EmptyMap, Tokens, 0..ReservationTicks)
  BY <1>1 DEF IsMap
<1>3. EmptyMap \in Reservations
  BY <1>2, ReservationsAreMaps
<1>4. m \in Listing /\ m.generation = n
  BY <1>3, RegistryConstants DEF Listing, Meta
<1>5. register_game(g, code, n, public, commit, seats) = With(g, code, m)
  BY DEF register_game
<1>6. IsMap(g, Codes, Listing)
  BY DEF Valid
<1> HIDE DEF m
<1>7. /\ IsMap(With(g, code, m), Codes, Listing)
      /\ DOMAIN With(g, code, m) = (DOMAIN g) \cup {code}
      /\ With(g, code, m)[code] = m
      /\ \A z \in DOMAIN g : z # code => With(g, code, m)[z] = g[z]
  <2>1. ASSUME NEW y \in Listing
        PROVE  /\ IsMap(With(g, code, y), Codes, Listing)
               /\ DOMAIN With(g, code, y) = (DOMAIN g) \cup {code}
               /\ With(g, code, y)[code] = y
               /\ \A z \in DOMAIN g : z # code => With(g, code, y)[z] = g[z]
    BY ONLY <1>6, WithIsMap, code \in Codes, y \in Listing, SMTT(30)
  <2>2. m \in Listing
    BY <1>4
  <2> QED BY ONLY <2>1, <2>2
<1> QED BY <1>4, <1>5, <1>7 DEF Valid, ListsAnew

\* A row of the public list counts between no seat and the whole table.
LEMMA RowType ==
    ASSUME NEW g, Valid(g), NEW code \in DOMAIN g
    PROVE  meta_to_lobby_game(g[code]) \in Row
<1>1. g[code] \in Listing /\ IsFiniteSet(DOMAIN g[code].reservations)
  BY ValidParts
<1>2. Cardinality(DOMAIN g[code].reservations) \in Nat
  BY <1>1, FS_CardinalityType
<1>3. g[code].current \in 0..MaxSeats /\ g[code].max \in 1..MaxSeats
  BY <1>1 DEF Listing, Meta
<1> QED BY <1>2, <1>3, RegistryConstants DEF meta_to_lobby_game, Row, Occupied, Lesser

-----------------------------------------------------------------------------
(* What an unannounced change may do to a listing. *)

\* n is the listing m with no more seats taken: same identity and table, some
\* of its reservations.
Milder(m, n) ==
    /\ n.generation = m.generation
    /\ n.public = m.public
    /\ n.commit = m.commit
    /\ n.max = m.max
    /\ DOMAIN n.reservations \subseteq DOMAIN m.reservations
    /\ meta_to_lobby_game(n).current <= meta_to_lobby_game(m).current

\* Every listing of h is one of g, no fuller.
Eases(g, h) ==
    /\ DOMAIN h \subseteq DOMAIN g
    /\ \A code \in DOMAIN h : Milder(g[code], h[code])

\* The counts a listing's row is computed from.
LEMMA ListingCounts ==
    ASSUME NEW m \in Listing
    PROVE  /\ m.current \in 0..MaxSeats /\ m.max \in 1..MaxSeats
           /\ IsFiniteSet(DOMAIN m.reservations)
           /\ Cardinality(DOMAIN m.reservations) \in Nat
           /\ meta_to_lobby_game(m).current \in 0..MaxSeats
           /\ meta_to_lobby_game(m).current
                = Lesser(m.current + Cardinality(DOMAIN m.reservations), m.max)
           /\ meta_to_lobby_game(m).max = m.max
<1>1. m.current \in 0..MaxSeats /\ m.max \in 1..MaxSeats /\ m.reservations \in Reservations
  BY DEF Listing, Meta
<1>2. DOMAIN m.reservations \subseteq Tokens
  BY <1>1, ReservationsAreMaps DEF IsMap
<1>3. IsFiniteSet(DOMAIN m.reservations)
  BY <1>2, FS_Subset, RegistryConstants
<1>4. Cardinality(DOMAIN m.reservations) \in Nat
  BY <1>3, FS_CardinalityType
<1>5. /\ meta_to_lobby_game(m).current
            = Lesser(m.current + Cardinality(DOMAIN m.reservations), m.max)
      /\ meta_to_lobby_game(m).max = m.max
  BY DEF meta_to_lobby_game, Occupied
<1>6. Lesser(m.current + Cardinality(DOMAIN m.reservations), m.max) \in 0..MaxSeats
  <2> DEFINE a == m.current
             b == Cardinality(DOMAIN m.reservations)
             d == m.max
  <2>1. a \in 0..MaxSeats /\ b \in Nat /\ d \in 1..MaxSeats
    BY <1>1, <1>4
  <2> HIDE DEF a, b, d
  <2>2. Lesser(a + b, d) \in 0..MaxSeats
    BY <2>1, RegistryConstants DEF Lesser
  <2> QED BY <2>2 DEF a, b, d
<1> QED BY <1>1, <1>3, <1>4, <1>5, <1>6

\* A listing with some of its reservations gone is milder.
LEMMA FewerIsMilder ==
    ASSUME NEW m \in Listing, NEW n \in Listing,
           n.generation = m.generation, n.public = m.public, n.commit = m.commit,
           n.max = m.max, n.current = m.current,
           DOMAIN n.reservations \subseteq DOMAIN m.reservations
    PROVE  Milder(m, n)
<1> DEFINE a == Cardinality(DOMAIN m.reservations)
           b == Cardinality(DOMAIN n.reservations)
           x == m.current
           y == m.max
<1>1. a \in Nat /\ b \in Nat /\ x \in 0..MaxSeats /\ y \in 1..MaxSeats
  BY ListingCounts
<1>2. b <= a
  BY ListingCounts, FS_Subset
<1>3. /\ meta_to_lobby_game(m).current = Lesser(x + a, y)
      /\ meta_to_lobby_game(n).current = Lesser(x + b, y)
  BY ListingCounts
<1> HIDE DEF a, b, x, y
<1>4. Lesser(x + b, y) <= Lesser(x + a, y)
  BY <1>1, <1>2, RegistryConstants DEF Lesser
<1> QED BY <1>3, <1>4 DEF Milder

\* Replacing a listing by a milder one.
LEMMA EaseOne ==
    ASSUME NEW g, Valid(g), NEW code \in DOMAIN g, NEW m, Milder(g[code], m)
    PROVE  Eases(g, Replaced(g, code, m)) /\ DOMAIN Replaced(g, code, m) = DOMAIN g
<1>1. \A k \in DOMAIN g : Milder(g[k], g[k])
  BY ValidParts, FewerIsMilder
<1>2. g = [k \in DOMAIN g |-> g[k]]
  BY ValidParts
<1> QED BY <1>1, <1>2 DEF Eases, Replaced

\* A registry eases itself.
LEMMA EasesReflexive ==
    ASSUME NEW g, Valid(g)
    PROVE  Eases(g, g)
BY ValidParts, FewerIsMilder DEF Eases

\* Easing composes.
LEMMA EasesTransitive ==
    ASSUME NEW f, NEW g, NEW h, Valid(f), Valid(g), Valid(h), Eases(f, g), Eases(g, h)
    PROVE  Eases(f, h)
<1>1. DOMAIN h \subseteq DOMAIN g /\ DOMAIN g \subseteq DOMAIN f
  BY DEF Eases
<1>2. ASSUME NEW code \in DOMAIN h PROVE Milder(f[code], h[code])
  <2>1. Milder(f[code], g[code]) /\ Milder(g[code], h[code])
    BY <1>1 DEF Eases
  <2>2. f[code] \in Listing /\ g[code] \in Listing /\ h[code] \in Listing
    BY <1>1, ValidParts
  <2> DEFINE a == meta_to_lobby_game(f[code]).current
             b == meta_to_lobby_game(g[code]).current
             d == meta_to_lobby_game(h[code]).current
  <2>3. a \in 0..MaxSeats /\ b \in 0..MaxSeats /\ d \in 0..MaxSeats
    BY <2>2, ListingCounts
  <2>4. d <= b /\ b <= a
    BY <2>1 DEF Milder
  <2> HIDE DEF a, b, d
  <2>5. d <= a
    BY <2>3, <2>4, RegistryConstants
  <2> QED BY <2>1, <2>5 DEF Milder, a, d
<1> QED BY <1>1, <1>2 DEF Eases

\* Dropping listings, unregister_registration.
LEMMA WithoutEases ==
    ASSUME NEW g, Valid(g), NEW Gone
    PROVE  Eases(g, Without(g, Gone))
BY ValidParts, FewerIsMilder DEF Eases, Without

\* refresh_liveness.
LEMMA RefreshEases ==
    ASSUME NEW g, Valid(g), NEW r
    PROVE  Eases(g, refresh_liveness(g, r))
<1>1. CASE ~liveness_refresh_due(g, r)
  BY <1>1, EasesReflexive DEF refresh_liveness
<1>2. CASE liveness_refresh_due(g, r)
  <2> DEFINE m == [g[r.code] EXCEPT !.age = 0]
  <2>1. r.code \in DOMAIN g
    BY <1>2 DEF liveness_refresh_due, is_current
  <2>2. g[r.code] \in Listing
    BY <2>1, ValidParts
  <2>3. /\ m \in Listing /\ m.generation = g[r.code].generation
        /\ m.public = g[r.code].public /\ m.commit = g[r.code].commit
        /\ m.max = g[r.code].max /\ m.current = g[r.code].current
        /\ m.reservations = g[r.code].reservations
    BY <2>2, RegistryConstants DEF Listing, Meta
  <2>4. refresh_liveness(g, r) = Replaced(g, r.code, m)
    BY <1>2 DEF refresh_liveness, Replaced
  <2> HIDE DEF m
  <2>5. Milder(g[r.code], m)
    BY <2>2, <2>3, FewerIsMilder
  <2> QED BY <2>1, <2>4, <2>5, EaseOne
<1> QED BY <1>1, <1>2

\* A listing with fewer reservations.
LEMMA RebookedMilder ==
    ASSUME NEW m \in Listing, NEW r, IsMap(r, Tokens, 0..ReservationTicks),
           DOMAIN r \subseteq DOMAIN m.reservations
    PROVE  Milder(m, Rebooked(m, r))
<1>1. Rebooked(m, r) \in Listing /\ Rebooked(m, r).reservations = r
  BY ReservationsReplaced
<1>2. /\ Rebooked(m, r).generation = m.generation /\ Rebooked(m, r).public = m.public
      /\ Rebooked(m, r).commit = m.commit /\ Rebooked(m, r).max = m.max
      /\ Rebooked(m, r).current = m.current
  BY DEF Rebooked, Listing, Meta
<1> QED BY <1>1, <1>2, FewerIsMilder

\* cleanup_expired_reservations.
LEMMA CleanupEases ==
    ASSUME NEW g, Valid(g), NEW code \in DOMAIN g
    PROVE  Eases(g, cleanup_expired_reservations(g, code))
<1> DEFINE r == g[code].reservations
           s == Without(r, {t \in DOMAIN r : r[t] = 0})
<1>1. g[code] \in Listing /\ IsMap(r, Tokens, 0..ReservationTicks)
  BY ValidParts
<1>2. DOMAIN s \subseteq DOMAIN r
  BY DEF Without
<1>3. IsMap(s, Tokens, 0..ReservationTicks)
  BY <1>1, WithoutIsMap
<1>4. cleanup_expired_reservations(g, code) = Replaced(g, code, Rebooked(g[code], s))
  BY DEF cleanup_expired_reservations, cleanup_expired_for, Replaced, Rebooked
<1> HIDE DEF s
<1>5. Milder(g[code], Rebooked(g[code], s))
  BY <1>1, <1>2, <1>3, RebookedMilder
<1> QED BY <1>4, <1>5, EaseOne

\* release_reservation takes exactly one token out.
LEMMA ReleaseEases ==
    ASSUME NEW g, Valid(g), NEW code \in DOMAIN g, NEW token
    PROVE  /\ Eases(g, release_reservation(g, code, token))
           /\ token \notin DOMAIN release_reservation(g, code, token)[code].reservations
<1> DEFINE r == g[code].reservations
           s == Without(r, {token})
<1>1. g[code] \in Listing /\ IsMap(r, Tokens, 0..ReservationTicks)
  BY ValidParts
<1>2. DOMAIN s = (DOMAIN r) \ {token}
  BY DEF Without
<1>3. IsMap(s, Tokens, 0..ReservationTicks)
  BY <1>1, WithoutIsMap
<1>4. release_reservation(g, code, token) = Replaced(g, code, Rebooked(g[code], s))
  BY DEF release_reservation, Replaced, Rebooked
<1> HIDE DEF s
<1>5. Milder(g[code], Rebooked(g[code], s)) /\ Rebooked(g[code], s).reservations = s
  BY <1>1, <1>2, <1>3, RebookedMilder, ReservationsReplaced
<1>6. Replaced(g, code, Rebooked(g[code], s))[code] = Rebooked(g[code], s)
  BY DEF Replaced
<1> QED BY <1>2, <1>4, <1>5, <1>6, EaseOne

\* release_reservations takes every held pair out.
LEMMA ReleaseAllEases ==
    ASSUME NEW g, Valid(g), NEW pairs
    PROVE  /\ Eases(g, release_reservations(g, pairs))
           /\ \A code \in DOMAIN g :
                \A t \in DOMAIN release_reservations(g, pairs)[code].reservations :
                    <<code, t>> \notin pairs
<1> DEFINE gone(code) == {t \in Tokens : <<code, t>> \in pairs}
           s(code) == Without(g[code].reservations, gone(code))
           h == [code \in DOMAIN g |-> Rebooked(g[code], s(code))]
<1>1. ASSUME NEW code \in DOMAIN g
      PROVE  /\ Milder(g[code], Rebooked(g[code], s(code)))
             /\ \A t \in DOMAIN Rebooked(g[code], s(code)).reservations : <<code, t>> \notin pairs
  <2>1. /\ g[code] \in Listing
        /\ IsMap(g[code].reservations, Tokens, 0..ReservationTicks)
        /\ DOMAIN g[code].reservations \subseteq Tokens
    BY ValidParts
  <2>2. DOMAIN s(code) = (DOMAIN g[code].reservations) \ gone(code)
    BY DEF Without
  <2>3. IsMap(s(code), Tokens, 0..ReservationTicks)
    BY <2>1, WithoutIsMap
  <2>4. \A t \in DOMAIN s(code) : <<code, t>> \notin pairs
    BY <2>1, <2>2
  <2> HIDE DEF s
  <2>5. /\ Milder(g[code], Rebooked(g[code], s(code)))
        /\ Rebooked(g[code], s(code)).reservations = s(code)
    BY <2>1, <2>2, <2>3, RebookedMilder, ReservationsReplaced
  <2> QED BY <2>4, <2>5
<1>2. release_reservations(g, pairs) = h
  BY DEF release_reservations, Rebooked
<1> HIDE DEF s
<1> QED BY <1>1, <1>2 DEF Eases

\* consume_reservations seats the tokens it takes out: no seat is counted twice.
LEMMA ConsumeEases ==
    ASSUME NEW g, Valid(g), NEW code \in DOMAIN g, NEW tokens
    PROVE  /\ Eases(g, consume_reservations(g, code, tokens))
           /\ \A t \in DOMAIN consume_reservations(g, code, tokens)[code].reservations :
                t \notin tokens
<1> DEFINE m == g[code]
           taken == tokens \cap DOMAIN m.reservations
           s == Without(m.reservations, taken)
           seated == Lesser(m.current + Cardinality(taken), m.max)
           n == [Rebooked(m, s) EXCEPT !.current = seated]
<1>1. /\ m \in Listing
      /\ IsMap(m.reservations, Tokens, 0..ReservationTicks)
      /\ IsFiniteSet(DOMAIN m.reservations)
  BY ValidParts
<1>2. IsMap(s, Tokens, 0..ReservationTicks)
  <2> HIDE DEF taken
  <2> QED BY <1>1, WithoutIsMap
<1>3. DOMAIN s = (DOMAIN m.reservations) \ taken
  BY DEF Without
<1> DEFINE x == m.current
           y == m.max
           a == Cardinality(DOMAIN m.reservations)
           b == Cardinality(taken)
           d == Cardinality(DOMAIN s)
<1>4. x \in 0..MaxSeats /\ y \in 1..MaxSeats /\ a \in Nat
  BY <1>1, ListingCounts
<1>5. IsFiniteSet(taken) /\ b \in Nat
  BY <1>1, FS_Intersection, FS_CardinalityType
<1>6. d = a - b
  <2>1. DOMAIN m.reservations \cap taken = taken
    OBVIOUS
  <2>2. Cardinality((DOMAIN m.reservations) \ taken)
           = Cardinality(DOMAIN m.reservations) - Cardinality((DOMAIN m.reservations) \cap taken)
    BY <1>1, FS_Difference
  <2> HIDE DEF taken
  <2> QED BY <1>3, <2>1, <2>2
<1>7. d \in Nat
  BY <1>1, <1>3, FS_Difference, FS_CardinalityType
<1>8. seated \in 0..MaxSeats /\ seated <= m.max
  <2>1. Lesser(x + b, y) \in 0..MaxSeats /\ Lesser(x + b, y) <= y
    <3> HIDE DEF x, y, b
    <3> QED BY <1>4, <1>5, RegistryConstants DEF Lesser
  <2> QED BY <2>1
<1>9. Rebooked(m, s) \in Listing /\ Rebooked(m, s).reservations = s
  <2> HIDE DEF s, m
  <2> QED BY <1>1, <1>2, ReservationsReplaced
<1>10. /\ n \in Listing /\ n.generation = m.generation /\ n.public = m.public
       /\ n.commit = m.commit /\ n.max = m.max /\ n.reservations = s /\ n.current = seated
  <2>1. /\ Rebooked(m, s).generation = m.generation /\ Rebooked(m, s).public = m.public
        /\ Rebooked(m, s).commit = m.commit /\ Rebooked(m, s).max = m.max
    BY <1>1 DEF Rebooked, Listing, Meta
  <2> HIDE DEF seated, m, s
  <2> QED BY <1>8, <1>9, <2>1 DEF Listing, Meta
<1>11. /\ meta_to_lobby_game(m).current = Lesser(x + a, y)
       /\ meta_to_lobby_game(n).current = Lesser(Lesser(x + b, y) + d, y)
  <2>1. meta_to_lobby_game(n).current = Lesser(n.current + Cardinality(DOMAIN n.reservations), n.max)
    <3> HIDE DEF n
    <3> QED BY <1>10, ListingCounts
  <2>2. meta_to_lobby_game(m).current = Lesser(x + a, y)
    BY <1>1, ListingCounts
  <2> QED BY <1>10, <2>1, <2>2
<1>12. Lesser(Lesser(x + b, y) + d, y) <= Lesser(x + a, y)
  <2> HIDE DEF x, y, a, b, d
  <2> QED BY <1>4, <1>5, <1>6, <1>7, RegistryConstants DEF Lesser
<1>13. Milder(m, n)
  <2>1. DOMAIN n.reservations \subseteq DOMAIN m.reservations
    BY <1>3, <1>10
  <2> QED BY <1>10, <1>11, <1>12, <2>1 DEF Milder
<1>14. consume_reservations(g, code, tokens) = Replaced(g, code, n)
  BY DEF consume_reservations, Replaced, Rebooked
<1>15. Replaced(g, code, n)[code] = n
  BY DEF Replaced
<1>16. \A t \in DOMAIN n.reservations : t \notin tokens
  BY <1>3, <1>10
<1> HIDE DEF n
<1> QED BY <1>13, <1>14, <1>15, <1>16, EaseOne

\* reserve_seat adds one token to one listing.
LEMMA ReserveAdds ==
    ASSUME NEW g, Valid(g), NEW code \in DOMAIN g, NEW token \in Tokens
    PROVE  LET h == reserve_seat(g, code, token)
           IN  /\ DOMAIN h = DOMAIN g
               /\ DOMAIN h[code].reservations = (DOMAIN g[code].reservations) \cup {token}
               /\ h[code].public = g[code].public /\ h[code].commit = g[code].commit
               /\ \A k \in DOMAIN g : k # code => h[k] = g[k]
<1> DEFINE s == With(g[code].reservations, token, ReservationTicks)
<1>1. g[code] \in Listing
  BY ValidParts
<1>2. DOMAIN s = (DOMAIN g[code].reservations) \cup {token}
  BY DEF With
<1>3. reserve_seat(g, code, token) = Replaced(g, code, Rebooked(g[code], s))
  BY DEF reserve_seat, Replaced, Rebooked
<1> HIDE DEF s
<1>4. /\ Rebooked(g[code], s).public = g[code].public
      /\ Rebooked(g[code], s).commit = g[code].commit
      /\ Rebooked(g[code], s).reservations = s
  BY <1>1 DEF Rebooked, Listing, Meta
<1>5. /\ DOMAIN Replaced(g, code, Rebooked(g[code], s)) = DOMAIN g
      /\ Replaced(g, code, Rebooked(g[code], s))[code] = Rebooked(g[code], s)
      /\ \A k \in DOMAIN g : k # code => Replaced(g, code, Rebooked(g[code], s))[k] = g[k]
  BY DEF Replaced
<1> QED BY <1>2, <1>3, <1>4, <1>5

\* One tick takes nothing and gives nothing.
LEMMA AgedEases ==
    ASSUME NEW g, Valid(g)
    PROVE  Eases(g, Aged(g))
<1>1. Valid(Aged(g)) /\ DOMAIN Aged(g) = DOMAIN g
  BY AgedDescends
<1>2. ASSUME NEW code \in DOMAIN g PROVE Milder(g[code], Aged(g)[code])
  <2>1. g[code] \in Listing /\ Aged(g)[code] \in Listing
    BY <1>1, ValidParts
  <2>2. /\ Aged(g)[code].generation = g[code].generation
        /\ Aged(g)[code].public = g[code].public
        /\ Aged(g)[code].commit = g[code].commit
        /\ Aged(g)[code].max = g[code].max
        /\ Aged(g)[code].current = g[code].current
        /\ DOMAIN Aged(g)[code].reservations = DOMAIN g[code].reservations
    BY <2>1 DEF Aged, Listing, Meta
  <2> QED BY <2>1, <2>2, FewerIsMilder
<1> QED BY <1>1, <1>2 DEF Eases

-----------------------------------------------------------------------------
(* The shapes of a step. *)

ViewType(v) ==
    /\ v = [c \in Conns |-> v[c]]
    /\ \A c \in Conns : IsMap(v[c], Codes, Row)

\* The step gives no listing a new identity and no socket a new stamp.
Inherits ==
    /\ Descends(games, games')
    /\ next_generation' = next_generation
    /\ \A c \in Conns : host_game'[c] = host_game[c] \/ host_game'[c] = NoHost

\* The step lists `code' for c under the next generation.
Claims(c, code) ==
    /\ next_generation' = next_generation + 1
    /\ host_game' = [host_game EXCEPT ![c] = [code |-> code, generation |-> next_generation]]
    /\ code \in DOMAIN games'
    /\ games'[code].generation = next_generation
    /\ \A k \in DOMAIN games' : k # code =>
          k \in DOMAIN games /\ games'[k].generation = games[k].generation

-----------------------------------------------------------------------------
(* The prelude, withdrawal and the feed. *)

\* The registry in a typed state is well formed.
LEMMA TypedRegistry == TypeOK => Valid(games)
BY DEF TypeOK, Valid

\* The liveness refresh before a frame.
LEMMA PreludeDescends ==
    ASSUME TypeOK, NEW c \in Conns
    PROVE  /\ Valid(Prelude(c))
           /\ Descends(games, Prelude(c))
           /\ DOMAIN Prelude(c) = DOMAIN games
BY TypedRegistry, RefreshDescends, DescendsReflexive DEF Prelude

\* Withdrawing a socket's own listing.
LEMMA WithdrawnDescends ==
    ASSUME NEW g, Valid(g), NEW c \in Conns
    PROVE  /\ Valid(Withdrawn(g, c))
           /\ Descends(g, Withdrawn(g, c))
BY UnregisterDescends, DescendsReflexive DEF Withdrawn

\* Removals keep the views typed.
LEMMA RemovedViewType ==
    ASSUME NEW v, ViewType(v), NEW gone
    PROVE  ViewType(AnnounceRemoved(v, gone))
<1>1. \A c \in Conns : IsMap(Without(v[c], gone), Codes, Row)
  BY WithoutIsMap DEF ViewType
<1> QED BY <1>1 DEF ViewType, AnnounceRemoved

\* So does a new row.
LEMMA AddedViewType ==
    ASSUME NEW v, ViewType(v), NEW g, Valid(g), NEW code \in Codes
    PROVE  ViewType(AnnounceAdded(v, g, code))
<1>1. ASSUME NEW c \in Conns, listed(g, code)
      PROVE  IsMap(With(v[c], code, meta_to_lobby_game(g[code])), Codes, Row)
  <2>1. code \in DOMAIN g
    BY <1>1 DEF listed
  <2>2. meta_to_lobby_game(g[code]) \in Row
    BY <2>1, RowType
  <2>3. IsMap(v[c], Codes, Row)
    BY DEF ViewType
  <2> QED BY <2>2, <2>3, WithIsMap
<1> QED BY <1>1 DEF ViewType, AnnounceAdded

\* So do updated rows.
LEMMA UpdatedViewType ==
    ASSUME NEW v, ViewType(v), NEW g, Valid(g), NEW codes
    PROVE  ViewType(AnnounceUpdated(v, g, codes))
<1> DEFINE rows == {k \in codes : listed(g, k)}
           shown(c) == {k \in rows : Visible(g, k, c)}
           w(c) == [k \in ((DOMAIN v[c]) \ rows) \cup shown(c) |->
                        IF k \in shown(c) THEN meta_to_lobby_game(g[k]) ELSE v[c][k]]
<1>1. ASSUME NEW c \in Conns PROVE IsMap(w(c), Codes, Row)
  <2>1. PICK S \in SUBSET Codes : v[c] \in [S -> Row]
    BY DEF ViewType, IsMap
  <2>2. \A k \in shown(c) : k \in DOMAIN g /\ meta_to_lobby_game(g[k]) \in Row
    BY RowType DEF listed
  <2>3. DOMAIN g \subseteq Codes
    BY ValidParts
  <2>4. (S \ rows) \cup shown(c) \in SUBSET Codes
    BY <2>1, <2>2, <2>3
  <2> HIDE DEF shown, rows
  <2>5. w(c) \in [(S \ rows) \cup shown(c) -> Row]
    BY <2>1, <2>2
  <2> QED BY <2>4, <2>5 DEF IsMap
<1>2. AnnounceUpdated(v, g, codes) = [c \in Conns |-> IF c \notin feed THEN v[c] ELSE w(c)]
  BY DEF AnnounceUpdated
<1> HIDE DEF w
<1> QED BY <1>1, <1>2 DEF ViewType

\* The view of a socket that leaves the feed.
LEMMA ClearedViewType ==
    ASSUME NEW v, ViewType(v), NEW c \in Conns
    PROVE  ViewType([v EXCEPT ![c] = EmptyMap])
<1>1. EmptyMap \in [{} -> Row]
  BY DEF EmptyMap
<1>2. IsMap(EmptyMap, Codes, Row)
  BY <1>1 DEF IsMap
<1> QED BY <1>2 DEF ViewType

\* The list a subscriber starts from.
LEMMA SnapshotType ==
    ASSUME NEW g, Valid(g), NEW c \in Conns
    PROVE  IsMap(Snapshot(g, c), Codes, Row)
<1> DEFINE S == {k \in DOMAIN g : listed(g, k) /\ Visible(g, k, c)}
<1>1. S \in SUBSET Codes
  BY ValidParts
<1>2. \A k \in S : meta_to_lobby_game(g[k]) \in Row
  BY RowType
<1>3. Snapshot(g, c) = [k \in S |-> meta_to_lobby_game(g[k])]
  BY DEF Snapshot
<1> HIDE DEF S
<1> QED BY <1>1, <1>2, <1>3 DEF IsMap

-----------------------------------------------------------------------------
(* One lemma per action: types and the shape of the step. *)

\* What a typed state says of its parts.
LEMMA TypeParts ==
    ASSUME TypeOK
    PROVE  /\ Valid(games)
           /\ ViewType(view)
           /\ next_generation \in Nat
           /\ \A c \in Conns :
                /\ host_game[c] # NoHost => host_game[c] \in Registration
                /\ client_hello[c] # NoHello => client_hello[c] \in Commits
                /\ held[c] \subseteq Codes \X Tokens
BY BrokerConstants DEF TypeOK, Valid, ViewType

\* ClientHello.
LEMMA HelloStep ==
    ASSUME TypeOK, NEW c \in Conns, NEW commit \in Commits, ClientHello(c, commit)
    PROVE  TypeOK' /\ Inherits
<1>1. Descends(games, games')
  BY DescendsReflexive DEF ClientHello
<1>2. TypeOK'
  BY DEF TypeOK, ClientHello, IsMap
<1> QED BY <1>1, <1>2 DEF ClientHello, Inherits

\* HostFrame.
LEMMA HostFrameStep ==
    ASSUME TypeOK, NEW c \in Conns, HostFrame(c)
    PROVE  TypeOK' /\ Inherits
<1>1. Valid(games') /\ Descends(games, games')
  BY PreludeDescends DEF HostFrame
<1>2. TypeOK'
  BY <1>1 DEF TypeOK, HostFrame, sockets, Valid
<1> QED BY <1>1, <1>2 DEF HostFrame, Inherits, sockets

\* SubscribeLobby.
LEMMA SubscribeStep ==
    ASSUME TypeOK, NEW c \in Conns, SubscribeLobby(c)
    PROVE  TypeOK' /\ Inherits
<1>1. Valid(games') /\ Descends(games, games')
  BY PreludeDescends DEF SubscribeLobby
<1>2. IsMap(Snapshot(games', c), Codes, Row)
  BY <1>1, SnapshotType
<1>3. ViewType(view')
  BY <1>2 DEF TypeOK, ViewType, SubscribeLobby
<1>4. feed' \in SUBSET Conns
  BY DEF TypeOK, SubscribeLobby
<1>5. TypeOK'
  BY <1>1, <1>3, <1>4 DEF TypeOK, SubscribeLobby, Valid, ViewType
<1> QED BY <1>1, <1>5 DEF SubscribeLobby, Inherits

\* UnsubscribeLobby.
LEMMA UnsubscribeStep ==
    ASSUME TypeOK, NEW c \in Conns, UnsubscribeLobby(c)
    PROVE  TypeOK' /\ Inherits
<1>1. Valid(games') /\ Descends(games, games')
  BY PreludeDescends DEF UnsubscribeLobby
<1>2. ViewType(view')
  BY TypeParts, ClearedViewType DEF UnsubscribeLobby
<1>3. TypeOK'
  BY <1>1, <1>2 DEF TypeOK, UnsubscribeLobby, Valid, ViewType
<1> QED BY <1>1, <1>3 DEF UnsubscribeLobby, Inherits

\* CreateGameRefused.
LEMMA CreateRefusedStep ==
    ASSUME TypeOK, NEW c \in Conns, NEW code \in Codes, CreateGameRefused(c, code)
    PROVE  TypeOK' /\ Inherits
<1>1. Valid(Prelude(c)) /\ Descends(games, Prelude(c))
  BY PreludeDescends
<1>2. Valid(games') /\ Descends(Prelude(c), games')
  BY <1>1, WithdrawnDescends DEF CreateGameRefused
<1>3. Descends(games, games')
  BY <1>1, <1>2, DescendsTransitive
<1>4. ViewType(view')
  BY TypeParts, RemovedViewType DEF CreateGameRefused, AnnounceWithdrawn
<1>5. TypeOK'
  BY <1>2, <1>4 DEF TypeOK, CreateGameRefused, Valid, ViewType
<1> QED BY <1>3, <1>5 DEF CreateGameRefused, Inherits, TypeOK

\* UnregisterLobby.
LEMMA UnregisterStep ==
    ASSUME TypeOK, NEW c \in Conns, UnregisterLobby(c)
    PROVE  TypeOK' /\ Inherits
<1>1. Valid(Prelude(c)) /\ Descends(games, Prelude(c))
  BY PreludeDescends
<1>2. Valid(games') /\ Descends(Prelude(c), games')
  BY <1>1, WithdrawnDescends DEF UnregisterLobby
<1>3. Descends(games, games')
  BY <1>1, <1>2, DescendsTransitive
<1>4. ViewType(view')
  BY TypeParts, RemovedViewType DEF UnregisterLobby, AnnounceWithdrawn
<1>5. TypeOK'
  BY <1>2, <1>4 DEF TypeOK, UnregisterLobby, Valid, ViewType
<1> QED BY <1>3, <1>5 DEF UnregisterLobby, Inherits, TypeOK

\* CreateGame: the one step that hands out an identity.
LEMMA CreateStep ==
    ASSUME TypeOK, NEW c \in Conns, NEW code \in Codes, NEW requested \in BOOLEAN,
           NEW public \in BOOLEAN, NEW seats \in 2..MaxSeats,
           CreateGame(c, code, requested, public, seats)
    PROVE  TypeOK' /\ Claims(c, code)
<1> DEFINE g0 == Prelude(c)
           g1 == Withdrawn(g0, c)
<1>1. Valid(g0) /\ Descends(games, g0)
  BY PreludeDescends
<1>2. Valid(g1) /\ Descends(g0, g1)
  BY <1>1, WithdrawnDescends
<1>3. Descends(games, g1)
  BY <1>1, <1>2, DescendsTransitive
<1>4. client_hello[c] \in Commits /\ next_generation \in Nat
  BY TypeParts DEF CreateGame, Greeted
<1> HIDE DEF g1
<1>5. /\ Valid(games')
      /\ DOMAIN games' = (DOMAIN g1) \cup {code}
      /\ games'[code].generation = next_generation
      /\ \A k \in DOMAIN g1 : k # code => games'[k] = g1[k]
  <2> DEFINE h == register_game(g1, code, next_generation, public, client_hello[c], seats)
  <2>1. ListsAnew(g1, h, code, next_generation)
    BY <1>2, <1>4, RegisterAdds, Zenon
  <2> HIDE DEF h
  <2>2. games' = h
    BY DEF CreateGame, g1, h
  <2> QED BY <2>1, <2>2 DEF ListsAnew
<1>6. ViewType(view')
  <2>1. ViewType(AnnounceWithdrawn(view, Prelude(c), c))
    BY TypeParts, RemovedViewType DEF AnnounceWithdrawn
  <2> QED BY <1>5, <2>1, AddedViewType DEF CreateGame
<1>7. next_generation' \in 0..MaxGeneration
  BY BrokerConstants DEF TypeOK, CreateGame
<1>8. [code |-> code, generation |-> next_generation] \in Registration
  BY <1>4 DEF Registration
<1>9. host_game' \in [Conns -> Registration \cup {NoHost}]
  BY <1>8 DEF TypeOK, CreateGame
<1>10. TypeOK'
  BY <1>5, <1>6, <1>7, <1>9 DEF TypeOK, CreateGame, Valid, ViewType
<1>11. \A k \in DOMAIN games' : k # code =>
          k \in DOMAIN games /\ games'[k].generation = games[k].generation
  BY <1>3, <1>5 DEF Descends
<1> QED BY <1>5, <1>10, <1>11 DEF CreateGame, Claims

\* UpdateLobbyMetadata.
LEMMA UpdateStep ==
    ASSUME TypeOK, NEW c \in Conns, NEW current \in 0..MaxSeats, NEW max \in 1..MaxSeats,
           NEW consumed \in SUBSET Tokens, UpdateLobbyMetadata(c, current, max, consumed)
    PROVE  TypeOK' /\ Inherits
<1> DEFINE code == host_game[c].code
           g0 == Prelude(c)
           g1 == consume_reservations(g0, code, consumed)
           floor == IF consumed = {} THEN 0 ELSE g1[code].current
           seated == Lesser(Greater(current, floor), max)
           clean == cleanup_expired_for(g1[code])
           m == [clean EXCEPT !.current = seated, !.max = max]
<1>1. Valid(g0) /\ Descends(games, g0) /\ DOMAIN g0 = DOMAIN games
  BY PreludeDescends
<1>2. code \in DOMAIN g0
  BY DEF UpdateLobbyMetadata, is_current
<1>3. Valid(g1) /\ Descends(g0, g1) /\ DOMAIN g1 = DOMAIN g0
  BY <1>1, <1>2, ConsumeDescends
<1>4. g1[code] \in Listing
  BY <1>2, <1>3, ValidParts
<1>5. clean \in Listing /\ clean.generation = g1[code].generation
  BY <1>4, CleanupListing
<1>6. floor \in 0..MaxSeats
  BY <1>4, RegistryConstants DEF Listing, Meta
<1>7. seated \in 0..MaxSeats /\ seated <= max
  <2> HIDE DEF floor
  <2> QED BY <1>6, RegistryConstants DEF Lesser, Greater
<1>8. m \in Listing /\ m.generation = g1[code].generation
  <2> HIDE DEF seated, clean, g1
  <2> QED BY <1>5, <1>7, SeatsReplaced, ZenonT(30)
<1>9. games' = Replaced(g1, code, m)
  BY DEF UpdateLobbyMetadata, Replaced
<1>10. Valid(games') /\ Descends(g1, games')
  <2> HIDE DEF m, g1, g0, code
  <2> QED BY <1>2, <1>3, <1>8, <1>9, ReplaceIsValid
<1>11. Descends(games, games')
  <2> HIDE DEF g1, g0, code
  <2>1. Descends(games, g1)
    BY <1>1, <1>3, DescendsTransitive
  <2> QED BY <1>10, <2>1, DescendsTransitive
<1>12. view' = AnnounceUpdated(view, games', {code})
  BY DEF UpdateLobbyMetadata
<1>13. ViewType(view')
  BY <1>10, <1>12, TypeParts, UpdatedViewType
<1>14. TypeOK'
  BY <1>10, <1>13 DEF TypeOK, UpdateLobbyMetadata, Valid, ViewType
<1> QED BY <1>11, <1>14 DEF UpdateLobbyMetadata, Inherits

\* JoinGameWithReservation.
LEMMA JoinStep ==
    ASSUME TypeOK, NEW c \in Conns, NEW code \in Codes, NEW token \in Tokens,
           JoinGameWithReservation(c, code, token)
    PROVE  TypeOK' /\ Inherits
<1>1. Valid(Prelude(c)) /\ Descends(games, Prelude(c))
  BY PreludeDescends
<1>2. code \in DOMAIN Prelude(c)
  BY DEF JoinGameWithReservation, Admitted
<1>3. Valid(games') /\ Descends(Prelude(c), games')
  BY <1>1, <1>2, ConsumeDescends DEF JoinGameWithReservation
<1>4. Descends(games, games')
  BY <1>1, <1>3, DescendsTransitive
<1>5. held' \in [Conns -> SUBSET (Codes \X Tokens)]
  BY DEF TypeOK, JoinGameWithReservation
<1>6. TypeOK'
  BY <1>3, <1>5 DEF TypeOK, JoinGameWithReservation, Valid, IsMap
<1> QED BY <1>4, <1>6 DEF JoinGameWithReservation, Inherits

\* LookupJoinTarget.
LEMMA LookupStep ==
    ASSUME TypeOK, NEW c \in Conns, NEW code \in Codes, NEW release \in Tokens \cup {NoToken},
           NEW reserve \in BOOLEAN, LookupJoinTarget(c, code, release, reserve)
    PROVE  TypeOK' /\ Inherits
<1> DEFINE g0 == Prelude(c)
           freed == release # NoToken /\ release \in DOMAIN g0[code].reservations
           g1 == IF freed THEN release_reservation(g0, code, release) ELSE g0
           held1 == IF freed THEN held[c] \ {<<code, release>>} ELSE held[c]
           view1 == IF freed THEN AnnounceUpdated(view, g1, {code}) ELSE view
           g2 == cleanup_expired_reservations(g1, code)
           active == ActiveReservations(g2, code, held1)
           held2 == {r \in held1 : r[1] # code} \cup active
<1>1. Valid(g0) /\ Descends(games, g0)
  BY PreludeDescends
<1>2. code \in DOMAIN g0
  BY DEF LookupJoinTarget, Admitted
<1>3. Valid(g1) /\ Descends(g0, g1) /\ DOMAIN g1 = DOMAIN g0
  BY <1>1, <1>2, ReleaseDescends, DescendsReflexive
<1>4. Valid(g2) /\ Descends(g1, g2) /\ DOMAIN g2 = DOMAIN g1
  <2> HIDE DEF g1
  <2> QED BY <1>2, <1>3, CleanupDescends
<1>5. held1 \subseteq Codes \X Tokens /\ held2 \subseteq Codes \X Tokens
  BY TypeParts DEF ActiveReservations
<1>6. ViewType(view1)
  <2> HIDE DEF g1, freed
  <2> QED BY <1>3, TypeParts, UpdatedViewType
<1>7. \/ games' = g1 /\ held' = [held EXCEPT ![c] = held1] /\ view' = view1
      \/ games' = g2 /\ held' = [held EXCEPT ![c] = held2] /\ view' = view1
      \/ /\ \E token \in UnusedTokens :
              /\ games' = reserve_seat(g2, code, token)
              /\ held' = [held EXCEPT ![c] = held2 \cup {<<code, token>>}]
         /\ view' = AnnounceUpdated(view1, games', {code})
  BY DEF LookupJoinTarget
<1>8. UNCHANGED <<next_generation, client_hello, host_game, feed>>
  BY DEF LookupJoinTarget
<1> HIDE DEF g0, g1, g2, held1, held2, view1
<1>9. Descends(games, g1) /\ Descends(games, g2)
  <2>1. Descends(games, g1)
    BY <1>1, <1>3, DescendsTransitive
  <2>2. Descends(games, g2)
    BY <2>1, <1>4, DescendsTransitive
  <2> QED BY <2>1, <2>2
<1>10. /\ Valid(games') /\ Descends(games, games')
       /\ ViewType(view')
       /\ held' \in [Conns -> SUBSET (Codes \X Tokens)]
  <2>1. CASE games' = g1 /\ held' = [held EXCEPT ![c] = held1] /\ view' = view1
    BY <2>1, <1>3, <1>5, <1>6, <1>9 DEF TypeOK
  <2>2. CASE games' = g2 /\ held' = [held EXCEPT ![c] = held2] /\ view' = view1
    BY <2>2, <1>4, <1>5, <1>6, <1>9 DEF TypeOK
  <2>3. CASE /\ \E token \in UnusedTokens :
                   /\ games' = reserve_seat(g2, code, token)
                   /\ held' = [held EXCEPT ![c] = held2 \cup {<<code, token>>}]
             /\ view' = AnnounceUpdated(view1, games', {code})
    <3>1. PICK token \in Tokens :
             /\ games' = reserve_seat(g2, code, token)
             /\ held' = [held EXCEPT ![c] = held2 \cup {<<code, token>>}]
      BY <2>3 DEF UnusedTokens
    <3>2. code \in DOMAIN g2
      BY <1>2, <1>3, <1>4
    <3>3. Valid(games') /\ Descends(g2, games')
      BY <3>1, <3>2, <1>4, ReserveDescends
    <3>4. Descends(games, games')
      BY <3>3, <1>9, DescendsTransitive
    <3>5. ViewType(view')
      BY <2>3, <3>3, <1>6, UpdatedViewType
    <3>6. held' \in [Conns -> SUBSET (Codes \X Tokens)]
      BY <3>1, <1>5 DEF TypeOK
    <3> QED BY <3>3, <3>4, <3>5, <3>6
  <2> QED BY <1>7, <2>1, <2>2, <2>3
<1>11. TypeOK'
  BY <1>8, <1>10 DEF TypeOK, Valid, ViewType
<1> QED BY <1>8, <1>10, <1>11 DEF Inherits

\* Disconnect.
LEMMA DisconnectStep ==
    ASSUME TypeOK, NEW c \in Conns, Disconnect(c)
    PROVE  TypeOK' /\ Inherits
<1> DEFINE g1 == release_reservations(games, held[c])
           codes == {r[1] : r \in held[c]}
           view1 == IF g1 # games THEN AnnounceUpdated(view, g1, codes) ELSE view
           view2 == AnnounceWithdrawn(view1, g1, c)
<1>1. Valid(g1) /\ Descends(games, g1)
  BY TypeParts, ReleaseAllDescends
<1>2. games' = Withdrawn(g1, c) /\ view' = [view2 EXCEPT ![c] = EmptyMap]
  BY DEF Disconnect
<1>3. UNCHANGED next_generation
  BY DEF Disconnect
<1>4. ViewType(view1)
  <2> HIDE DEF g1, codes
  <2> QED BY <1>1, TypeParts, UpdatedViewType
<1>5. ViewType(view2)
  <2> HIDE DEF view1, g1
  <2> QED BY <1>4, RemovedViewType DEF AnnounceWithdrawn
<1>6. ViewType(view')
  <2> HIDE DEF view2
  <2> QED BY <1>2, <1>5, ClearedViewType
<1> HIDE DEF g1
<1>7. Valid(games') /\ Descends(g1, games')
  BY <1>1, <1>2, WithdrawnDescends
<1>8. Descends(games, games')
  BY <1>1, <1>7, DescendsTransitive
<1>9. /\ client_hello' \in [Conns -> Commits \cup {NoHello}]
      /\ host_game' \in [Conns -> Registration \cup {NoHost}]
      /\ held' \in [Conns -> SUBSET (Codes \X Tokens)]
      /\ feed' \in SUBSET Conns
  BY DEF TypeOK, Disconnect
<1>10. TypeOK'
  BY <1>3, <1>6, <1>7, <1>9 DEF TypeOK, Valid, ViewType
<1>11. \A d \in Conns : host_game'[d] = host_game[d] \/ host_game'[d] = NoHost
  BY DEF TypeOK, Disconnect
<1> QED BY <1>3, <1>8, <1>10, <1>11 DEF Inherits

\* ReapHandled, whatever was observed.
LEMMA ReapStep ==
    ASSUME TypeOK, NEW seen, ReapHandled(seen)
    PROVE  TypeOK' /\ Inherits
<1> DEFINE gone == {r \in seen : is_current(games, r) \/ r.code \notin DOMAIN games}
           codes == {r.code : r \in gone}
<1>1. games' = Without(games, codes) /\ view' = AnnounceRemoved(view, codes)
  BY DEF ReapHandled
<1> HIDE DEF codes
<1>2. Valid(games') /\ Descends(games, games')
  BY <1>1, TypeParts, WithoutDescends
<1>3. ViewType(view')
  BY <1>1, TypeParts, RemovedViewType
<1>4. TypeOK'
  BY <1>2, <1>3 DEF TypeOK, ReapHandled, Valid, ViewType
<1> QED BY <1>2, <1>4 DEF ReapHandled, Inherits

\* Tick.
LEMMA TickStep ==
    ASSUME TypeOK, Tick
    PROVE  TypeOK' /\ Inherits
<1>1. Valid(games') /\ Descends(games, games')
  BY TypeParts, AgedDescends DEF Tick
<1>2. TypeOK'
  BY <1>1 DEF TypeOK, Tick, sockets, Valid
<1> QED BY <1>1, <1>2 DEF Tick, Inherits, sockets

-----------------------------------------------------------------------------
(* From the shape of a step to its safety. *)

\* The shape of every step of the broker in the native shell.
Shape == Inherits \/ \E c \in Conns, code \in Codes : Claims(c, code)

\* A step of either shape keeps every generation unique and in the past.
LEMMA ShapeKeepsIdentity ==
    ASSUME TypeOK, TypeOK', RegistrationIdentity, Shape
    PROVE  RegistrationIdentity'
<1>1. CASE Inherits
  BY <1>1 DEF Inherits, Descends, RegistrationIdentity
<1>2. ASSUME NEW c \in Conns, NEW code \in Codes, Claims(c, code)
      PROVE  RegistrationIdentity'
  <2> DEFINE n == next_generation
  <2>1. n \in Nat /\ next_generation' = n + 1
    BY <1>2, TypeParts DEF Claims
  <2>2. \A d \in Conns : host_game'[d] =
            IF d = c THEN [code |-> code, generation |-> n] ELSE host_game[d]
    BY <1>2 DEF Claims, TypeOK
  <2>3. \A d \in Conns : host_game[d] # NoHost => host_game[d].generation \in Nat
    BY TypeParts DEF Registration
  <2>4. \A k \in DOMAIN games : games[k].generation \in Nat
    BY TypeParts, ValidParts DEF Listing, Meta
  <2>5. \A k \in DOMAIN games' :
          games'[k].generation = IF k = code THEN n ELSE games[k].generation
    BY <1>2 DEF Claims
  <2>6. \A k \in DOMAIN games' : k # code => k \in DOMAIN games
    BY <1>2 DEF Claims
  <2> HIDE DEF n
  <2>7. /\ \A k \in DOMAIN games : games[k].generation < n
        /\ \A d \in Conns : host_game[d] # NoHost => host_game[d].generation < n
    BY DEF RegistrationIdentity, n
  <2>8. \A k \in DOMAIN games' : games'[k].generation < next_generation'
    BY <2>1, <2>4, <2>5, <2>6, <2>7
  <2>9. \A d \in Conns : host_game'[d] # NoHost => host_game'[d].generation < next_generation'
    BY <2>1, <2>2, <2>3, <2>7
  <2>10. \A k, l \in DOMAIN games' : games'[k].generation = games'[l].generation => k = l
    BY <2>1, <2>4, <2>5, <2>6, <2>7 DEF RegistrationIdentity
  <2>11. \A d, e \in Conns :
           /\ host_game'[d] # NoHost
           /\ host_game'[e] # NoHost
           /\ host_game'[d].generation = host_game'[e].generation
           => d = e
    BY <2>1, <2>2, <2>3, <2>7 DEF RegistrationIdentity
  <2>12. \A d \in Conns : \A k \in DOMAIN games' :
           /\ host_game'[d] # NoHost
           /\ host_game'[d].generation = games'[k].generation
           => host_game'[d].code = k
    BY <2>1, <2>2, <2>3, <2>4, <2>5, <2>6, <2>7 DEF RegistrationIdentity
  <2> QED BY <2>8, <2>9, <2>10, <2>11, <2>12 DEF RegistrationIdentity
<1> QED BY <1>1, <1>2 DEF Shape

\* A step of either shape never makes a stale stamp current.
LEMMA ShapeKeepsStale ==
    ASSUME TypeOK, RegistrationIdentity, Shape,
           NEW c \in Conns, host_game[c] # NoHost, ~is_current(games, host_game[c])
    PROVE  ~is_current(games', host_game[c])
<1>1. CASE Inherits
  BY <1>1 DEF Inherits, Descends, is_current
<1>2. ASSUME NEW d \in Conns, NEW code \in Codes, Claims(d, code)
      PROVE  ~is_current(games', host_game[c])
  <2>1. /\ host_game[c].generation \in Nat
        /\ next_generation \in Nat
        /\ host_game[c].generation < next_generation
    BY TypeParts DEF RegistrationIdentity, Registration
  <2> QED BY <1>2, <2>1 DEF Claims, is_current
<1> QED BY <1>1, <1>2 DEF Shape

\* Unique identities leave at most one owner per listing.
LEMMA IdentityGivesOneOwner ==
    ASSUME RegistrationIdentity
    PROVE  OneOwner
BY DEF RegistrationIdentity, OneOwner, hosts_current, is_current

\* The broker starts empty.
LEMMA InitSafe ==
    ASSUME Init
    PROVE  TypeOK /\ RegistrationIdentity
<1>1. EmptyMap \in [{} -> Listing] /\ EmptyMap \in [{} -> Row]
  BY DEF EmptyMap
<1>2. IsMap(EmptyMap, Codes, Listing) /\ IsMap(EmptyMap, Codes, Row)
  BY <1>1 DEF IsMap
<1>3. TypeOK
  BY <1>2, BrokerConstants DEF Init, TypeOK
<1>4. DOMAIN games = {}
  BY DEF Init, EmptyMap
<1>5. \A c \in Conns : host_game[c] = NoHost
  BY DEF Init
<1> QED BY <1>3, <1>4, <1>5 DEF RegistrationIdentity

\* Frames.
LEMMA FrameShape ==
    ASSUME TypeOK, NEW c \in Conns, ReadOnlyFrame(c) \/ MutatingFrame(c) \/ Disconnect(c)
    PROVE  TypeOK' /\ Shape
<1>1. CASE ReadOnlyFrame(c)
  BY <1>1, HelloStep, HostFrameStep, SubscribeStep, UnsubscribeStep DEF ReadOnlyFrame, Shape
<1>2. CASE MutatingFrame(c)
  BY <1>2, CreateRefusedStep, CreateStep, UpdateStep, UnregisterStep, JoinStep, LookupStep
     DEF MutatingFrame, Shape
<1>3. CASE Disconnect(c)
  BY <1>3, DisconnectStep DEF Shape
<1> QED BY <1>1, <1>2, <1>3

-----------------------------------------------------------------------------
(* What leaves the registry, and what only gets emptier. *)

\* The liveness refresh changes no seat.
LEMMA PreludeEases ==
    ASSUME TypeOK, NEW c \in Conns
    PROVE  Eases(games, Prelude(c))
BY TypedRegistry, RefreshEases, EasesReflexive DEF Prelude

\* Withdrawal takes out nothing but the listing the stamp names.
LEMMA WithdrawnEases ==
    ASSUME NEW g, Valid(g), NEW c \in Conns
    PROVE  /\ Eases(g, Withdrawn(g, c))
           /\ Withdrawn(g, c) = Without(g, (DOMAIN g) \ (DOMAIN Withdrawn(g, c)))
           /\ \A code \in (DOMAIN g) \ (DOMAIN Withdrawn(g, c)) :
                 host_game[c] # NoHost /\ code = host_game[c].code /\ is_current(g, host_game[c])
<1> DEFINE r == host_game[c]
<1>1. CASE r # NoHost /\ is_current(g, r)
  <2>1. Withdrawn(g, c) = Without(g, {r.code})
    BY <1>1 DEF Withdrawn, unregister_registration
  <2>2. DOMAIN Withdrawn(g, c) = (DOMAIN g) \ {r.code}
    BY <2>1 DEF Without
  <2>3. (DOMAIN g) \ (DOMAIN Withdrawn(g, c)) = {r.code}
    BY <1>1, <2>2 DEF is_current
  <2> QED BY <1>1, <2>1, <2>3, WithoutEases
<1>2. CASE ~(r # NoHost /\ is_current(g, r))
  <2>1. Withdrawn(g, c) = g
    BY <1>2 DEF Withdrawn, unregister_registration
  <2>2. g = [k \in DOMAIN g |-> g[k]]
    BY ValidParts
  <2>3. Without(g, {}) = g
    BY <2>2 DEF Without
  <2> QED BY <2>1, <2>3, EasesReflexive
<1> QED BY <1>1, <1>2

\* The listings a step may take away from a socket: those it lets go of.
Releases(c) ==
    \A code \in DOMAIN games :
        LET r == RegistrationOf(games, code)
        IN  \/ is_current(games', r)
            \/ host_game[c] = r /\ host_game'[c] # r
            \/ MintCollides /\ next_generation' # next_generation /\ code \in DOMAIN games'

\* A step that only descends and keeps the codes takes nothing away.
LEMMA SameCodesRelease ==
    ASSUME Descends(games, games'), DOMAIN games' = DOMAIN games, NEW c
    PROVE  Releases(c)
BY DEF Descends, Releases, is_current, RegistrationOf

\* A withdrawal after the prelude takes the socket's own listing.
LEMMA WithdrawalReleases ==
    ASSUME TypeOK, NEW c \in Conns, NEW g, Valid(g), Descends(games, g), DOMAIN g = DOMAIN games,
           NEW code \in DOMAIN games, code \notin DOMAIN Withdrawn(g, c)
    PROVE  host_game[c] = RegistrationOf(games, code)
<1>1. /\ host_game[c] # NoHost /\ code = host_game[c].code /\ is_current(g, host_game[c])
  BY WithdrawnEases
<1>2. host_game[c] \in Registration
  BY <1>1, TypeParts
<1>3. host_game[c].generation = games[code].generation
  BY <1>1 DEF is_current, Descends
<1> QED BY <1>1, <1>2, <1>3 DEF Registration, RegistrationOf

\* Read-only frames keep every code.
LEMMA ReadOnlyReleases ==
    ASSUME TypeOK, NEW c \in Conns, ReadOnlyFrame(c)
    PROVE  Releases(c)
<1>1. Descends(games, games') /\ DOMAIN games' = DOMAIN games
  BY PreludeDescends, DescendsReflexive
     DEF ReadOnlyFrame, ClientHello, HostFrame, SubscribeLobby, UnsubscribeLobby
<1> QED BY <1>1, SameCodesRelease

\* CreateGameRefused and UnregisterLobby withdraw and drop the stamp.
LEMMA WithdrawReleases ==
    ASSUME TypeOK, NEW c \in Conns,
           games' = Withdrawn(Prelude(c), c),
           host_game' = [host_game EXCEPT ![c] = NoHost]
    PROVE  Releases(c)
<1>1. Valid(Prelude(c)) /\ Descends(games, Prelude(c)) /\ DOMAIN Prelude(c) = DOMAIN games
  BY PreludeDescends
<1>2. Descends(Prelude(c), games')
  BY <1>1, WithdrawnDescends
<1>3. Descends(games, games')
  BY <1>1, <1>2, DescendsTransitive
<1>4. host_game'[c] = NoHost
  BY DEF TypeOK
<1>5. ASSUME NEW code \in DOMAIN games
      PROVE  \/ is_current(games', RegistrationOf(games, code))
             \/ /\ host_game[c] = RegistrationOf(games, code)
                /\ host_game'[c] # RegistrationOf(games, code)
  <2>1. CASE code \in DOMAIN games'
    BY <1>3, <2>1 DEF Descends, is_current, RegistrationOf
  <2>2. CASE code \notin DOMAIN games'
    <3>1. host_game[c] = RegistrationOf(games, code)
      BY <1>1, <2>2, WithdrawalReleases
    <3>2. host_game[c] # NoHost
      BY <1>1, <2>2, WithdrawnEases
    <3> QED BY <1>4, <3>1, <3>2
  <2> QED BY <2>1, <2>2
<1> QED BY <1>5 DEF Releases

\* CreateGame withdraws the host's previous listing and writes one code.
LEMMA CreateReleases ==
    ASSUME TypeOK, RegistrationIdentity, NEW c \in Conns, NEW code \in Codes,
           NEW requested \in BOOLEAN, NEW public \in BOOLEAN, NEW seats \in 2..MaxSeats,
           CreateGame(c, code, requested, public, seats)
    PROVE  Releases(c)
<1> DEFINE g0 == Prelude(c)
           g1 == Withdrawn(g0, c)
<1>1. Valid(g0) /\ Descends(games, g0) /\ DOMAIN g0 = DOMAIN games
  BY PreludeDescends
<1>2. Valid(g1) /\ Descends(g0, g1)
  BY <1>1, WithdrawnDescends
<1>3. Descends(games, g1)
  BY <1>1, <1>2, DescendsTransitive
<1>4. client_hello[c] \in Commits /\ next_generation \in Nat
  BY TypeParts DEF CreateGame, Greeted
<1>5. /\ games' = register_game(g1, code, next_generation, public, client_hello[c], seats)
      /\ next_generation' = next_generation + 1
      /\ host_game'[c] = [code |-> code, generation |-> next_generation]
      /\ ~MintCollides => code \notin DOMAIN g1
  BY DEF CreateGame, TypeOK
<1>6. \A k \in DOMAIN games : games[k].generation \in Nat /\ games[k].generation < next_generation
  BY TypeParts, ValidParts DEF RegistrationIdentity, Listing, Meta
<1> HIDE DEF g1
<1>7. /\ DOMAIN games' = (DOMAIN g1) \cup {code}
      /\ \A k \in DOMAIN g1 : k # code => games'[k] = g1[k]
  <2> DEFINE h == register_game(g1, code, next_generation, public, client_hello[c], seats)
  <2>1. ListsAnew(g1, h, code, next_generation)
    BY <1>2, <1>4, RegisterAdds, Zenon
  <2> HIDE DEF h
  <2>2. games' = h
    BY <1>5 DEF h
  <2> QED BY <2>1, <2>2 DEF ListsAnew
<1>8. next_generation' # next_generation
  BY <1>4, <1>5
<1>9. ASSUME NEW k \in DOMAIN games
      PROVE  LET r == RegistrationOf(games, k)
             IN  \/ is_current(games', r)
                 \/ host_game[c] = r /\ host_game'[c] # r
                 \/ MintCollides /\ next_generation' # next_generation /\ k \in DOMAIN games'
  <2>1. CASE k \notin DOMAIN g1
    <3>1. host_game[c] = RegistrationOf(games, k)
      BY <1>1, <2>1, WithdrawalReleases DEF g1
    <3>2. host_game'[c] # RegistrationOf(games, k)
      BY <1>4, <1>5, <1>6 DEF RegistrationOf
    <3> QED BY <3>1, <3>2
  <2>2. CASE k \in DOMAIN g1 /\ k # code
    BY <1>3, <1>7, <2>2 DEF Descends, is_current, RegistrationOf
  <2>3. CASE k \in DOMAIN g1 /\ k = code
    <3>1. MintCollides
      BY <1>5, <2>3, BrokerConstants
    <3> QED BY <1>7, <1>8, <2>3, <3>1
  <2> QED BY <2>1, <2>2, <2>3
<1> QED BY <1>9 DEF Releases

\* UpdateLobbyMetadata keeps every code.
LEMMA UpdateReleases ==
    ASSUME TypeOK, NEW c \in Conns, NEW current \in 0..MaxSeats, NEW max \in 1..MaxSeats,
           NEW consumed \in SUBSET Tokens, UpdateLobbyMetadata(c, current, max, consumed)
    PROVE  Releases(c)
<1>1. Descends(games, games')
  BY UpdateStep DEF Inherits
<1> QED BY <1>1, PreludeDescends, SameCodesRelease DEF UpdateLobbyMetadata, consume_reservations

\* So does JoinGameWithReservation.
LEMMA JoinReleases ==
    ASSUME TypeOK, NEW c \in Conns, NEW code \in Codes, NEW token \in Tokens,
           JoinGameWithReservation(c, code, token)
    PROVE  Releases(c)
<1>1. Descends(games, games')
  BY JoinStep DEF Inherits
<1> QED BY <1>1, PreludeDescends, SameCodesRelease DEF JoinGameWithReservation, consume_reservations

\* So does LookupJoinTarget.
LEMMA LookupReleases ==
    ASSUME TypeOK, NEW c \in Conns, NEW code \in Codes, NEW release \in Tokens \cup {NoToken},
           NEW reserve \in BOOLEAN, LookupJoinTarget(c, code, release, reserve)
    PROVE  Releases(c)
<1>1. Descends(games, games')
  BY LookupStep DEF Inherits
<1>2. DOMAIN games' = DOMAIN Prelude(c)
  BY DEF LookupJoinTarget, release_reservation, cleanup_expired_reservations, reserve_seat
<1> QED BY <1>1, <1>2, PreludeDescends, SameCodesRelease

\* A closing socket takes its own listing with it.
LEMMA DisconnectReleases ==
    ASSUME TypeOK, NEW c \in Conns, Disconnect(c)
    PROVE  Releases(c)
<1> DEFINE g1 == release_reservations(games, held[c])
<1>1. Valid(g1) /\ Descends(games, g1) /\ DOMAIN g1 = DOMAIN games
  BY TypeParts, ReleaseAllDescends
<1>2. games' = Withdrawn(g1, c) /\ host_game'[c] = NoHost
  BY DEF Disconnect, TypeOK
<1>3. Descends(games, games')
  BY DisconnectStep DEF Inherits
<1> HIDE DEF g1
<1>4. ASSUME NEW code \in DOMAIN games
      PROVE  \/ is_current(games', RegistrationOf(games, code))
             \/ /\ host_game[c] = RegistrationOf(games, code)
                /\ host_game'[c] # RegistrationOf(games, code)
  <2>1. CASE code \in DOMAIN games'
    BY <1>3, <2>1 DEF Descends, is_current, RegistrationOf
  <2>2. CASE code \notin DOMAIN games'
    <3>1. host_game[c] = RegistrationOf(games, code)
      BY <1>1, <1>2, <2>2, WithdrawalReleases
    <3>2. host_game[c] # NoHost
      BY <1>1, <1>2, <2>2, WithdrawnEases
    <3> QED BY <1>2, <3>1, <3>2
  <2> QED BY <2>1, <2>2
<1> QED BY <1>4 DEF Releases

\* Any frame or close takes away at most the listing its own socket lets go of.
LEMMA FrameReleases ==
    ASSUME TypeOK, RegistrationIdentity, NEW c \in Conns,
           ReadOnlyFrame(c) \/ MutatingFrame(c) \/ Disconnect(c)
    PROVE  Releases(c)
<1>1. CASE MutatingFrame(c)
  <2>1. ASSUME NEW code \in Codes, CreateGameRefused(c, code) PROVE Releases(c)
    BY <2>1, WithdrawReleases DEF CreateGameRefused
  <2>2. CASE UnregisterLobby(c)
    BY <2>2, WithdrawReleases DEF UnregisterLobby
  <2> QED BY <1>1, <2>1, <2>2, CreateReleases, UpdateReleases, JoinReleases, LookupReleases
          DEF MutatingFrame
<1> QED BY <1>1, ReadOnlyReleases, DisconnectReleases

\* The reaper takes away only a registration it was told of.
LEMMA ReapReleases ==
    ASSUME TypeOK, NEW seen \in SUBSET Registration, ReapHandled(seen),
           NEW code \in DOMAIN games
    PROVE  \/ is_current(games', RegistrationOf(games, code))
           \/ RegistrationOf(games, code) \in seen
<1> DEFINE gone == {r \in seen : is_current(games, r) \/ r.code \notin DOMAIN games}
<1>1. games' = Without(games, {r.code : r \in gone})
  BY DEF ReapHandled
<1>2. CASE code \in {r.code : r \in gone}
  <2>1. PICK r \in gone : r.code = code
    BY <1>2
  <2>2. r \in Registration /\ r \in seen /\ is_current(games, r)
    BY <2>1
  <2>3. r = RegistrationOf(games, code)
    BY <2>1, <2>2 DEF Registration, RegistrationOf, is_current
  <2> QED BY <2>2, <2>3
<1>3. CASE code \notin {r.code : r \in gone}
  <2>1. code \in DOMAIN games' /\ games'[code] = games[code]
    BY <1>1, <1>3 DEF Without
  <2> QED BY <2>1 DEF is_current, RegistrationOf
<1> QED BY <1>2, <1>3

-----------------------------------------------------------------------------
(* Who holds which seat. *)

\* The step makes no reservation, and no socket forgets one that stays.
Frees ==
    /\ \A k \in DOMAIN games' : \A u \in DOMAIN games'[k].reservations :
          /\ k \in DOMAIN games
          /\ u \in DOMAIN games[k].reservations
          /\ \A d \in Conns : <<k, u>> \in held[d] => <<k, u>> \in held'[d]
    /\ \A d \in Conns : held'[d] \subseteq held[d]

\* The step reserves one seat, for c, with a token nobody held, at a table
\* where c holds no other.
Books(c, code, t) ==
    /\ \A k \in DOMAIN games' : \A u \in DOMAIN games'[k].reservations :
          \/ k = code /\ u = t
          \/ /\ k \in DOMAIN games
             /\ u \in DOMAIN games[k].reservations
             /\ \A d \in Conns : <<k, u>> \in held[d] => <<k, u>> \in held'[d]
    /\ \A d \in Conns : held'[d] \subseteq held[d] \cup {<<code, t>>}
    /\ \A d \in Conns : <<code, t>> \in held'[d] <=> d = c
    /\ \A u \in DOMAIN games'[code].reservations : <<code, u>> \in held'[c] => u = t

SeatShape == Frees \/ \E c \in Conns, code \in Codes, t \in Tokens : Books(c, code, t)

\* OneSeatPerGuest without counting.
OneToken ==
    \A c \in Conns : \A code \in DOMAIN games : \A t, u \in DOMAIN games[code].reservations :
        <<code, t>> \in held[c] /\ <<code, u>> \in held[c] => t = u

\* At most one token is at most one seat.
LEMMA OneTokenIsOneSeat == OneToken => OneSeatPerGuest
<1> SUFFICES ASSUME OneToken, NEW c \in Conns, NEW code \in DOMAIN games
             PROVE  Cardinality({t \in DOMAIN games[code].reservations : <<code, t>> \in held[c]}) <= 1
  BY DEF OneSeatPerGuest
<1> DEFINE S == {t \in DOMAIN games[code].reservations : <<code, t>> \in held[c]}
<1>1. \A t, u \in S : t = u
  BY DEF OneToken
<1> HIDE DEF S
<1>2. CASE S = {}
  <2>1. Cardinality(S) = 0
    BY <1>2, FS_EmptySet
  <2> QED BY <2>1 DEF S
<1>3. CASE S # {}
  <2>1. PICK t : t \in S
    BY <1>3
  <2>2. S = {t}
    BY <1>1, <2>1
  <2>3. Cardinality(S) = 1
    BY <2>2, FS_Singleton
  <2> QED BY <2>3 DEF S
<1> QED BY <1>2, <1>3

\* A step of either shape keeps every reservation held, and held once a guest.
LEMMA SeatShapeKeepsSeats ==
    ASSUME SeatShape
    PROVE  /\ NoLeakedSeat => NoLeakedSeat'
           /\ OneToken => OneToken'
<1>1. CASE Frees
  BY <1>1 DEF Frees, NoLeakedSeat, OneToken
<1>2. ASSUME NEW c \in Conns, NEW code \in Codes, NEW t \in Tokens, Books(c, code, t)
      PROVE  /\ NoLeakedSeat => NoLeakedSeat'
             /\ OneToken => OneToken'
  <2>1. NoLeakedSeat => NoLeakedSeat'
    BY <1>2 DEF Books, NoLeakedSeat
  <2>2. ASSUME OneToken, NEW d \in Conns, NEW k \in DOMAIN games',
               NEW u \in DOMAIN games'[k].reservations, NEW w \in DOMAIN games'[k].reservations,
               <<k, u>> \in held'[d], <<k, w>> \in held'[d]
        PROVE  u = w
    <3>1. CASE k = code /\ d = c
      BY <1>2, <2>2, <3>1 DEF Books
    <3>2. CASE k = code /\ d # c
      <4>1. u # t /\ w # t
        BY <1>2, <2>2, <3>2 DEF Books
      <4>2. <<k, u>> # <<code, t>> /\ <<k, w>> # <<code, t>>
        BY <4>1
      <4>3. <<k, u>> \in held[d] /\ <<k, w>> \in held[d]
        BY <1>2, <2>2, <4>2 DEF Books
      <4>4. /\ k \in DOMAIN games
            /\ u \in DOMAIN games[k].reservations
            /\ w \in DOMAIN games[k].reservations
        BY <1>2, <2>2, <4>1 DEF Books
      <4> QED BY <2>2, <4>3, <4>4 DEF OneToken
    <3>3. CASE k # code
      <4>1. <<k, u>> # <<code, t>> /\ <<k, w>> # <<code, t>>
        BY <3>3
      <4>2. <<k, u>> \in held[d] /\ <<k, w>> \in held[d]
        BY <1>2, <2>2, <4>1 DEF Books
      <4>3. /\ k \in DOMAIN games
            /\ u \in DOMAIN games[k].reservations
            /\ w \in DOMAIN games[k].reservations
        BY <1>2, <2>2, <3>3 DEF Books
      <4> QED BY <2>2, <4>2, <4>3 DEF OneToken
    <3> QED BY <3>1, <3>2, <3>3
  <2>3. OneToken => OneToken'
    BY <2>2 DEF OneToken
  <2> QED BY <2>1, <2>3
<1> QED BY <1>1, <1>2 DEF SeatShape

\* A step that eases the registry and leaves the sockets' pairs alone.
LEMMA EasingFrees ==
    ASSUME Eases(games, games'), held' = held
    PROVE  Frees
BY DEF Eases, Milder, Frees

\* Read-only frames.
LEMMA ReadOnlyFrees ==
    ASSUME TypeOK, NEW c \in Conns, ReadOnlyFrame(c)
    PROVE  Frees
<1>1. Eases(games, games') /\ held' = held
  BY PreludeEases, TypeParts, EasesReflexive
     DEF ReadOnlyFrame, ClientHello, HostFrame, SubscribeLobby, UnsubscribeLobby, sockets
<1> QED BY <1>1, EasingFrees

\* The prelude and a withdrawal ease the registry.
LEMMA WithdrawalEases ==
    ASSUME TypeOK, NEW c \in Conns
    PROVE  /\ Valid(Withdrawn(Prelude(c), c))
           /\ Eases(games, Withdrawn(Prelude(c), c))
<1>1. Valid(games) /\ Valid(Prelude(c)) /\ Eases(games, Prelude(c))
  BY TypeParts, PreludeDescends, PreludeEases
<1>2. Valid(Withdrawn(Prelude(c), c)) /\ Eases(Prelude(c), Withdrawn(Prelude(c), c))
  BY <1>1, WithdrawnDescends, WithdrawnEases
<1> QED BY <1>1, <1>2, EasesTransitive

\* CreateGame lists a table without reservations.
LEMMA CreateFrees ==
    ASSUME TypeOK, NEW c \in Conns, NEW code \in Codes, NEW requested \in BOOLEAN,
           NEW public \in BOOLEAN, NEW seats \in 2..MaxSeats,
           CreateGame(c, code, requested, public, seats)
    PROVE  Frees
<1> DEFINE g1 == Withdrawn(Prelude(c), c)
<1>1. Eases(games, g1)
  BY WithdrawalEases
<1>2. games' = register_game(g1, code, next_generation, public, client_hello[c], seats)
      /\ held' = held
  BY DEF CreateGame
<1> HIDE DEF g1
<1>3. /\ DOMAIN games' = (DOMAIN g1) \cup {code}
      /\ games'[code].reservations = EmptyMap
      /\ \A k \in DOMAIN g1 : k # code => games'[k] = g1[k]
  BY <1>2 DEF register_game, With
<1>4. DOMAIN EmptyMap = {}
  BY DEF EmptyMap
<1> QED BY <1>1, <1>2, <1>3, <1>4 DEF Frees, Eases, Milder

\* UpdateLobbyMetadata drops reservations and makes none.
LEMMA UpdateFrees ==
    ASSUME TypeOK, NEW c \in Conns, NEW current \in 0..MaxSeats, NEW max \in 1..MaxSeats,
           NEW consumed \in SUBSET Tokens, UpdateLobbyMetadata(c, current, max, consumed)
    PROVE  Frees
<1> DEFINE code == host_game[c].code
           g0 == Prelude(c)
           g1 == consume_reservations(g0, code, consumed)
<1>1. Valid(g0) /\ Eases(games, g0) /\ DOMAIN g0 = DOMAIN games
  BY PreludeDescends, PreludeEases
<1>2. code \in DOMAIN g0
  BY DEF UpdateLobbyMetadata, is_current
<1>3. Valid(g1) /\ Eases(g0, g1) /\ DOMAIN g1 = DOMAIN g0
  BY <1>1, <1>2, ConsumeDescends, ConsumeEases
<1>4. Eases(games, g1)
  <2> HIDE DEF g0, g1
  <2> QED BY <1>1, <1>3, TypeParts, EasesTransitive
<1>5. /\ DOMAIN games' = DOMAIN g1
      /\ \A k \in DOMAIN g1 : k # code => games'[k] = g1[k]
      /\ games'[code].reservations = cleanup_expired_for(g1[code]).reservations
      /\ held' = held
  <2> HIDE DEF g1
  <2>1. g1[code] \in Listing
    BY <1>2, <1>3, ValidParts
  <2>2. cleanup_expired_for(g1[code]) \in Listing
    BY <2>1, CleanupListing
  <2> DEFINE floor == IF consumed = {} THEN 0 ELSE g1[code].current
             clean == cleanup_expired_for(g1[code])
             m == [clean EXCEPT !.current = Lesser(Greater(current, floor), max), !.max = max]
  <2>3. games' = [g1 EXCEPT ![code] = m] /\ held' = held
    BY DEF UpdateLobbyMetadata, g1
  <2>4. m.reservations = clean.reservations
    <3> HIDE DEF clean, floor
    <3> QED BY <2>2 DEF Listing, Meta, clean
  <2> HIDE DEF m, clean
  <2>5. code \in DOMAIN g1
    BY <1>2, <1>3
  <2> QED BY <2>3, <2>4, <2>5 DEF clean
<1>6. DOMAIN cleanup_expired_for(g1[code]).reservations \subseteq DOMAIN g1[code].reservations
  <2> HIDE DEF g1
  <2> QED BY <1>2, <1>3, ValidParts, CleanupListing
<1> HIDE DEF g1, code
<1> QED BY <1>4, <1>5, <1>6 DEF Frees, Eases, Milder

\* JoinGameWithReservation gives up the pair whose token it seats.
LEMMA JoinFrees ==
    ASSUME TypeOK, NEW c \in Conns, NEW code \in Codes, NEW token \in Tokens,
           JoinGameWithReservation(c, code, token)
    PROVE  Frees
<1> DEFINE g0 == Prelude(c)
           g1 == consume_reservations(g0, code, {token})
<1>1. Valid(g0) /\ Eases(games, g0)
  BY PreludeDescends, PreludeEases
<1>2. code \in DOMAIN g0
  BY DEF JoinGameWithReservation, Admitted
<1>3. Valid(g1) /\ Eases(g0, g1) /\ token \notin DOMAIN g1[code].reservations
  BY <1>1, <1>2, ConsumeDescends, ConsumeEases
<1>4. games' = g1 /\ held' = [held EXCEPT ![c] = @ \ {<<code, token>>}]
  BY DEF JoinGameWithReservation
<1> HIDE DEF g0, g1
<1>5. Eases(games, g1)
  BY <1>1, <1>3, TypeParts, EasesTransitive
<1>6. \A d \in Conns : held'[d] = IF d = c THEN held[d] \ {<<code, token>>} ELSE held[d]
  BY <1>4 DEF TypeOK
<1>7. \A k : \A u \in DOMAIN g1[k].reservations : <<k, u>> # <<code, token>>
  BY <1>3
<1> QED BY <1>4, <1>5, <1>6, <1>7 DEF Frees, Eases, Milder

\* LookupJoinTarget: a release, a cleanup, then at most one new reservation.
LEMMA LookupSeats ==
    ASSUME TypeOK, NEW c \in Conns, NEW code \in Codes, NEW release \in Tokens \cup {NoToken},
           NEW reserve \in BOOLEAN, LookupJoinTarget(c, code, release, reserve)
    PROVE  SeatShape
<1> DEFINE g0 == Prelude(c)
           freed == release # NoToken /\ release \in DOMAIN g0[code].reservations
           g1 == IF freed THEN release_reservation(g0, code, release) ELSE g0
           held1 == IF freed THEN held[c] \ {<<code, release>>} ELSE held[c]
           g2 == cleanup_expired_reservations(g1, code)
           active == ActiveReservations(g2, code, held1)
           held2 == {r \in held1 : r[1] # code} \cup active
<1>1. Valid(games) /\ Valid(g0) /\ Eases(games, g0)
  BY TypeParts, PreludeDescends, PreludeEases
<1>2. code \in DOMAIN g0
  BY DEF LookupJoinTarget, Admitted
<1>3. Valid(g1) /\ Eases(g0, g1) /\ DOMAIN g1 = DOMAIN g0
  BY <1>1, <1>2, ReleaseDescends, ReleaseEases, EasesReflexive
<1>4. freed => release \notin DOMAIN g1[code].reservations
  BY <1>1, <1>2, ReleaseEases
<1>5. Valid(g2) /\ Eases(g1, g2) /\ DOMAIN g2 = DOMAIN g1
  <2> HIDE DEF g1
  <2> QED BY <1>2, <1>3, CleanupDescends, CleanupEases
<1>6. /\ held1 \subseteq held[c]
      /\ \A k : \A u \in DOMAIN g1[k].reservations : <<k, u>> \in held[c] => <<k, u>> \in held1
  <2>1. CASE freed
    <3>1. held1 = held[c] \ {<<code, release>>}
      BY <2>1
    <3> HIDE DEF g1, held1
    <3>2. \A k : \A u \in DOMAIN g1[k].reservations : <<k, u>> # <<code, release>>
      BY <1>4, <2>1
    <3> QED BY <3>1, <3>2
  <2>2. CASE ~freed
    BY <2>2
  <2> QED BY <2>1, <2>2
<1>7. /\ held2 \subseteq held1
      /\ \A k : \A u \in DOMAIN g2[k].reservations : <<k, u>> \in held1 => <<k, u>> \in held2
      /\ \A u \in DOMAIN g2[code].reservations : <<code, u>> \in held2 => <<code, u>> \in active
  <2> HIDE DEF held1, g2
  <2> QED BY DEF ActiveReservations
<1>8. \/ games' = g1 /\ held' = [held EXCEPT ![c] = held1]
      \/ games' = g2 /\ held' = [held EXCEPT ![c] = held2]
      \/ /\ active = {}
         /\ \E token \in UnusedTokens :
              /\ games' = reserve_seat(g2, code, token)
              /\ held' = [held EXCEPT ![c] = held2 \cup {<<code, token>>}]
  BY DEF LookupJoinTarget, MayReserve
<1> HIDE DEF g0, g1, g2, held1, held2, active, freed
<1>9. Eases(games, g1)
  BY <1>1, <1>3, EasesTransitive
<1>10. Eases(games, g2)
  BY <1>1, <1>3, <1>5, <1>9, EasesTransitive
<1>11. \A k \in DOMAIN g2 : DOMAIN g2[k].reservations \subseteq DOMAIN g1[k].reservations
  BY <1>5 DEF Eases, Milder
<1>12. CASE games' = g1 /\ held' = [held EXCEPT ![c] = held1]
  <2>1. \A d \in Conns : held'[d] = IF d = c THEN held1 ELSE held[d]
    BY <1>12 DEF TypeOK
  <2>2. Frees
    BY <1>6, <1>9, <1>12, <2>1 DEF Frees, Eases, Milder
  <2> QED BY <2>2 DEF SeatShape
<1>13. CASE games' = g2 /\ held' = [held EXCEPT ![c] = held2]
  <2>1. \A d \in Conns : held'[d] = IF d = c THEN held2 ELSE held[d]
    BY <1>13 DEF TypeOK
  <2>2. \A k \in DOMAIN g2 : \A u \in DOMAIN g2[k].reservations :
           <<k, u>> \in held[c] => <<k, u>> \in held2
    BY <1>6, <1>7, <1>11
  <2>3. Frees
    BY <1>6, <1>7, <1>10, <1>13, <2>1, <2>2 DEF Frees, Eases, Milder
  <2> QED BY <2>3 DEF SeatShape
<1>14. CASE /\ active = {}
            /\ \E token \in UnusedTokens :
                 /\ games' = reserve_seat(g2, code, token)
                 /\ held' = [held EXCEPT ![c] = held2 \cup {<<code, token>>}]
  <2>1. PICK t \in UnusedTokens : /\ games' = reserve_seat(g2, code, t)
                                  /\ held' = [held EXCEPT ![c] = held2 \cup {<<code, t>>}]
    BY <1>14
  <2>2. t \in Tokens /\ \A d \in Conns : <<code, t>> \notin held[d]
    BY <2>1 DEF UnusedTokens
  <2>3. \A d \in Conns : held'[d] = IF d = c THEN held2 \cup {<<code, t>>} ELSE held[d]
    BY <2>1 DEF TypeOK
  <2>4. code \in DOMAIN g2
    BY <1>2, <1>3, <1>5
  <2>5. /\ DOMAIN games' = DOMAIN g2
        /\ DOMAIN games'[code].reservations = (DOMAIN g2[code].reservations) \cup {t}
        /\ \A k \in DOMAIN g2 : k # code => games'[k] = g2[k]
    BY <1>5, <2>1, <2>2, <2>4, ReserveAdds
  <2>6. \A k \in DOMAIN g2 : \A u \in DOMAIN g2[k].reservations :
           <<k, u>> \in held[c] => <<k, u>> \in held2
    BY <1>6, <1>7, <1>11
  <2>7. \A k \in DOMAIN games' : \A u \in DOMAIN games'[k].reservations :
          \/ k = code /\ u = t
          \/ k \in DOMAIN g2 /\ u \in DOMAIN g2[k].reservations
    BY <2>5
  <2>8. \A k \in DOMAIN games' : \A u \in DOMAIN games'[k].reservations :
          \/ k = code /\ u = t
          \/ /\ k \in DOMAIN games
             /\ u \in DOMAIN games[k].reservations
             /\ \A d \in Conns : <<k, u>> \in held[d] => <<k, u>> \in held'[d]
    BY <1>10, <2>3, <2>6, <2>7 DEF Eases, Milder
  <2>9. \A d \in Conns : held'[d] \subseteq held[d] \cup {<<code, t>>}
    BY <1>6, <1>7, <2>3
  <2>10. \A d \in Conns : <<code, t>> \in held'[d] <=> d = c
    BY <2>2, <2>3
  <2>11. \A u \in DOMAIN games'[code].reservations : <<code, u>> \in held'[c] => u = t
    BY <1>7, <1>14, <2>3, <2>5
  <2>12. Books(c, code, t)
    BY <2>8, <2>9, <2>10, <2>11 DEF Books
  <2> QED BY <2>2, <2>12 DEF SeatShape
<1> QED BY <1>8, <1>12, <1>13, <1>14

\* A closing socket gives back every seat it holds.
LEMMA DisconnectFrees ==
    ASSUME TypeOK, NEW c \in Conns, Disconnect(c)
    PROVE  Frees
<1> DEFINE g1 == release_reservations(games, held[c])
<1>1. /\ Valid(games) /\ Valid(g1) /\ Eases(games, g1) /\ DOMAIN g1 = DOMAIN games
      /\ \A k \in DOMAIN games : \A t \in DOMAIN g1[k].reservations : <<k, t>> \notin held[c]
  BY TypeParts, ReleaseAllDescends, ReleaseAllEases
<1>2. games' = Withdrawn(g1, c) /\ held' = [held EXCEPT ![c] = {}]
  BY DEF Disconnect
<1> HIDE DEF g1
<1>3. Valid(games') /\ Eases(g1, games')
  BY <1>1, <1>2, WithdrawnDescends, WithdrawnEases
<1>4. Eases(games, games')
  BY <1>1, <1>3, EasesTransitive
<1>5. \A d \in Conns : held'[d] = IF d = c THEN {} ELSE held[d]
  BY <1>2 DEF TypeOK
<1>6. \A k \in DOMAIN games' : \A u \in DOMAIN games'[k].reservations : <<k, u>> \notin held[c]
  BY <1>1, <1>3 DEF Eases, Milder
<1> QED BY <1>4, <1>5, <1>6 DEF Frees, Eases, Milder

\* Every frame and close has the shape.
LEMMA FrameSeats ==
    ASSUME TypeOK, NEW c \in Conns, ReadOnlyFrame(c) \/ MutatingFrame(c) \/ Disconnect(c)
    PROVE  SeatShape
<1>1. CASE MutatingFrame(c)
  <2>1. ASSUME NEW code \in Codes, CreateGameRefused(c, code) PROVE Frees
    BY <2>1, WithdrawalEases, EasingFrees DEF CreateGameRefused
  <2>2. CASE UnregisterLobby(c)
    BY <2>2, WithdrawalEases, EasingFrees DEF UnregisterLobby, SeatShape
  <2> QED BY <1>1, <2>1, <2>2, CreateFrees, UpdateFrees, JoinFrees, LookupSeats
          DEF MutatingFrame, SeatShape
<1> QED BY <1>1, ReadOnlyFrees, DisconnectFrees DEF SeatShape

\* So do the reaper and the clock.
LEMMA BackgroundFrees ==
    ASSUME TypeOK, Tick \/ \E seen \in SUBSET Registration : ReapHandled(seen)
    PROVE  Frees
<1>1. Eases(games, games') /\ held' = held
  BY TypeParts, AgedEases, WithoutEases DEF Tick, sockets, ReapHandled
<1> QED BY <1>1, EasingFrees

-----------------------------------------------------------------------------
(* What a subscriber shows. *)

\* The list w of a client of build b is the public, compatible part of g, and
\* no row of it shows a seat as free that g counts as taken.
ShowsTo(g, w, b) ==
    /\ DOMAIN w = {k \in DOMAIN g : g[k].public /\ check_build_commit(g[k].commit, b)}
    /\ \A k \in DOMAIN w : /\ w[k].current >= meta_to_lobby_game(g[k]).current
                           /\ w[k].max = g[k].max

\* All subscribers' lists are right for the registry g.
FeedOf(g, v) == \A d \in feed : ShowsTo(g, v[d], client_hello[d])

\* The inductive invariant: subscribers have greeted, so their build is fixed.
FeedInv == (\A d \in feed : Greeted(d)) /\ FeedOf(games, view)

\* An eased registry needs no announcement.
LEMMA EasedFeed ==
    ASSUME NEW v, ViewType(v), NEW g, Valid(g), NEW h, Valid(h),
           feed \subseteq Conns, Eases(g, h), DOMAIN h = DOMAIN g, FeedOf(g, v)
    PROVE  FeedOf(h, v)
<1> SUFFICES ASSUME NEW d \in feed PROVE ShowsTo(h, v[d], client_hello[d])
  BY DEF FeedOf
<1> DEFINE w == v[d]
           b == client_hello[d]
<1>1. ShowsTo(g, w, b)
  BY DEF FeedOf
<1>2. \A k \in DOMAIN w : w[k] \in Row
  BY DEF ViewType, IsMap
<1>3. \A k \in DOMAIN g : Milder(g[k], h[k])
  BY DEF Eases
<1>4. DOMAIN w = {k \in DOMAIN h : h[k].public /\ check_build_commit(h[k].commit, b)}
  BY <1>1, <1>3 DEF ShowsTo, Milder
<1>5. ASSUME NEW k \in DOMAIN w
      PROVE  /\ w[k].current >= meta_to_lobby_game(h[k]).current
             /\ w[k].max = h[k].max
  <2>1. k \in DOMAIN g
    BY <1>1 DEF ShowsTo
  <2> DEFINE x == meta_to_lobby_game(g[k]).current
             y == meta_to_lobby_game(h[k]).current
             z == w[k].current
  <2>2. x \in 0..MaxSeats /\ y \in 0..MaxSeats
    BY <2>1, ValidParts, ListingCounts
  <2>3. z \in 0..MaxSeats
    BY <1>2 DEF Row
  <2>4. z >= x /\ y <= x
    BY <1>1, <1>3, <2>1 DEF ShowsTo, Milder
  <2>5. z >= y
    <3> HIDE DEF x, y, z
    <3> QED BY <2>2, <2>3, <2>4, RegistryConstants
  <2> QED BY <1>1, <1>3, <2>1, <2>5 DEF ShowsTo, Milder
<1> QED BY <1>4, <1>5 DEF ShowsTo

\* LobbyGameRemoved for what was removed.
LEMMA RemovedFeed ==
    ASSUME NEW v, NEW g, NEW Gone, feed \subseteq Conns, FeedOf(g, v)
    PROVE  FeedOf(Without(g, Gone), AnnounceRemoved(v, Gone))
<1> SUFFICES ASSUME NEW d \in feed
             PROVE  ShowsTo(Without(g, Gone), AnnounceRemoved(v, Gone)[d], client_hello[d])
  BY DEF FeedOf
<1>1. AnnounceRemoved(v, Gone)[d] = Without(v[d], Gone)
  BY DEF AnnounceRemoved
<1>2. ShowsTo(g, v[d], client_hello[d])
  BY DEF FeedOf
<1> QED BY <1>1, <1>2 DEF ShowsTo, Without

\* LobbyGameAdded for a code that was free.
LEMMA AddedFeed ==
    ASSUME NEW v, NEW g, NEW h, Valid(h), NEW code, feed \subseteq Conns, FeedOf(g, v),
           code \notin DOMAIN g, DOMAIN h = (DOMAIN g) \cup {code},
           \A k \in DOMAIN g : h[k] = g[k]
    PROVE  FeedOf(h, AnnounceAdded(v, h, code))
<1> SUFFICES ASSUME NEW d \in feed
             PROVE  ShowsTo(h, AnnounceAdded(v, h, code)[d], client_hello[d])
  BY DEF FeedOf
<1> DEFINE w == v[d]
           b == client_hello[d]
           row == meta_to_lobby_game(h[code])
<1>1. ShowsTo(g, w, b)
  BY DEF FeedOf
<1>2. AnnounceAdded(v, h, code)[d] =
        IF h[code].public /\ check_build_commit(h[code].commit, b) THEN With(w, code, row) ELSE w
  BY DEF AnnounceAdded, listed, Visible
<1>3. row.current \in 0..MaxSeats /\ row.max = h[code].max
  BY ValidParts, ListingCounts
<1>4. row.current >= row.current
  <2> DEFINE x == row.current
  <2>1. x \in 0..MaxSeats
    BY <1>3
  <2> HIDE DEF x
  <2>2. x >= x
    BY <2>1, RegistryConstants
  <2> QED BY <2>2 DEF x
<1>5. CASE h[code].public /\ check_build_commit(h[code].commit, b)
  <2>1. /\ DOMAIN With(w, code, row) = (DOMAIN w) \cup {code}
        /\ With(w, code, row)[code] = row
        /\ \A k \in DOMAIN w : k # code => With(w, code, row)[k] = w[k]
    BY DEF With
  <2>2. DOMAIN With(w, code, row)
           = {k \in DOMAIN h : h[k].public /\ check_build_commit(h[k].commit, b)}
    BY <1>1, <1>5, <2>1 DEF ShowsTo
  <2> HIDE DEF row
  <2>3. ASSUME NEW k \in DOMAIN With(w, code, row)
        PROVE  /\ With(w, code, row)[k].current >= meta_to_lobby_game(h[k]).current
               /\ With(w, code, row)[k].max = h[k].max
    <3>1. CASE k = code
      BY <1>3, <1>4, <2>1, <3>1 DEF row
    <3>2. CASE k # code
      BY <1>1, <2>1, <2>3, <3>2 DEF ShowsTo
    <3> QED BY <3>1, <3>2
  <2> QED BY <1>2, <1>5, <2>2, <2>3 DEF ShowsTo
<1>6. CASE ~(h[code].public /\ check_build_commit(h[code].commit, b))
  BY <1>1, <1>2, <1>6 DEF ShowsTo
<1> QED BY <1>5, <1>6

\* LobbyGameUpdated for every listing that may have become fuller.
LEMMA UpdatedFeed ==
    ASSUME NEW v, ViewType(v), NEW g, Valid(g), NEW h, Valid(h), NEW codes,
           feed \subseteq Conns, FeedOf(g, v), DOMAIN h = DOMAIN g,
           \A k \in DOMAIN g : h[k].public = g[k].public /\ h[k].commit = g[k].commit,
           \A k \in (DOMAIN g) \ codes : Milder(g[k], h[k])
    PROVE  FeedOf(h, AnnounceUpdated(v, h, codes))
<1> SUFFICES ASSUME NEW d \in feed
             PROVE  ShowsTo(h, AnnounceUpdated(v, h, codes)[d], client_hello[d])
  BY DEF FeedOf
<1> DEFINE w == v[d]
           b == client_hello[d]
           rows == {k \in codes : listed(h, k)}
           shown == {k \in rows : Visible(h, k, d)}
           u == [k \in ((DOMAIN w) \ rows) \cup shown |->
                    IF k \in shown THEN meta_to_lobby_game(h[k]) ELSE w[k]]
<1>1. AnnounceUpdated(v, h, codes)[d] = u
  BY DEF AnnounceUpdated
<1>2. ShowsTo(g, w, b)
  BY DEF FeedOf
<1>3. \A k \in DOMAIN w : w[k] \in Row
  BY DEF ViewType, IsMap
<1>4. \A k : k \in shown <=> /\ k \in codes /\ k \in DOMAIN h /\ h[k].public
                             /\ check_build_commit(h[k].commit, b)
  BY DEF listed, Visible
<1>5. \A k : k \in rows <=> k \in codes /\ k \in DOMAIN h /\ h[k].public
  BY DEF listed
<1>6. /\ DOMAIN u = ((DOMAIN w) \ rows) \cup shown
      /\ \A k \in DOMAIN u : u[k] = IF k \in shown THEN meta_to_lobby_game(h[k]) ELSE w[k]
  OBVIOUS
<1> HIDE DEF u, rows, shown
<1>7. DOMAIN u = {k \in DOMAIN h : h[k].public /\ check_build_commit(h[k].commit, b)}
  <2>1. DOMAIN w = {k \in DOMAIN h : h[k].public /\ check_build_commit(h[k].commit, b)}
    BY <1>2 DEF ShowsTo
  <2> QED BY <1>4, <1>5, <1>6, <2>1
<1>8. ASSUME NEW k \in DOMAIN u
      PROVE  /\ u[k].current >= meta_to_lobby_game(h[k]).current
             /\ u[k].max = h[k].max
  <2>1. k \in DOMAIN h /\ k \in DOMAIN g
    BY <1>7
  <2> DEFINE x == meta_to_lobby_game(g[k]).current
             y == meta_to_lobby_game(h[k]).current
  <2>2. x \in 0..MaxSeats /\ y \in 0..MaxSeats
    BY <2>1, ValidParts, ListingCounts
  <2>3. CASE k \in shown
    <3>1. u[k] = meta_to_lobby_game(h[k])
      BY <1>6, <2>3
    <3>2. y >= y
      <4> HIDE DEF y
      <4> QED BY <2>2, RegistryConstants
    <3>3. meta_to_lobby_game(h[k]).max = h[k].max
      BY <2>1, ValidParts, ListingCounts
    <3> QED BY <3>1, <3>2, <3>3
  <2>4. CASE k \notin shown
    <3>1. k \in DOMAIN w /\ k \notin rows /\ u[k] = w[k]
      BY <1>6, <2>4
    <3>2. k \notin codes
      BY <1>5, <1>7, <3>1
    <3>3. Milder(g[k], h[k])
      BY <2>1, <3>2
    <3> DEFINE z == w[k].current
    <3>4. z \in 0..MaxSeats
      BY <1>3, <3>1 DEF Row
    <3>5. z >= x /\ y <= x /\ w[k].max = g[k].max
      BY <1>2, <3>1, <3>3 DEF ShowsTo, Milder
    <3>6. z >= y
      <4> HIDE DEF x, y, z
      <4> QED BY <2>2, <3>4, <3>5, RegistryConstants
    <3> QED BY <3>1, <3>3, <3>5, <3>6 DEF Milder
  <2> QED BY <2>3, <2>4
<1> QED BY <1>1, <1>7, <1>8 DEF ShowsTo

\* The list a subscriber starts from.
LEMMA SnapshotShows ==
    ASSUME NEW g, Valid(g), NEW c
    PROVE  ShowsTo(g, Snapshot(g, c), client_hello[c])
<1> DEFINE S == {k \in DOMAIN g : listed(g, k) /\ Visible(g, k, c)}
<1>1. Snapshot(g, c) = [k \in S |-> meta_to_lobby_game(g[k])]
  BY DEF Snapshot
<1>2. S = {k \in DOMAIN g : g[k].public /\ check_build_commit(g[k].commit, client_hello[c])}
  BY DEF listed, Visible
<1>3. ASSUME NEW k \in S
      PROVE  /\ meta_to_lobby_game(g[k]).current >= meta_to_lobby_game(g[k]).current
             /\ meta_to_lobby_game(g[k]).max = g[k].max
  <2> DEFINE x == meta_to_lobby_game(g[k]).current
  <2>1. x \in 0..MaxSeats /\ meta_to_lobby_game(g[k]).max = g[k].max
    BY ValidParts, ListingCounts
  <2>2. x >= x
    <3>1. x \in 0..MaxSeats
      BY <2>1
    <3> HIDE DEF x
    <3> QED BY <3>1, RegistryConstants
  <2> QED BY <2>1, <2>2
<1> HIDE DEF S
<1> QED BY <1>1, <1>2, <1>3 DEF ShowsTo

\* Sockets that stay subscribed keep their build, so the invariant follows from
\* the lists.
LEMMA FeedFromLists ==
    ASSUME FeedInv, feed' \subseteq feed, \A d \in feed' : client_hello'[d] = client_hello[d],
           \A d \in feed' : ShowsTo(games', view'[d], client_hello[d])
    PROVE  FeedInv'
BY DEF FeedInv, FeedOf, Greeted

\* Read-only frames: only a new subscriber's list is written.
LEMMA ReadOnlyFeed ==
    ASSUME TypeOK, FeedInv, NEW c \in Conns, ReadOnlyFrame(c)
    PROVE  FeedInv'
<1>1. /\ Valid(games) /\ ViewType(view) /\ feed \subseteq Conns /\ FeedOf(games, view)
      /\ \A d \in feed : Greeted(d)
  BY TypeParts DEF TypeOK, FeedInv
<1>2. Valid(Prelude(c)) /\ DOMAIN Prelude(c) = DOMAIN games /\ Eases(games, Prelude(c))
  BY PreludeDescends, PreludeEases
<1>3. FeedOf(Prelude(c), view)
  BY <1>1, <1>2, EasedFeed
<1>4. ASSUME NEW commit \in Commits, ClientHello(c, commit) PROVE FeedInv'
  <2>1. c \notin feed
    BY <1>1, <1>4 DEF ClientHello, Greeted
  <2>2. \A d \in feed : client_hello'[d] = client_hello[d]
    BY <1>1, <1>4, <2>1 DEF ClientHello, TypeOK
  <2> QED BY <1>1, <1>4, <2>2, FeedFromLists DEF ClientHello, FeedOf
<1>5. CASE HostFrame(c)
  BY <1>3, <1>5, FeedFromLists DEF HostFrame, sockets, FeedOf
<1>6. CASE SubscribeLobby(c)
  <2>1. games' = Prelude(c) /\ client_hello' = client_hello /\ feed' \subseteq feed \cup {c}
    BY <1>6 DEF SubscribeLobby
  <2>2. \A d \in Conns : view'[d] = IF d = c /\ c \in feed' THEN Snapshot(games', c) ELSE view[d]
    BY <1>1, <1>6 DEF SubscribeLobby, ViewType
  <2>3. ShowsTo(games', Snapshot(games', c), client_hello[c])
    BY <1>2, <2>1, SnapshotShows
  <2>4. ASSUME NEW d \in feed' PROVE Greeted(d)' /\ ShowsTo(games', view'[d], client_hello'[d])
    <3>1. CASE d = c
      BY <1>6, <2>1, <2>2, <2>3, <2>4, <3>1 DEF SubscribeLobby, Greeted
    <3>2. CASE d # c
      <4>1. d \in feed
        BY <2>1, <2>4, <3>2
      <4> QED BY <1>1, <1>3, <2>1, <2>2, <3>2, <4>1 DEF FeedOf, Greeted
    <3> QED BY <3>1, <3>2
  <2> QED BY <2>4 DEF FeedInv, FeedOf
<1>7. CASE UnsubscribeLobby(c)
  <2>1. games' = Prelude(c) /\ client_hello' = client_hello /\ feed' = feed \ {c}
    BY <1>7 DEF UnsubscribeLobby
  <2>2. \A d \in feed' : view'[d] = view[d]
    BY <1>1, <1>7, <2>1 DEF UnsubscribeLobby, ViewType
  <2> QED BY <1>3, <2>1, <2>2, FeedFromLists DEF FeedOf
<1> QED BY <1>4, <1>5, <1>6, <1>7 DEF ReadOnlyFrame

\* The prelude and a withdrawal, with its announcement.
LEMMA WithdrawalFeed ==
    ASSUME TypeOK, FeedInv, NEW c \in Conns
    PROVE  FeedOf(Withdrawn(Prelude(c), c), AnnounceWithdrawn(view, Prelude(c), c))
<1>1. Valid(games) /\ ViewType(view) /\ feed \subseteq Conns /\ FeedOf(games, view)
  BY TypeParts DEF TypeOK, FeedInv
<1>2. Valid(Prelude(c)) /\ DOMAIN Prelude(c) = DOMAIN games /\ Eases(games, Prelude(c))
  BY PreludeDescends, PreludeEases
<1>3. FeedOf(Prelude(c), view)
  BY <1>1, <1>2, EasedFeed
<1> DEFINE g0 == Prelude(c)
           Gone == (DOMAIN g0) \ (DOMAIN Withdrawn(g0, c))
<1>4. Withdrawn(g0, c) = Without(g0, Gone)
  BY <1>2, WithdrawnEases
<1>5. AnnounceWithdrawn(view, g0, c) = AnnounceRemoved(view, Gone)
  BY DEF AnnounceWithdrawn
<1>6. FeedOf(Without(g0, Gone), AnnounceRemoved(view, Gone))
  <2> HIDE DEF Gone, g0
  <2> QED BY <1>1, <1>3, RemovedFeed DEF g0
<1> QED BY <1>4, <1>5, <1>6

\* CreateGame, when the code was free.
LEMMA CreateFeed ==
    ASSUME ~MintCollides, TypeOK, FeedInv, NEW c \in Conns, NEW code \in Codes,
           NEW requested \in BOOLEAN, NEW public \in BOOLEAN, NEW seats \in 2..MaxSeats,
           CreateGame(c, code, requested, public, seats)
    PROVE  FeedInv'
<1> DEFINE g1 == Withdrawn(Prelude(c), c)
           v1 == AnnounceWithdrawn(view, Prelude(c), c)
<1>1. FeedOf(g1, v1) /\ feed \subseteq Conns
  BY WithdrawalFeed DEF TypeOK
<1>2. Valid(games')
  BY CreateStep DEF TypeOK, Valid
<1>3. /\ games' = register_game(g1, code, next_generation, public, client_hello[c], seats)
      /\ view' = AnnounceAdded(v1, games', code)
      /\ UNCHANGED <<client_hello, feed>>
      /\ code \notin DOMAIN g1
  BY DEF CreateGame
<1> HIDE DEF g1, v1
<1>4. DOMAIN games' = (DOMAIN g1) \cup {code} /\ \A k \in DOMAIN g1 : games'[k] = g1[k]
  BY <1>3 DEF register_game, With
<1>5. FeedOf(games', AnnounceAdded(v1, games', code))
  BY <1>1, <1>2, <1>3, <1>4, AddedFeed
<1> QED BY <1>3, <1>5, FeedFromLists DEF FeedOf

\* UpdateLobbyMetadata announces the one listing it may fill.
LEMMA UpdateFeed ==
    ASSUME TypeOK, FeedInv, NEW c \in Conns, NEW current \in 0..MaxSeats, NEW max \in 1..MaxSeats,
           NEW consumed \in SUBSET Tokens, UpdateLobbyMetadata(c, current, max, consumed)
    PROVE  FeedInv'
<1> DEFINE code == host_game[c].code
           g0 == Prelude(c)
           g1 == consume_reservations(g0, code, consumed)
<1>1. Valid(games) /\ ViewType(view) /\ feed \subseteq Conns /\ FeedOf(games, view)
  BY TypeParts DEF TypeOK, FeedInv
<1>2. Valid(g0) /\ Eases(games, g0) /\ DOMAIN g0 = DOMAIN games
  BY PreludeDescends, PreludeEases
<1>3. code \in DOMAIN g0
  BY DEF UpdateLobbyMetadata, is_current
<1>4. Valid(g1) /\ Eases(g0, g1) /\ DOMAIN g1 = DOMAIN g0
  BY <1>2, <1>3, ConsumeDescends, ConsumeEases
<1>5. Valid(games')
  BY UpdateStep DEF TypeOK, Valid
<1> DEFINE floor == IF consumed = {} THEN 0 ELSE g1[code].current
           clean == cleanup_expired_for(g1[code])
           m == [clean EXCEPT !.current = Lesser(Greater(current, floor), max), !.max = max]
<1>6. /\ games' = [g1 EXCEPT ![code] = m]
      /\ view' = AnnounceUpdated(view, games', {code})
      /\ UNCHANGED <<client_hello, feed>>
  BY DEF UpdateLobbyMetadata
<1>7. m.public = g1[code].public /\ m.commit = g1[code].commit
  <2>1. g1[code] \in Listing
    <3> HIDE DEF g1
    <3> QED BY <1>3, <1>4, ValidParts
  <2>2. clean.public = g1[code].public /\ clean.commit = g1[code].commit
    <3> HIDE DEF g1
    <3> QED BY <2>1 DEF cleanup_expired_for, Listing, Meta
  <2>3. clean \in Listing
    <3> HIDE DEF g1
    <3> QED BY <2>1, CleanupListing
  <2>4. m.public = clean.public /\ m.commit = clean.commit
    <3> HIDE DEF clean, floor
    <3> QED BY <2>3 DEF Listing, Meta
  <2> QED BY <2>2, <2>4
<1> HIDE DEF m, g1, g0, code
<1>8. Eases(games, g1)
  BY <1>1, <1>2, <1>4, EasesTransitive
<1>9. DOMAIN games' = DOMAIN g1 /\ games'[code] = m /\ \A k \in DOMAIN g1 : k # code => games'[k] = g1[k]
  BY <1>3, <1>4, <1>6
<1>10. \A k \in (DOMAIN g1) \ {code} : Milder(g1[k], games'[k])
  BY <1>4, <1>9, ValidParts, FewerIsMilder
<1>11. \A k \in DOMAIN g1 : games'[k].public = g1[k].public /\ games'[k].commit = g1[k].commit
  BY <1>7, <1>9
<1>12. FeedOf(g1, view)
  BY <1>1, <1>2, <1>4, <1>8, EasedFeed
<1>13. FeedOf(games', AnnounceUpdated(view, games', {code}))
  BY <1>1, <1>4, <1>5, <1>9, <1>10, <1>11, <1>12, UpdatedFeed
<1> QED BY <1>6, <1>13, FeedFromLists DEF FeedOf

\* JoinGameWithReservation seats a guest on the seat its row already counts.
LEMMA JoinFeed ==
    ASSUME TypeOK, FeedInv, NEW c \in Conns, NEW code \in Codes, NEW token \in Tokens,
           JoinGameWithReservation(c, code, token)
    PROVE  FeedInv'
<1> DEFINE g0 == Prelude(c)
           g1 == consume_reservations(g0, code, {token})
<1>1. Valid(games) /\ ViewType(view) /\ feed \subseteq Conns /\ FeedOf(games, view)
  BY TypeParts DEF TypeOK, FeedInv
<1>2. Valid(g0) /\ Eases(games, g0) /\ DOMAIN g0 = DOMAIN games
  BY PreludeDescends, PreludeEases
<1>3. code \in DOMAIN g0
  BY DEF JoinGameWithReservation, Admitted
<1>4. Valid(g1) /\ Eases(g0, g1) /\ DOMAIN g1 = DOMAIN g0
  BY <1>2, <1>3, ConsumeDescends, ConsumeEases
<1>5. games' = g1 /\ UNCHANGED <<client_hello, feed, view>>
  BY DEF JoinGameWithReservation
<1> HIDE DEF g1, g0
<1>6. Eases(games, g1)
  BY <1>1, <1>2, <1>4, EasesTransitive
<1>7. FeedOf(g1, view)
  BY <1>1, <1>2, <1>4, <1>6, EasedFeed
<1> QED BY <1>5, <1>7, FeedFromLists DEF FeedOf

\* Two registries with one listing changed: the others are mild.
LEMMA EasedButOne ==
    ASSUME NEW g, Valid(g), NEW h, DOMAIN h = DOMAIN g, NEW code,
           \A k \in DOMAIN g : k # code => h[k] = g[k]
    PROVE  \A k \in (DOMAIN g) \ {code} : Milder(g[k], h[k])
BY ValidParts, FewerIsMilder

\* LookupJoinTarget announces what it releases and what it reserves; what it
\* cleans up in between only frees seats.
LEMMA LookupFeed ==
    ASSUME TypeOK, FeedInv, NEW c \in Conns, NEW code \in Codes,
           NEW release \in Tokens \cup {NoToken}, NEW reserve \in BOOLEAN,
           LookupJoinTarget(c, code, release, reserve)
    PROVE  FeedInv'
<1> DEFINE g0 == Prelude(c)
           freed == release # NoToken /\ release \in DOMAIN g0[code].reservations
           g1 == IF freed THEN release_reservation(g0, code, release) ELSE g0
           view1 == IF freed THEN AnnounceUpdated(view, g1, {code}) ELSE view
           g2 == cleanup_expired_reservations(g1, code)
<1>1. Valid(games) /\ ViewType(view) /\ feed \subseteq Conns /\ FeedOf(games, view)
  BY TypeParts DEF TypeOK, FeedInv
<1>2. Valid(g0) /\ Eases(games, g0) /\ DOMAIN g0 = DOMAIN games
  BY PreludeDescends, PreludeEases
<1>3. code \in DOMAIN g0
  BY DEF LookupJoinTarget, Admitted
<1>4. Valid(g1) /\ Eases(g0, g1) /\ DOMAIN g1 = DOMAIN g0
  BY <1>2, <1>3, ReleaseDescends, ReleaseEases, EasesReflexive
<1>5. Valid(g2) /\ Eases(g1, g2) /\ DOMAIN g2 = DOMAIN g1
  <2> HIDE DEF g1
  <2> QED BY <1>3, <1>4, CleanupDescends, CleanupEases
<1>6. FeedOf(g0, view)
  BY <1>1, <1>2, EasedFeed
<1>7. FeedOf(g1, view1) /\ ViewType(view1)
  <2>1. CASE ~freed
    BY <1>1, <1>6, <2>1
  <2>2. CASE freed
    <3>1. view1 = AnnounceUpdated(view, g1, {code})
      BY <2>2
    <3> HIDE DEF g1, g0, view1
    <3>2. /\ \A k \in DOMAIN g0 : g1[k].public = g0[k].public /\ g1[k].commit = g0[k].commit
          /\ \A k \in (DOMAIN g0) \ {code} : Milder(g0[k], g1[k])
      BY <1>4 DEF Eases, Milder
    <3>3. FeedOf(g1, AnnounceUpdated(view, g1, {code}))
      BY <1>1, <1>2, <1>4, <1>6, <3>2, UpdatedFeed
    <3> QED BY <1>1, <1>4, <3>1, <3>3, UpdatedViewType
  <2> QED BY <2>1, <2>2
<1>8. /\ \/ games' = g1 /\ view' = view1
         \/ games' = g2 /\ view' = view1
         \/ /\ \E token \in Tokens : games' = reserve_seat(g2, code, token)
            /\ view' = AnnounceUpdated(view1, games', {code})
      /\ UNCHANGED <<client_hello, feed>>
  BY DEF LookupJoinTarget, UnusedTokens
<1> HIDE DEF g0, g1, g2, view1, freed
<1>9. FeedOf(g2, view1)
  BY <1>1, <1>4, <1>5, <1>7, EasedFeed
<1>10. CASE \/ games' = g1 /\ view' = view1
            \/ games' = g2 /\ view' = view1
  BY <1>7, <1>8, <1>9, <1>10, FeedFromLists DEF FeedOf
<1>11. CASE /\ \E token \in Tokens : games' = reserve_seat(g2, code, token)
            /\ view' = AnnounceUpdated(view1, games', {code})
  <2>1. PICK t \in Tokens : games' = reserve_seat(g2, code, t)
    BY <1>11
  <2>2. code \in DOMAIN g2
    BY <1>3, <1>4, <1>5
  <2>3. /\ DOMAIN games' = DOMAIN g2
        /\ games'[code].public = g2[code].public /\ games'[code].commit = g2[code].commit
        /\ \A k \in DOMAIN g2 : k # code => games'[k] = g2[k]
    BY <1>5, <2>1, <2>2, ReserveAdds
  <2>4. Valid(games')
    BY <1>5, <2>1, <2>2, ReserveDescends
  <2>5. \A k \in (DOMAIN g2) \ {code} : Milder(g2[k], games'[k])
    BY <1>5, <2>3, EasedButOne
  <2>6. \A k \in DOMAIN g2 : games'[k].public = g2[k].public /\ games'[k].commit = g2[k].commit
    BY <2>3
  <2>7. FeedOf(games', AnnounceUpdated(view1, games', {code}))
    BY <1>1, <1>5, <1>7, <1>9, <2>3, <2>4, <2>5, <2>6, UpdatedFeed
  <2> QED BY <1>8, <1>11, <2>7, FeedFromLists DEF FeedOf
<1> QED BY <1>8, <1>10, <1>11

\* Disconnect announces the freed seats, then the withdrawn listing.
LEMMA DisconnectFeed ==
    ASSUME TypeOK, FeedInv, NEW c \in Conns, Disconnect(c)
    PROVE  FeedInv'
<1> DEFINE g1 == release_reservations(games, held[c])
           codes == {r[1] : r \in held[c]}
           view1 == IF g1 # games THEN AnnounceUpdated(view, g1, codes) ELSE view
           Gone == (DOMAIN g1) \ (DOMAIN Withdrawn(g1, c))
           view2 == AnnounceRemoved(view1, Gone)
<1>1. Valid(games) /\ ViewType(view) /\ feed \subseteq Conns /\ FeedOf(games, view)
  BY TypeParts DEF TypeOK, FeedInv
<1>2. Valid(g1) /\ Eases(games, g1) /\ DOMAIN g1 = DOMAIN games
  BY <1>1, ReleaseAllDescends, ReleaseAllEases
<1>3. FeedOf(g1, view1)
  <2>1. CASE g1 = games
    BY <1>1, <2>1
  <2>2. CASE g1 # games
    <3>1. view1 = AnnounceUpdated(view, g1, codes)
      BY <2>2
    <3> HIDE DEF g1, codes, view1
    <3>2. /\ \A k \in DOMAIN games : /\ g1[k].public = games[k].public
                                     /\ g1[k].commit = games[k].commit
          /\ \A k \in (DOMAIN games) \ codes : Milder(games[k], g1[k])
      BY <1>2 DEF Eases, Milder
    <3>3. FeedOf(g1, AnnounceUpdated(view, g1, codes))
      BY <1>1, <1>2, <3>2, UpdatedFeed
    <3> QED BY <3>1, <3>3
  <2> QED BY <2>1, <2>2
<1>4. /\ games' = Withdrawn(g1, c)
      /\ view' = [view2 EXCEPT ![c] = EmptyMap]
      /\ client_hello' = [client_hello EXCEPT ![c] = NoHello]
      /\ feed' = feed \ {c}
  BY DEF Disconnect, AnnounceWithdrawn
<1> HIDE DEF g1, view1
<1>5. Withdrawn(g1, c) = Without(g1, Gone)
  BY <1>2, WithdrawnEases
<1>6. FeedOf(Without(g1, Gone), view2)
  <2> HIDE DEF Gone
  <2> QED BY <1>1, <1>3, RemovedFeed
<1>7. DOMAIN view2 = Conns
  BY DEF AnnounceRemoved
<1> HIDE DEF Gone, view2
<1>8. \A d \in feed' : d \in feed /\ view'[d] = view2[d] /\ client_hello'[d] = client_hello[d]
  BY <1>1, <1>4, <1>7 DEF TypeOK
<1>9. \A d \in feed' : ShowsTo(games', view'[d], client_hello[d])
  BY <1>4, <1>5, <1>6, <1>8 DEF FeedOf
<1> QED BY <1>4, <1>8, <1>9, FeedFromLists

\* The reaper and the clock.
LEMMA BackgroundFeed ==
    ASSUME TypeOK, FeedInv, Tick \/ \E seen : ReapHandled(seen)
    PROVE  FeedInv'
<1>1. Valid(games) /\ ViewType(view) /\ feed \subseteq Conns /\ FeedOf(games, view)
  BY TypeParts DEF TypeOK, FeedInv
<1>2. CASE Tick
  <2>1. FeedOf(Aged(games), view)
    BY <1>1, AgedDescends, AgedEases, EasedFeed
  <2> QED BY <1>2, <2>1, FeedFromLists DEF Tick, sockets, FeedOf
<1>3. ASSUME NEW seen, ReapHandled(seen) PROVE FeedInv'
  <2> DEFINE Gone == {r.code : r \in {r \in seen : is_current(games, r) \/ r.code \notin DOMAIN games}}
  <2>1. /\ games' = Without(games, Gone) /\ view' = AnnounceRemoved(view, Gone)
        /\ UNCHANGED <<client_hello, feed>>
    BY <1>3 DEF ReapHandled
  <2> HIDE DEF Gone
  <2>2. FeedOf(Without(games, Gone), AnnounceRemoved(view, Gone))
    BY <1>1, RemovedFeed
  <2> QED BY <2>1, <2>2, FeedFromLists DEF FeedOf
<1> QED BY <1>2, <1>3

\* Every frame and close leaves every subscriber's list right.
LEMMA FrameFeed ==
    ASSUME ~MintCollides, TypeOK, FeedInv, NEW c \in Conns,
           ReadOnlyFrame(c) \/ MutatingFrame(c) \/ Disconnect(c)
    PROVE  FeedInv'
<1>1. CASE MutatingFrame(c)
  <2>1. FeedOf(Withdrawn(Prelude(c), c), AnnounceWithdrawn(view, Prelude(c), c))
    BY WithdrawalFeed
  <2>2. ASSUME NEW code \in Codes, CreateGameRefused(c, code) PROVE FeedInv'
    BY <2>1, <2>2, FeedFromLists DEF CreateGameRefused, FeedOf
  <2>3. CASE UnregisterLobby(c)
    BY <2>1, <2>3, FeedFromLists DEF UnregisterLobby, FeedOf
  <2> QED BY <1>1, <2>2, <2>3, CreateFeed, UpdateFeed, JoinFeed, LookupFeed DEF MutatingFrame
<1> QED BY <1>1, ReadOnlyFeed, DisconnectFeed

\* The invariant gives the two properties of the feed.
LEMMA FeedInvGives ==
    ASSUME FeedInv
    PROVE  FeedMatchesRegistry /\ FeedNeverUndercounts
<1>1. \A c : DOMAIN Snapshot(games, c)
                = {k \in DOMAIN games : games[k].public
                                         /\ check_build_commit(games[k].commit, client_hello[c])}
  BY DEF Snapshot, listed, Visible
<1>2. FeedMatchesRegistry
  BY <1>1 DEF FeedInv, FeedOf, ShowsTo, FeedMatchesRegistry
<1>3. FeedNeverUndercounts
  BY DEF FeedInv, FeedOf, ShowsTo, FeedNeverUndercounts
<1> QED BY <1>2, <1>3
=============================================================================
