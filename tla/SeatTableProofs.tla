--------------------------- MODULE SeatTableProofs --------------------------
(***************************************************************************)
(* Theorems on the table of a room, for every number of seats, sockets,    *)
(* guests and decks: the types, the pairing of seats and decks, the        *)
(* reservations, and that the arrays implement the roster of chairs.       *)
(*                                                                         *)
(* apply_seat_delta rewrites every array in pieces, so each kind of delta  *)
(* is first shown to be the one-seat edit (or the renumbering) it stands   *)
(* for; the invariants and the refinement are argued on those edits.       *)
(***************************************************************************)
EXTENDS SeatTable, FiniteSetTheorems, TLAPS

\* What the other invariants rest on: AI players hold no token and are online,
\* nobody is online on an open seat, a token has one seat, a number has one
\* chair, and the host sits on the first of both.
Tidy ==
    /\ \A i \in ai_seats : tokens[i] = NoToken /\ connected[i] = TRUE
    /\ \A i \in Seats : Open(i) => connected[i] = FALSE
    /\ \A i, j \in Seats : tokens[i] = tokens[j] /\ tokens[i] # NoToken => i = j
    /\ \A i, j \in Seats : chair[i] = chair[j] => i = j
    /\ chair[0] = 0 /\ tokens[0] = Host

TableInv == TTypeOK /\ DecksPaired /\ HoldIsGood /\ Tidy

-----------------------------------------------------------------------------
(* Numbers. *)

\* The seats of a typed table.
LEMMA SeatNumbers ==
    ASSUME TTypeOK
    PROVE  /\ MaxSeats \in Nat /\ MinPlayers \in Nat /\ MinPlayers >= 2
           /\ player_count \in Nat /\ player_count >= 2 /\ player_count <= MaxSeats
           /\ player_count >= MinPlayers
           /\ Seats = 0..(player_count - 1)
           /\ 0 \in Seats
           /\ Seats \subseteq Numbers
           /\ None \notin Numbers
BY TableConstants DEF TTypeOK, Seats, Numbers, None

\* A set of seats is counted within the table's size.
LEMMA SeatCount ==
    ASSUME NEW n \in Nat, NEW S \in SUBSET (0..(n - 1))
    PROVE  /\ IsFiniteSet(S)
           /\ Cardinality(S) \in 0..n
           /\ Cardinality(0..(n - 1)) = n
<1>1. IsFiniteSet(0..(n - 1)) /\ Cardinality(0..(n - 1)) = n
  <2>1. /\ IsFiniteSet(0..(n - 1))
        /\ Cardinality(0..(n - 1)) = IF 0 > n - 1 THEN 0 ELSE (n - 1) - 0 + 1
    BY FS_Interval
  <2> QED BY <2>1
<1>2. IsFiniteSet(S) /\ Cardinality(S) <= n
  BY <1>1, FS_Subset
<1>3. Cardinality(S) \in Nat
  BY <1>2, FS_CardinalityType
<1> QED BY <1>1, <1>2, <1>3

-----------------------------------------------------------------------------
(* The kinds of the seats. *)

\* GameSession::seat_state tells the host, AI players, guests and open seats
\* apart.
LEMMA KindFacts ==
    ASSUME TableInv, NEW i \in Seats
    PROVE  /\ SeatKindOf(0) = "HostHuman"
           /\ i # 0 /\ i \in ai_seats => SeatKindOf(i) \in Choices /\ SeatKindOf(i) = deck_choices[i]
           /\ i # 0 /\ Open(i) => SeatKindOf(i) = "WaitingHuman"
           /\ i # 0 /\ tokens[i] # NoToken => SeatKindOf(i) = "JoinedHuman"
           /\ SeatKindOf(i) \in Choices <=> i \in ai_seats
           /\ SeatKindOf(i) = "WaitingHuman" <=> i # 0 /\ Open(i)
           /\ SeatKindOf(i) = "JoinedHuman" <=> i # 0 /\ tokens[i] # NoToken
<1>1. /\ "HostHuman" \notin Choices /\ "JoinedHuman" \notin Choices /\ "WaitingHuman" \notin Choices
      /\ NoDeck \notin Choices
  BY TableConstants DEF Choices
<1>2. 0 \notin ai_seats /\ tokens[0] # NoToken
  BY TableConstants DEF TableInv, TTypeOK, Tidy
<1>3. i \in ai_seats => /\ tokens[i] = NoToken
                        /\ deck_choices[i] \in Choices
                        /\ i # 0
  BY <1>2 DEF TableInv, Tidy, DecksPaired, Roster!Fits, Choices
<1>4. SeatKindOf(0) = "HostHuman"
  BY DEF SeatKindOf
<1>5. i \in ai_seats => SeatKindOf(i) = deck_choices[i]
  BY <1>1, <1>3 DEF SeatKindOf
<1>6. i # 0 /\ i \notin ai_seats /\ tokens[i] # NoToken => SeatKindOf(i) = "JoinedHuman"
  BY DEF SeatKindOf
<1>7. i # 0 /\ i \notin ai_seats /\ tokens[i] = NoToken => SeatKindOf(i) = "WaitingHuman"
  BY DEF SeatKindOf
<1> QED BY <1>1, <1>2, <1>3, <1>4, <1>5, <1>6, <1>7 DEF Open

-----------------------------------------------------------------------------
(* apply_seat_delta without a removal. *)

\* Seats of the delta that hold no human.
Waiting(d) == {j \in DOMAIN d.kinds : d.kinds[j] = "WaitingHuman"}
Staffed(d) == {j \in DOMAIN d.kinds : d.kinds[j] \in Choices}

\* The AI players the delta brings to seat j.
NewAt(d, j) == {n \in d.new_ai : n.seat = j}

\* Without a removal every entry is written back to its own place.
LEMMA DeltaInPlace ==
    ASSUME TableInv, NEW d, d.removed = None, DOMAIN d.kinds = Seats, ApplyDelta(d),
           d.removed_ai \subseteq Seats
    PROVE  /\ player_count' = player_count
           /\ tokens' = [j \in Seats |-> IF j \in Waiting(d) \cup Staffed(d) THEN NoToken ELSE tokens[j]]
           /\ connected' = [j \in Seats |-> IF j \in Waiting(d) THEN FALSE
                                            ELSE IF j \in Staffed(d) THEN TRUE ELSE connected[j]]
           /\ decks' = [j \in Seats |->
                          IF NewAt(d, j) # {} THEN (CHOOSE n \in NewAt(d, j) : TRUE).deck
                          ELSE IF j \in Waiting(d) \cup d.removed_ai THEN NoDeck ELSE decks[j]]
           /\ deck_choices' = [j \in Seats |->
                          IF NewAt(d, j) # {} THEN d.kinds[j]
                          ELSE IF j \in Waiting(d) \cup d.removed_ai THEN NoDeck ELSE deck_choices[j]]
           /\ ai_seats' = Staffed(d)
           /\ reservations' = [s \in Sockets |->
                          IF reservations[s].seat \in {None} \cup Waiting(d) \cup Staffed(d)
                          THEN NoHold ELSE reservations[s]]
           /\ chair' = chair
<1>1. \A i : old_to_new(d, i) = i
  BY DEF old_to_new
<1>2. \A j \in Seats : (\E i \in Seats : old_to_new(d, i) = j) /\ (CHOOSE i \in Seats : old_to_new(d, i) = j) = j
  BY <1>1
<1>3. None \notin Seats
  BY SeatNumbers DEF TableInv
<1>4. \A j \in Seats : NewAt(d, j) = {} => (j \in ClearedDecks(d) <=> j \in d.removed_ai)
  BY <1>1, <1>3 DEF ClearedDecks, NewAt
<1>5. player_count' = player_count
  <2>1. player_count' = Cardinality(Seats) /\ player_count \in Nat /\ Seats = 0..(player_count - 1)
    BY SeatNumbers DEF ApplyDelta, TableInv
  <2>2. Cardinality(0..(player_count - 1)) = player_count
    BY <2>1, SeatCount
  <2> QED BY <2>1, <2>2
<1>6. tokens' = [j \in Seats |-> IF j \in Waiting(d) \cup Staffed(d) THEN NoToken ELSE tokens[j]]
  BY <1>2 DEF ApplyDelta, Waiting, Staffed
<1>7. connected' = [j \in Seats |-> IF j \in Waiting(d) THEN FALSE
                                    ELSE IF j \in Staffed(d) THEN TRUE ELSE connected[j]]
  BY <1>2 DEF ApplyDelta, Waiting, Staffed
<1>8. decks' = [j \in Seats |->
                  IF NewAt(d, j) # {} THEN (CHOOSE n \in NewAt(d, j) : TRUE).deck
                  ELSE IF j \in Waiting(d) \cup d.removed_ai THEN NoDeck ELSE decks[j]]
  <2>1. decks' = [j \in Seats |->
                    IF NewAt(d, j) # {} THEN (CHOOSE n \in NewAt(d, j) : TRUE).deck
                    ELSE IF j \in Waiting(d) \cup ClearedDecks(d) THEN NoDeck
                    ELSE IF \E i \in Seats : old_to_new(d, i) = j
                         THEN decks[CHOOSE i \in Seats : old_to_new(d, i) = j] ELSE NoDeck]
    BY DEF ApplyDelta, Waiting, NewAt
  <2> QED BY <1>2, <1>4, <2>1
<1>9. deck_choices' = [j \in Seats |->
                  IF NewAt(d, j) # {} THEN d.kinds[j]
                  ELSE IF j \in Waiting(d) \cup d.removed_ai THEN NoDeck ELSE deck_choices[j]]
  <2>1. deck_choices' = [j \in Seats |->
                    IF NewAt(d, j) # {} THEN d.kinds[j]
                    ELSE IF j \in Waiting(d) \cup ClearedDecks(d) THEN NoDeck
                    ELSE IF \E i \in Seats : old_to_new(d, i) = j
                         THEN deck_choices[CHOOSE i \in Seats : old_to_new(d, i) = j] ELSE NoDeck]
    BY DEF ApplyDelta, Waiting, NewAt
  <2> QED BY <1>2, <1>4, <2>1
<1>10. ai_seats' = Staffed(d)
  BY DEF ApplyDelta, Staffed
<1>11. reservations' = [s \in Sockets |->
                  IF reservations[s].seat \in {None} \cup Waiting(d) \cup Staffed(d)
                  THEN NoHold ELSE reservations[s]]
  <2> DEFINE moved(h) == [h EXCEPT !.seat = IF @ = None THEN None ELSE old_to_new(d, @)]
  <2>1. \A s \in Sockets : moved(reservations[s]) = reservations[s]
    BY <1>1 DEF TableInv, TTypeOK
  <2>2. reservations' = [s \in Sockets |->
                  IF moved(reservations[s]).seat \in {None} \cup Waiting(d) \cup Staffed(d)
                  THEN NoHold ELSE moved(reservations[s])]
    BY DEF ApplyDelta, Waiting, Staffed
  <2> HIDE DEF moved
  <2> QED BY <2>1, <2>2
<1>12. chair' = chair
  <2>1. chair' = [j \in Seats |-> chair[CHOOSE i \in Seats :
                    i # d.removed /\ j = IF d.removed # None /\ i > d.removed THEN i - 1 ELSE i]]
    BY DEF ApplyDelta
  <2>2. \A j \in Seats : (CHOOSE i \in Seats :
                    i # d.removed /\ j = IF d.removed # None /\ i > d.removed THEN i - 1 ELSE i) = j
    BY <1>3
  <2>3. chair \in [Seats -> Numbers]
    BY DEF TableInv, TTypeOK
  <2> QED BY <2>1, <2>2, <2>3
<1> QED BY <1>5, <1>6, <1>7, <1>8, <1>9, <1>10, <1>11, <1>12

\* The delta of a stale request writes back what is there.
LEMMA StaleEffect ==
    ASSUME TableInv, ApplyDelta(NoChange)
    PROVE  /\ UNCHANGED arrays
           /\ \A s \in Sockets : reservations'[s] \in {NoHold, reservations[s]}
           /\ reservations' = [s \in Sockets |-> reservations'[s]]
           /\ \A s \in Sockets : reservations'[s].seat # None => ~Open(reservations'[s].seat)
<1> DEFINE d == NoChange
<1>1. /\ d.removed = None /\ DOMAIN d.kinds = Seats /\ d.removed_ai = {} /\ d.new_ai = {}
      /\ \A j \in Seats : d.kinds[j] = SeatKindOf(j)
  BY DEF NoChange, Delta, KindsNow
<1>2. \A j \in Seats : /\ j \in Waiting(d) <=> j # 0 /\ Open(j)
                       /\ j \in Staffed(d) <=> j \in ai_seats
  BY <1>1, KindFacts DEF Waiting, Staffed
<1>3. \A j : NewAt(d, j) = {}
  BY <1>1 DEF NewAt
<1>4. Staffed(d) \subseteq Seats
  BY <1>1 DEF Staffed
<1> HIDE DEF d
<1>5. /\ player_count' = player_count
      /\ tokens' = [j \in Seats |-> IF j \in Waiting(d) \cup Staffed(d) THEN NoToken ELSE tokens[j]]
      /\ connected' = [j \in Seats |-> IF j \in Waiting(d) THEN FALSE
                                       ELSE IF j \in Staffed(d) THEN TRUE ELSE connected[j]]
      /\ decks' = [j \in Seats |-> IF j \in Waiting(d) THEN NoDeck ELSE decks[j]]
      /\ deck_choices' = [j \in Seats |-> IF j \in Waiting(d) THEN NoDeck ELSE deck_choices[j]]
      /\ ai_seats' = Staffed(d)
      /\ reservations' = [s \in Sockets |->
                          IF reservations[s].seat \in {None} \cup Waiting(d) \cup Staffed(d)
                          THEN NoHold ELSE reservations[s]]
      /\ chair' = chair
  <2>1. ApplyDelta(d)
    BY DEF d
  <2>2. d.removed = None /\ DOMAIN d.kinds = Seats /\ d.removed_ai \subseteq Seats
    BY <1>1
  <2>3. /\ decks' = [j \in Seats |->
                       IF NewAt(d, j) # {} THEN (CHOOSE n \in NewAt(d, j) : TRUE).deck
                       ELSE IF j \in Waiting(d) \cup d.removed_ai THEN NoDeck ELSE decks[j]]
        /\ deck_choices' = [j \in Seats |->
                       IF NewAt(d, j) # {} THEN d.kinds[j]
                       ELSE IF j \in Waiting(d) \cup d.removed_ai THEN NoDeck ELSE deck_choices[j]]
    BY <2>1, <2>2, DeltaInPlace
  <2>4. /\ decks' = [j \in Seats |-> IF j \in Waiting(d) THEN NoDeck ELSE decks[j]]
        /\ deck_choices' = [j \in Seats |-> IF j \in Waiting(d) THEN NoDeck ELSE deck_choices[j]]
    BY <1>1, <1>3, <2>3
  <2> QED BY <2>1, <2>2, <2>4, DeltaInPlace
<1>6. /\ \A j \in Waiting(d) \cup Staffed(d) : tokens[j] = NoToken
      /\ \A j \in Waiting(d) : connected[j] = FALSE /\ decks[j] = NoDeck /\ deck_choices[j] = NoDeck
      /\ \A j \in Staffed(d) : connected[j] = TRUE
      /\ Waiting(d) \subseteq Seats
  BY <1>1, <1>2, <1>4 DEF TableInv, Tidy, DecksPaired, Open, Waiting
<1>7. /\ tokens \in [Seats -> Players \cup {NoToken}] /\ connected \in [Seats -> BOOLEAN]
      /\ decks \in [Seats -> Players \cup BotDecks \cup {NoDeck}]
      /\ deck_choices \in [Seats -> Players \cup Choices \cup {NoDeck}]
      /\ ai_seats \subseteq Seats
  BY DEF TableInv, TTypeOK
<1>8. tokens' = tokens /\ decks' = decks /\ deck_choices' = deck_choices
  BY <1>5, <1>6, <1>7
<1>9. connected' = connected
  <2>1. Waiting(d) \cap Staffed(d) = {}
    BY <1>2, <1>4 DEF Open
  <2>2. \A j \in Seats : connected'[j] = connected[j]
    BY <1>5, <1>6, <2>1
  <2>3. connected' \in [Seats -> BOOLEAN]
    BY <1>5, <1>7
  <2> QED BY <1>7, <2>2, <2>3
<1>10. ai_seats' = ai_seats
  BY <1>2, <1>4, <1>5, <1>7
<1>11. \A s \in Sockets : reservations'[s].seat # None => ~Open(reservations'[s].seat)
  <2> SUFFICES ASSUME NEW s \in Sockets, reservations'[s].seat # None
               PROVE  ~Open(reservations'[s].seat)
    OBVIOUS
  <2>1. reservations'[s] = reservations[s] /\ reservations[s].seat \notin Waiting(d)
    BY <1>5 DEF NoHold
  <2>2. reservations[s].seat \in Seats
    BY <2>1 DEF TableInv, HoldIsGood
  <2>3. Open(0) = FALSE
    BY TableConstants DEF TableInv, Tidy, Open
  <2> QED BY <1>2, <2>1, <2>2, <2>3
<1> QED BY <1>5, <1>8, <1>9, <1>10, <1>11 DEF arrays

\* SetKind edits one seat and drops the reservations of seats without a human.
LEMMA SetKindEffect ==
    ASSUME TableInv, NEW i \in Seats \ {0}, NEW kind, NEW deck,
           \/ kind = "WaitingHuman" /\ deck = NoDeck
           \/ kind \in Choices,
           ApplyDelta(apply_set_kind(i, kind, deck))
    PROVE  /\ player_count' = player_count /\ chair' = chair
           /\ tokens' = [tokens EXCEPT ![i] = NoToken]
           /\ connected' \in [Seats -> BOOLEAN]
           /\ \A j \in Seats \ {i} : connected'[j] = connected[j]
           /\ kind \in Choices => connected'[i] = TRUE
           /\ kind \notin Choices => connected'[i] = FALSE
           /\ decks' = [decks EXCEPT ![i] = deck]
           /\ deck_choices' = [deck_choices EXCEPT ![i] = IF kind \in Choices THEN kind ELSE NoDeck]
           /\ ai_seats' = IF kind \in Choices THEN ai_seats \cup {i} ELSE ai_seats \ {i}
           /\ reservations' = [s \in Sockets |-> reservations'[s]]
           /\ \A s \in Sockets : reservations'[s] \in {NoHold, reservations[s]}
           /\ \A s \in Sockets : reservations'[s].seat # None =>
                 reservations'[s].seat # i /\ ~Open(reservations'[s].seat)
<1> DEFINE d == apply_set_kind(i, kind, deck)
<1>1. /\ d.removed = None /\ DOMAIN d.kinds = Seats
      /\ d.kinds[i] = kind
      /\ \A j \in Seats : j # i => d.kinds[j] = SeatKindOf(j)
      /\ d.removed_ai \subseteq {i}
      /\ d.new_ai = IF kind \in Choices THEN {[seat |-> i, deck |-> deck]} ELSE {}
  BY DEF apply_set_kind, Delta, KindsNow
<1>2. "WaitingHuman" \notin Choices
  BY TableConstants DEF Choices
<1>3. \A j \in Seats : j # i => /\ j \in Waiting(d) <=> j # 0 /\ Open(j)
                                /\ j \in Staffed(d) <=> j \in ai_seats
  BY <1>1, KindFacts DEF Waiting, Staffed
<1>4. (i \in Waiting(d) <=> kind \notin Choices) /\ (i \in Staffed(d) <=> kind \in Choices)
  BY <1>1, <1>2 DEF Waiting, Staffed
<1>5. /\ \A j : j # i => NewAt(d, j) = {}
      /\ kind \notin Choices => NewAt(d, i) = {}
      /\ kind \in Choices => NewAt(d, i) = {[seat |-> i, deck |-> deck]}
  BY <1>1 DEF NewAt
<1>6. Staffed(d) \subseteq Seats /\ Waiting(d) \subseteq Seats
  BY <1>1 DEF Staffed, Waiting
<1>7. ApplyDelta(d) /\ d.removed_ai \subseteq Seats
  BY <1>1
<1> HIDE DEF d
<1>8. /\ player_count' = player_count /\ chair' = chair
      /\ tokens' = [j \in Seats |-> IF j \in Waiting(d) \cup Staffed(d) THEN NoToken ELSE tokens[j]]
      /\ connected' = [j \in Seats |-> IF j \in Waiting(d) THEN FALSE
                                       ELSE IF j \in Staffed(d) THEN TRUE ELSE connected[j]]
      /\ ai_seats' = Staffed(d)
      /\ reservations' = [s \in Sockets |->
                          IF reservations[s].seat \in {None} \cup Waiting(d) \cup Staffed(d)
                          THEN NoHold ELSE reservations[s]]
  BY <1>1, <1>7, DeltaInPlace
<1>9. /\ decks' = [j \in Seats |->
                     IF NewAt(d, j) # {} THEN (CHOOSE n \in NewAt(d, j) : TRUE).deck
                     ELSE IF j \in Waiting(d) \cup d.removed_ai THEN NoDeck ELSE decks[j]]
      /\ deck_choices' = [j \in Seats |->
                     IF NewAt(d, j) # {} THEN d.kinds[j]
                     ELSE IF j \in Waiting(d) \cup d.removed_ai THEN NoDeck ELSE deck_choices[j]]
  BY <1>1, <1>7, DeltaInPlace
<1>10. /\ tokens \in [Seats -> Players \cup {NoToken}] /\ connected \in [Seats -> BOOLEAN]
       /\ decks \in [Seats -> Players \cup BotDecks \cup {NoDeck}]
       /\ deck_choices \in [Seats -> Players \cup Choices \cup {NoDeck}]
       /\ ai_seats \subseteq Seats
  BY DEF TableInv, TTypeOK
<1>11. \A j \in Seats : j # i =>
          /\ j \in Waiting(d) \cup Staffed(d) => tokens[j] = NoToken
          /\ j \in Waiting(d) => connected[j] = FALSE /\ decks[j] = NoDeck /\ deck_choices[j] = NoDeck
          /\ j \in Staffed(d) => connected[j] = TRUE
          /\ ~(j \in Waiting(d) /\ j \in Staffed(d))
  BY <1>3 DEF TableInv, Tidy, DecksPaired, Open
<1>12. tokens' = [tokens EXCEPT ![i] = NoToken]
  BY <1>4, <1>8, <1>10, <1>11
<1>13. /\ connected' \in [Seats -> BOOLEAN]
       /\ \A j \in Seats \ {i} : connected'[j] = connected[j]
       /\ kind \in Choices => connected'[i] = TRUE
       /\ kind \notin Choices => connected'[i] = FALSE
  <2>1. \A j \in Seats : connected'[j] = IF j \in Waiting(d) THEN FALSE
                                         ELSE IF j \in Staffed(d) THEN TRUE ELSE connected[j]
    BY <1>8
  <2>2. connected' = [j \in Seats |-> connected'[j]]
    BY <1>8
  <2>3. \A j \in Seats : connected'[j] \in BOOLEAN
    BY <1>10, <2>1
  <2>4. \A j \in Seats \ {i} : connected'[j] = connected[j]
    BY <1>11, <2>1
  <2>5. kind \in Choices => connected'[i] = TRUE
    BY <1>4, <2>1
  <2>6. kind \notin Choices => connected'[i] = FALSE
    BY <1>4, <2>1
  <2> QED BY <2>2, <2>3, <2>4, <2>5, <2>6
<1>14. decks' = [decks EXCEPT ![i] = deck]
  <2>1. ASSUME NEW j \in Seats, j # i PROVE decks'[j] = decks[j]
    BY <1>1, <1>5, <1>9, <1>11, <2>1
  <2>0. decks' = [j \in Seats |-> decks'[j]] /\ decks = [j \in Seats |-> decks[j]]
    BY <1>9, <1>10
  <2>2. CASE kind \in Choices
    <3>1. decks'[i] = (CHOOSE n \in NewAt(d, i) : TRUE).deck
      BY <1>5, <1>9, <2>2
    <3>2. (CHOOSE n \in NewAt(d, i) : TRUE) = [seat |-> i, deck |-> deck]
      BY <1>5, <2>2
    <3>3. [seat |-> i, deck |-> deck].deck = deck
      OBVIOUS
    <3>4. decks'[i] = [seat |-> i, deck |-> deck].deck
      BY <3>1, <3>2, Zenon
    <3>5. decks'[i] = deck
      BY <3>3, <3>4, Zenon
    <3> QED BY <2>0, <2>1, <3>5
  <2>3. CASE kind \notin Choices
    <3>1. decks'[i] = NoDeck
      BY <1>4, <1>5, <1>9, <2>3
    <3> QED BY <2>0, <2>1, <2>3, <3>1
  <2> QED BY <2>2, <2>3
<1>15. deck_choices' = [deck_choices EXCEPT ![i] = IF kind \in Choices THEN kind ELSE NoDeck]
  <2>1. ASSUME NEW j \in Seats, j # i PROVE deck_choices'[j] = deck_choices[j]
    BY <1>1, <1>5, <1>9, <1>11, <2>1
  <2>2. deck_choices'[i] = IF kind \in Choices THEN kind ELSE NoDeck
    BY <1>1, <1>4, <1>5, <1>9
  <2> QED BY <1>9, <1>10, <2>1, <2>2
<1>16. ai_seats' = IF kind \in Choices THEN ai_seats \cup {i} ELSE ai_seats \ {i}
  BY <1>3, <1>4, <1>6, <1>8, <1>10
<1>17. ASSUME NEW s \in Sockets, reservations'[s].seat # None
       PROVE  reservations'[s].seat # i /\ ~Open(reservations'[s].seat)
  <2>1. /\ reservations'[s] = reservations[s]
        /\ reservations[s].seat \notin Waiting(d) \cup Staffed(d)
    BY <1>8, <1>17 DEF NoHold
  <2>2. reservations[s].seat \in Seats
    BY <1>17, <2>1 DEF TableInv, HoldIsGood
  <2>3. Open(0) = FALSE
    BY TableConstants DEF TableInv, Tidy, Open
  <2> QED BY <1>3, <1>4, <2>1, <2>2, <2>3
<1> QED BY <1>8, <1>12, <1>13, <1>14, <1>15, <1>16, <1>17

-----------------------------------------------------------------------------
(* apply_seat_delta with a removal. *)

\* The number a seat had before seat i was removed.
Shift(i, j) == IF j < i THEN j ELSE j + 1

\* The renumbering is the inverse of Shift.
LEMMA Renumbering ==
    ASSUME TTypeOK, NEW i \in Seats, NEW d, d.removed = i, NEW j \in 0..(player_count - 2)
    PROVE  /\ Shift(i, j) \in Seats /\ Shift(i, j) # i
           /\ \A k \in Seats : old_to_new(d, k) = j <=> k = Shift(i, j)
           /\ \A k \in Seats : (k # i /\ j = IF i # None /\ k > i THEN k - 1 ELSE k) <=> k = Shift(i, j)
<1>1. player_count \in Nat /\ Seats = 0..(player_count - 1) /\ i \in Nat
  BY SeatNumbers
<1> QED BY <1>1 DEF Shift, old_to_new, None

\* Remove renumbers the seats behind the one it takes away, and changes nothing
\* else about them.
LEMMA RemoveEffect ==
    ASSUME TableInv, NEW i \in Seats \ {0}, RemoveAllowed(i), ApplyDelta(apply_remove(i))
    PROVE  LET after == 0..(player_count - 2)
           IN  /\ player_count' = player_count - 1
               /\ tokens' = [j \in after |-> tokens[Shift(i, j)]]
               /\ connected' = [j \in after |-> connected[Shift(i, j)]]
               /\ decks' = [j \in after |-> decks[Shift(i, j)]]
               /\ deck_choices' = [j \in after |-> deck_choices[Shift(i, j)]]
               /\ ai_seats' = {j \in after : Shift(i, j) \in ai_seats}
               /\ chair' = [j \in after |-> chair[Shift(i, j)]]
               /\ reservations' = [s \in Sockets |-> reservations'[s]]
               /\ \A s \in Sockets :
                    \/ reservations'[s] = NoHold
                    \/ /\ reservations'[s].seat \in after
                       /\ reservations'[s].lapsed = reservations[s].lapsed
                       /\ reservations[s].seat = Shift(i, reservations'[s].seat)
                       /\ reservations'[s] = [seat |-> reservations'[s].seat, lapsed |-> reservations[s].lapsed]
                       /\ ~Open(reservations[s].seat)
<1> DEFINE d == apply_remove(i)
           after == 0..(player_count - 2)
<1>1. /\ d.removed = i /\ DOMAIN d.kinds = after /\ d.new_ai = {} /\ d.removed_ai \subseteq {i}
      /\ \A j \in after : d.kinds[j] = SeatKindOf(Shift(i, j))
  BY DEF apply_remove, Delta, Shift
<1>2. TTypeOK /\ i \in Seats /\ i # 0
  BY DEF TableInv
<1>3. player_count \in Nat /\ player_count >= 2 /\ Seats = 0..(player_count - 1) /\ None \notin Seats
  BY <1>2, SeatNumbers
<1>4. \A j \in after : Shift(i, j) \in Seats
  BY <1>1, <1>2, Renumbering
<1>5. \A j \in after : (j = 0 <=> Shift(i, j) = 0)
  BY <1>2, <1>3 DEF Shift
<1>6. \A j \in after : /\ j \in Waiting(d) <=> j # 0 /\ Open(Shift(i, j))
                       /\ j \in Staffed(d) <=> Shift(i, j) \in ai_seats
  BY <1>1, <1>4, <1>5, KindFacts DEF Waiting, Staffed
<1>7. \A j \in after : /\ (\E k \in Seats : old_to_new(d, k) = j)
                       /\ (CHOOSE k \in Seats : old_to_new(d, k) = j) = Shift(i, j)
  BY <1>1, <1>2, Renumbering
<1>8. ClearedDecks(d) = {}
  BY <1>1, <1>3 DEF ClearedDecks, old_to_new
<1>9. \A j : NewAt(d, j) = {}
  BY <1>1 DEF NewAt
<1>10. ApplyDelta(d)
  OBVIOUS
<1>11. Waiting(d) \subseteq after /\ Staffed(d) \subseteq after
  BY <1>1 DEF Waiting, Staffed
<1> HIDE DEF d
<1>12. \A j \in after :
          /\ j \in Waiting(d) \cup Staffed(d) => tokens[Shift(i, j)] = NoToken
          /\ j \in Waiting(d) => /\ connected[Shift(i, j)] = FALSE
                                 /\ decks[Shift(i, j)] = NoDeck /\ deck_choices[Shift(i, j)] = NoDeck
          /\ j \in Staffed(d) => connected[Shift(i, j)] = TRUE
          /\ ~(j \in Waiting(d) /\ j \in Staffed(d))
  BY <1>4, <1>6 DEF TableInv, Tidy, DecksPaired, Open
<1>13. player_count' = player_count - 1
  <2>1. player_count' = Cardinality(after)
    BY <1>1, <1>10 DEF ApplyDelta
  <2>2. player_count - 1 \in Nat /\ after = 0..((player_count - 1) - 1)
    BY <1>3
  <2>3. Cardinality(0..((player_count - 1) - 1)) = player_count - 1
    BY <2>2, SeatCount
  <2> QED BY <2>1, <2>2, <2>3
<1>14. tokens' = [j \in after |-> tokens[Shift(i, j)]]
  <2>1. tokens' = [j \in after |-> IF j \in Waiting(d) \cup Staffed(d) THEN NoToken
                                   ELSE IF \E k \in Seats : old_to_new(d, k) = j
                                        THEN tokens[CHOOSE k \in Seats : old_to_new(d, k) = j] ELSE NoToken]
    BY <1>1, <1>10 DEF ApplyDelta, Waiting, Staffed
  <2> QED BY <1>7, <1>12, <2>1
<1>15. connected' = [j \in after |-> connected[Shift(i, j)]]
  <2>1. connected' = [j \in after |-> IF j \in Waiting(d) THEN FALSE
                                   ELSE IF j \in Staffed(d) THEN TRUE
                                   ELSE IF \E k \in Seats : old_to_new(d, k) = j
                                        THEN connected[CHOOSE k \in Seats : old_to_new(d, k) = j] ELSE FALSE]
    BY <1>1, <1>10 DEF ApplyDelta, Waiting, Staffed
  <2>2. connected \in [Seats -> BOOLEAN]
    BY <1>2 DEF TTypeOK
  <2>3. \A j \in after : connected'[j] = connected[Shift(i, j)]
    BY <1>7, <1>12, <2>1
  <2>4. DOMAIN connected' = after /\ connected' = [j \in after |-> connected'[j]]
    BY <2>1
  <2> QED BY <2>3, <2>4
<1>16. decks' = [j \in after |-> decks[Shift(i, j)]]
  <2>1. decks' = [j \in after |-> IF NewAt(d, j) # {} THEN (CHOOSE n \in NewAt(d, j) : TRUE).deck
                                   ELSE IF j \in Waiting(d) \cup ClearedDecks(d) THEN NoDeck
                                   ELSE IF \E k \in Seats : old_to_new(d, k) = j
                                        THEN decks[CHOOSE k \in Seats : old_to_new(d, k) = j] ELSE NoDeck]
    BY <1>1, <1>10 DEF ApplyDelta, Waiting, NewAt
  <2> QED BY <1>7, <1>8, <1>9, <1>12, <2>1
<1>17. deck_choices' = [j \in after |-> deck_choices[Shift(i, j)]]
  <2>1. deck_choices' = [j \in after |-> IF NewAt(d, j) # {} THEN d.kinds[j]
                                   ELSE IF j \in Waiting(d) \cup ClearedDecks(d) THEN NoDeck
                                   ELSE IF \E k \in Seats : old_to_new(d, k) = j
                                        THEN deck_choices[CHOOSE k \in Seats : old_to_new(d, k) = j] ELSE NoDeck]
    BY <1>1, <1>10 DEF ApplyDelta, Waiting, NewAt
  <2> QED BY <1>7, <1>8, <1>9, <1>12, <2>1
<1>18. ai_seats' = {j \in after : Shift(i, j) \in ai_seats}
  <2>1. ai_seats' = Staffed(d)
    BY <1>10 DEF ApplyDelta, Staffed
  <2> QED BY <1>6, <1>11, <2>1
<1>19. chair' = [j \in after |-> chair[Shift(i, j)]]
  <2> DEFINE c(j) == CHOOSE k \in Seats :
                       k # d.removed /\ j = IF d.removed # None /\ k > d.removed THEN k - 1 ELSE k
  <2>1. chair' = [j \in after |-> chair[c(j)]]
    BY <1>1, <1>10 DEF ApplyDelta
  <2>2. \A j \in after : c(j) = Shift(i, j)
    BY <1>1, <1>2, <1>4, Renumbering
  <2> HIDE DEF c
  <2> QED BY <2>1, <2>2
<1> DEFINE moved(h) == [h EXCEPT !.seat = IF @ = None THEN None ELSE old_to_new(d, @)]
<1>20. reservations' = [s \in Sockets |->
              IF moved(reservations[s]).seat \in {None} \cup Waiting(d) \cup Staffed(d)
              THEN NoHold ELSE moved(reservations[s])]
  BY <1>1, <1>10 DEF ApplyDelta, Waiting, Staffed
<1>21. ASSUME NEW s \in Sockets, reservations'[s] # NoHold
       PROVE  /\ reservations'[s].seat \in after
              /\ reservations'[s].lapsed = reservations[s].lapsed
              /\ reservations[s].seat = Shift(i, reservations'[s].seat)
              /\ reservations'[s] = [seat |-> reservations'[s].seat, lapsed |-> reservations[s].lapsed]
              /\ ~Open(reservations[s].seat)
  <2> DEFINE r == reservations[s]
             q == reservations'[s]
  <2>1. /\ q = moved(r)
        /\ moved(r).seat \notin {None} \cup Waiting(d) \cup Staffed(d)
    <3> HIDE DEF moved
    <3> QED BY <1>20, <1>21
  <2>2. r \in [seat : Numbers \cup {None}, lapsed : BOOLEAN]
    BY <1>2 DEF TTypeOK
  <2>3. /\ q.seat = IF r.seat = None THEN None ELSE old_to_new(d, r.seat)
        /\ q.lapsed = r.lapsed /\ q = [seat |-> q.seat, lapsed |-> r.lapsed]
    BY <2>1, <2>2
  <2>4. r.seat # None /\ q.seat = old_to_new(d, r.seat) /\ q.seat # None
        /\ q.seat \notin Waiting(d) \cup Staffed(d)
    BY <2>1, <2>3
  <2>5. r.seat \in Seats
    BY <2>4 DEF TableInv, HoldIsGood
  <2>6. q.seat \in after /\ r.seat = Shift(i, q.seat)
    <3> DEFINE x == r.seat
               y == q.seat
    <3>1. x \in 0..(player_count - 1) /\ y = old_to_new(d, x) /\ y # None /\ d.removed = i
          /\ i \in 0..(player_count - 1)
      BY <1>1, <1>2, <1>3, <2>4, <2>5
    <3> HIDE DEF x, y
    <3>2. y \in after /\ x = Shift(i, y)
      BY <1>3, <3>1 DEF old_to_new, Shift, None
    <3> QED BY <3>2 DEF x, y
  <2>7. ~Open(r.seat)
    <3>1. Open(0) = FALSE
      BY TableConstants DEF TableInv, Tidy, Open
    <3> QED BY <1>5, <1>6, <2>4, <2>6, <3>1
  <2> QED BY <2>3, <2>6, <2>7
<1>22. reservations' = [s \in Sockets |-> reservations'[s]]
  BY <1>20
<1> HIDE DEF moved
<1> QED BY <1>13, <1>14, <1>15, <1>16, <1>17, <1>18, <1>19, <1>21, <1>22

-----------------------------------------------------------------------------
(* The invariant, action by action. *)

\* cleanup_expired_reservations drops reservations and adds none.
LEMMA UnlapsedHolds ==
    ASSUME TableInv
    PROVE  /\ Unlapsed \in [Sockets -> [seat : Numbers \cup {None}, lapsed : BOOLEAN]]
           /\ \A s \in Sockets : Unlapsed[s] \in {NoHold, reservations[s]}
           /\ \A s \in Sockets : Unlapsed[s].seat # None =>
                 Unlapsed[s] = reservations[s] /\ reservations[s].lapsed = FALSE
<1>1. NoHold \in [seat : Numbers \cup {None}, lapsed : BOOLEAN]
  BY DEF NoHold
<1>2. reservations \in [Sockets -> [seat : Numbers \cup {None}, lapsed : BOOLEAN]]
  BY DEF TableInv, TTypeOK
<1>3. \A s \in Sockets : Unlapsed[s] = IF reservations[s].lapsed THEN NoHold ELSE reservations[s]
  BY DEF Unlapsed
<1>4. \A s \in Sockets : Unlapsed[s] \in {NoHold, reservations[s]}
  BY <1>3
<1>5. Unlapsed \in [Sockets -> [seat : Numbers \cup {None}, lapsed : BOOLEAN]]
  BY <1>1, <1>2 DEF Unlapsed
<1>6. \A s \in Sockets : Unlapsed[s].seat # None =>
                 Unlapsed[s] = reservations[s] /\ reservations[s].lapsed = FALSE
  <2> SUFFICES ASSUME NEW s \in Sockets, Unlapsed[s].seat # None
               PROVE  Unlapsed[s] = reservations[s] /\ reservations[s].lapsed = FALSE
    OBVIOUS
  <2>1. NoHold.seat = None
    BY DEF NoHold
  <2>2. reservations[s].lapsed \in BOOLEAN
    BY <1>2
  <2> QED BY <1>3, <2>1, <2>2
<1> QED BY <1>4, <1>5, <1>6

\* Fewer reservations on the same seats are good if all were.
LEMMA FewerHolds ==
    ASSUME TableInv, UNCHANGED arrays,
           \A s \in Sockets : \/ reservations'[s].seat = None
                              \/ /\ reservations'[s].seat = reservations[s].seat
                                 /\ ~reservations'[s].lapsed => ~reservations[s].lapsed
    PROVE  HoldIsGood'
BY DEF TableInv, HoldIsGood, Seats, Open, arrays

\* A step that leaves the arrays and the index alone.
LEMMA QuietStep ==
    ASSUME TableInv, UNCHANGED arrays, UNCHANGED <<issued, indexed>>,
           started' \in BOOLEAN,
           reservations' \in [Sockets -> [seat : Numbers \cup {None}, lapsed : BOOLEAN]],
           HoldIsGood',
           UNCHANGED route, UNCHANGED sock,
           count' \in [Sockets -> [step : {"none", "read", "publish"}, current : 0..MaxSeats, max : 0..MaxSeats]],
           listing' \in [current : 0..MaxSeats, max : 0..MaxSeats]
    PROVE  TableInv'
<1>1. TTypeOK'
  BY DEF TableInv, TTypeOK, arrays, Seats
<1>2. DecksPaired'
  BY DEF TableInv, DecksPaired, arrays, Seats
<1>3. Tidy'
  BY DEF TableInv, Tidy, arrays, Seats, Open
<1> QED BY <1>1, <1>2, <1>3 DEF TableInv

\* What a handler remembers to publish is a number of seats.
LEMMA CountTyped ==
    ASSUME TableInv, NEW s \in Sockets, NEW c \in 0..MaxSeats, NEW m \in 0..MaxSeats,
           Publish(s, c, m) \/ Recount(s) \/ count' = [count EXCEPT ![s] = NoCount]
    PROVE  count' \in [Sockets -> [step : {"none", "read", "publish"}, current : 0..MaxSeats, max : 0..MaxSeats]]
<1> DEFINE C == [step : {"none", "read", "publish"}, current : 0..MaxSeats, max : 0..MaxSeats]
<1>1. 0 \in 0..MaxSeats
  BY TableConstants
<1>2. [step |-> "publish", current |-> c, max |-> m] \in C
  OBVIOUS
<1>3. NoCount \in C /\ [NoCount EXCEPT !.step = "read"] \in C
  BY <1>1 DEF NoCount
<1>4. count \in [Sockets -> C]
  BY DEF TableInv, TTypeOK
<1> HIDE DEF C
<1>5. count' \in [Sockets -> C]
  BY <1>2, <1>3, <1>4 DEF Publish, Recount
<1> QED BY <1>5 DEF C

\* A count of seats of the table.
LEMMA SeatsCounted ==
    ASSUME TableInv, NEW S \in SUBSET Seats
    PROVE  Cardinality(S) \in 0..MaxSeats
<1>1. TTypeOK
  BY DEF TableInv
<1>2. player_count \in Nat /\ player_count <= MaxSeats /\ Seats = 0..(player_count - 1) /\ MaxSeats \in Nat
  BY <1>1, SeatNumbers
<1>3. Cardinality(S) \in 0..player_count
  BY <1>2, SeatCount
<1> QED BY <1>2, <1>3

\* current_player_count counts seats of the table.
LEMMA CurrentTyped ==
    ASSUME TableInv, NEW held
    PROVE  current_player_count(held) \in 0..MaxSeats
<1> DEFINE S == {i \in Seats : ~Open(i) \/ \E s \in Sockets : held[s].seat = i}
<1>1. S \in SUBSET Seats
  OBVIOUS
<1> HIDE DEF S
<1>2. Cardinality(S) \in 0..MaxSeats
  BY <1>1, SeatsCounted
<1> QED BY <1>2 DEF S, current_player_count

\* Reservations come, go and lapse; counts are read and published.
LEMMA ReservationSteps ==
    ASSUME TableInv, NEW s \in Sockets,
           \/ ReadCount(s) \/ SetListing(s)
           \/ \E i \in Numbers : Reserve(s, i)
           \/ Release(s) \/ Lapse(s) \/ Refused(s)
    PROVE  TableInv'
<1> DEFINE R == [seat : Numbers \cup {None}, lapsed : BOOLEAN]
<1>0. /\ reservations \in [Sockets -> R] /\ started \in BOOLEAN
      /\ count \in [Sockets -> [step : {"none", "read", "publish"}, current : 0..MaxSeats, max : 0..MaxSeats]]
      /\ listing \in [current : 0..MaxSeats, max : 0..MaxSeats]
  BY DEF TableInv, TTypeOK
<1>1. NoHold \in R /\ NoHold.seat = None
  BY DEF NoHold
<1>2. 0 \in 0..MaxSeats
  BY TableConstants
<1>3. CASE ReadCount(s)
  <2>1. /\ reservations' \in {reservations, Unlapsed}
        /\ Publish(s, current_player_count(reservations'), 0)
        /\ UNCHANGED arrays /\ UNCHANGED <<issued, indexed>> /\ UNCHANGED started
        /\ UNCHANGED route /\ UNCHANGED sock /\ UNCHANGED listing
    BY <1>3 DEF ReadCount
  <2>2. reservations' \in [Sockets -> R]
    BY <1>0, <2>1, UnlapsedHolds
  <2>3. \A t \in Sockets : reservations'[t] \in {NoHold, reservations[t]}
    BY <2>1, UnlapsedHolds
  <2>4. HoldIsGood'
    BY <1>1, <2>1, <2>3, FewerHolds
  <2>5. current_player_count(reservations') \in 0..MaxSeats
    BY CurrentTyped
  <2>6. count' \in [Sockets -> [step : {"none", "read", "publish"}, current : 0..MaxSeats, max : 0..MaxSeats]]
    BY <1>2, <2>1, <2>5, CountTyped
  <2> QED BY <1>0, <2>1, <2>2, <2>4, <2>6, QuietStep
<1>4. CASE SetListing(s)
  <2>1. /\ listing' = IF listing = Delisted THEN listing
                      ELSE [current |-> count[s].current,
                            max |-> IF count[s].max = 0 THEN listing.max ELSE count[s].max]
        /\ count' = [count EXCEPT ![s] = NoCount]
        /\ UNCHANGED arrays /\ UNCHANGED <<issued, indexed>> /\ UNCHANGED started
        /\ UNCHANGED reservations /\ UNCHANGED route /\ UNCHANGED sock
    BY <1>4 DEF SetListing, table
  <2>2. listing' \in [current : 0..MaxSeats, max : 0..MaxSeats]
    BY <1>0, <2>1
  <2>3. HoldIsGood'
    BY <2>1, FewerHolds
  <2>4. count' \in [Sockets -> [step : {"none", "read", "publish"}, current : 0..MaxSeats, max : 0..MaxSeats]]
    BY <1>2, <2>1, CountTyped
  <2> QED BY <1>0, <2>1, <2>2, <2>3, <2>4, QuietStep
<1>5. CASE \E i \in Numbers : Reserve(s, i)
  <2>0. PICK i \in Numbers : Reserve(s, i)
    BY <1>5
  <2>1. /\ first_open_seat(i)
        /\ reservations' = [Unlapsed EXCEPT ![s] = [seat |-> i, lapsed |-> FALSE]]
        /\ Recount(s)
        /\ UNCHANGED arrays /\ UNCHANGED <<issued, indexed>> /\ UNCHANGED started
        /\ UNCHANGED route /\ UNCHANGED sock /\ UNCHANGED listing
    BY <2>0 DEF Reserve
  <2>2. [seat |-> i, lapsed |-> FALSE] \in R
    OBVIOUS
  <2>3. Unlapsed \in [Sockets -> R]
    BY UnlapsedHolds
  <2>4. reservations' \in [Sockets -> R]
    BY <2>1, <2>2, <2>3
  <2>5. i \in Seats /\ Open(i) /\ \A t \in Sockets : Unlapsed[t].seat # i
    BY <2>1 DEF first_open_seat, HeldUnlapsed
  <2>6. /\ reservations'[s].seat = i /\ reservations'[s].lapsed = FALSE
        /\ \A t \in Sockets \ {s} : reservations'[t] = Unlapsed[t]
    BY <2>1, <2>3
  <2>7. \A t \in Sockets \ {s} : reservations'[t].seat # i
           /\ (reservations'[t].seat # None => reservations'[t] = reservations[t])
    BY <2>5, <2>6, UnlapsedHolds
  <2>8. Seats' = Seats /\ \A j : Open(j)' = Open(j)
    BY <2>1 DEF Seats, Open, arrays
  <2>9. HoldIsGood
    BY DEF TableInv
  <2>10. ASSUME NEW t \in Sockets, reservations'[t].seat # None
         PROVE  /\ reservations'[t].seat \in Seats
                /\ ~reservations'[t].lapsed => Open(reservations'[t].seat)
                /\ \A u \in Sockets \ {t} : reservations'[u].seat # reservations'[t].seat
    <3>1. CASE t = s
      BY <2>5, <2>6, <2>7, <3>1
    <3>2. CASE t # s
      <4>1. reservations'[t] = reservations[t] /\ reservations'[t].seat # i
        BY <2>7, <2>10, <3>2
      <4>2. \A u \in Sockets \ {t} : reservations'[u].seat # reservations'[t].seat
        BY <2>6, <2>7, <2>9, <2>10, <4>1 DEF HoldIsGood
      <4> QED BY <2>9, <2>10, <4>1, <4>2 DEF HoldIsGood
    <3> QED BY <3>1, <3>2
  <2>11. HoldIsGood'
    BY <2>8, <2>10 DEF HoldIsGood, Open
  <2>12. count' \in [Sockets -> [step : {"none", "read", "publish"}, current : 0..MaxSeats, max : 0..MaxSeats]]
    BY <1>2, <2>1, CountTyped
  <2> QED BY <1>0, <2>1, <2>4, <2>11, <2>12, QuietStep
<1>6. CASE Release(s)
  <2>1. /\ reservations' = [reservations EXCEPT ![s] = NoHold]
        /\ Recount(s)
        /\ UNCHANGED arrays /\ UNCHANGED <<issued, indexed>> /\ UNCHANGED started
        /\ UNCHANGED route /\ UNCHANGED sock /\ UNCHANGED listing
    BY <1>6 DEF Release
  <2>2. reservations' \in [Sockets -> R] /\ \A t \in Sockets : reservations'[t] \in {NoHold, reservations[t]}
    BY <1>0, <1>1, <2>1
  <2>3. HoldIsGood'
    BY <1>1, <2>1, <2>2, FewerHolds
  <2>4. count' \in [Sockets -> [step : {"none", "read", "publish"}, current : 0..MaxSeats, max : 0..MaxSeats]]
    BY <1>2, <2>1, CountTyped
  <2> QED BY <1>0, <2>1, <2>2, <2>3, <2>4, QuietStep
<1>7. CASE Lapse(s)
  <2>1. /\ reservations' = [reservations EXCEPT ![s].lapsed = TRUE]
        /\ UNCHANGED arrays /\ UNCHANGED <<issued, indexed>> /\ UNCHANGED started
        /\ UNCHANGED route /\ UNCHANGED sock /\ UNCHANGED count /\ UNCHANGED listing
    BY <1>7 DEF Lapse
  <2>2. reservations' \in [Sockets -> R]
    BY <1>0, <2>1
  <2>3. \A t \in Sockets : /\ reservations'[t].seat = reservations[t].seat
                           /\ reservations'[t].lapsed = TRUE \/ reservations'[t] = reservations[t]
    BY <1>0, <2>1
  <2>4. HoldIsGood'
    BY <2>1, <2>3, FewerHolds
  <2> QED BY <1>0, <2>1, <2>2, <2>4, QuietStep
<1>8. CASE Refused(s)
  <2>1. /\ reservations' = Unlapsed
        /\ UNCHANGED arrays /\ UNCHANGED <<issued, indexed>> /\ UNCHANGED started
        /\ UNCHANGED route /\ UNCHANGED sock /\ UNCHANGED count /\ UNCHANGED listing
    BY <1>8 DEF Refused
  <2>2. reservations' \in [Sockets -> R] /\ \A t \in Sockets : reservations'[t] \in {NoHold, reservations[t]}
    BY <2>1, UnlapsedHolds
  <2>3. HoldIsGood'
    BY <1>1, <2>1, <2>2, FewerHolds
  <2> QED BY <1>0, <2>1, <2>2, <2>3, QuietStep
<1> QED BY <1>3, <1>4, <1>5, <1>6, <1>7, <1>8

\* The seat a join is given is open, and reserved for nobody else.
LEMMA JoinSeat ==
    ASSUME TableInv, NEW s \in Sockets, NEW p, NEW i \in Numbers, NEW start,
           Join(s, p, i, start)
    PROVE  /\ i \in Seats /\ Open(i) /\ i # 0
           /\ \A t \in Sockets \ {s} : Unlapsed[t].seat # i
<1>1. None \notin Numbers /\ NoHold.seat = None
  <2>1. TTypeOK
    BY DEF TableInv
  <2> QED BY <2>1, SeatNumbers DEF NoHold
<1>2. Open(0) = FALSE
  BY TableConstants DEF TableInv, Tidy, Open
<1>3. CASE reservations[s] = NoHold
  <2>1. first_open_seat(i)
    BY <1>3 DEF Join
  <2> QED BY <1>2, <2>1 DEF first_open_seat, HeldUnlapsed
<1>4. CASE reservations[s] # NoHold
  <2>1. Unlapsed[s].seat = i
    BY <1>4 DEF Join
  <2>2. Unlapsed[s] = reservations[s] /\ reservations[s].lapsed = FALSE /\ reservations[s].seat = i
    BY <1>1, <2>1, UnlapsedHolds
  <2>3. i \in Seats /\ Open(i) /\ \A t \in Sockets \ {s} : reservations[t].seat # i
    BY <1>1, <2>2 DEF TableInv, HoldIsGood
  <2>4. \A t \in Sockets \ {s} : Unlapsed[t].seat # i
    BY <1>1, <2>3, UnlapsedHolds
  <2> QED BY <1>2, <2>3, <2>4
<1> QED BY <1>3, <1>4

\* join_with_reservation keeps the table in order.
LEMMA JoinStep ==
    ASSUME TableInv, NEW s \in Sockets, NEW p \in Guests, NEW i \in Numbers, NEW start \in BOOLEAN,
           Join(s, p, i, start)
    PROVE  TableInv'
<1>1. /\ i \in Seats /\ Open(i) /\ i # 0
      /\ \A t \in Sockets \ {s} : Unlapsed[t].seat # i
  BY JoinSeat
<1>2. /\ p \notin issued
      /\ reservations' = [Unlapsed EXCEPT ![s] = NoHold]
      /\ tokens' = [tokens EXCEPT ![i] = p]
      /\ connected' = [connected EXCEPT ![i] = TRUE]
      /\ decks' = [decks EXCEPT ![i] = p]
      /\ deck_choices' = [deck_choices EXCEPT ![i] = p]
      /\ started' = start
      /\ issued' = issued \cup {p} /\ indexed' = indexed \cup {p}
      /\ route' = [route EXCEPT ![i] = s]
      /\ sock' = [sock EXCEPT ![s] = [seat |-> i, token |-> p]]
      /\ player_count' = player_count /\ ai_seats' = ai_seats /\ chair' = chair
  BY DEF Join
<1>3. Seats' = Seats
  BY <1>2 DEF Seats
<1>4. /\ tokens \in [Seats -> Players \cup {NoToken}] /\ connected \in [Seats -> BOOLEAN]
      /\ decks \in [Seats -> Players \cup BotDecks \cup {NoDeck}]
      /\ deck_choices \in [Seats -> Players \cup Choices \cup {NoDeck}]
      /\ ai_seats \subseteq Seats \ {0} /\ issued \subseteq Players
      /\ indexed = {tokens[j] : j \in Seats} \ {NoToken} /\ indexed \subseteq issued
      /\ route \in [Numbers -> Sockets \cup {NoSocket}]
      /\ sock \in [Sockets -> [seat : Numbers \cup {None}, token : Players \cup {NoToken}]]
      /\ chair \in [Seats -> Numbers] /\ player_count \in MinPlayers..MaxSeats
      /\ listing \in [current : 0..MaxSeats, max : 0..MaxSeats]
      /\ count \in [Sockets -> [step : {"none", "read", "publish"}, current : 0..MaxSeats, max : 0..MaxSeats]]
  BY DEF TableInv, TTypeOK
<1>5. p \in Players /\ p # NoToken
  BY TableConstants DEF Players
<1>6. tokens[i] = NoToken /\ i \notin ai_seats /\ \A j \in Seats : tokens[j] # p
  BY <1>1, <1>2, <1>4, <1>5 DEF Open
<1>7. /\ tokens'[i] = p /\ connected'[i] = TRUE /\ decks'[i] = p /\ deck_choices'[i] = p
      /\ \A j \in Seats \ {i} : /\ tokens'[j] = tokens[j] /\ connected'[j] = connected[j]
                                /\ decks'[j] = decks[j] /\ deck_choices'[j] = deck_choices[j]
  BY <1>1, <1>2, <1>4
<1>8. TTypeOK'
  <2>1. indexed' = {tokens'[j] : j \in Seats} \ {NoToken}
    BY <1>1, <1>2, <1>4, <1>5, <1>6, <1>7
  <2>2. indexed' \subseteq issued' /\ issued' \subseteq Players
    BY <1>2, <1>4, <1>5
  <2>3. reservations' \in [Sockets -> [seat : Numbers \cup {None}, lapsed : BOOLEAN]]
    <3>1. NoHold \in [seat : Numbers \cup {None}, lapsed : BOOLEAN]
      BY DEF NoHold
    <3> QED BY <1>2, <3>1, UnlapsedHolds
  <2>4. sock' \in [Sockets -> [seat : Numbers \cup {None}, token : Players \cup {NoToken}]]
    <3>1. [seat |-> i, token |-> p] \in [seat : Numbers \cup {None}, token : Players \cup {NoToken}]
      BY <1>5
    <3> QED BY <1>2, <1>4, <3>1
  <2>5. /\ count' \in [Sockets -> [step : {"none", "read", "publish"}, current : 0..MaxSeats, max : 0..MaxSeats]]
        /\ listing' \in [current : 0..MaxSeats, max : 0..MaxSeats]
    <3>0. 0 \in 0..MaxSeats
      BY TableConstants
    <3>1. CASE start
      <4>1. listing' = Delisted /\ count' = count
        BY <3>1 DEF Join
      <4> QED BY <1>4, <3>0, <4>1 DEF Delisted
    <3>2. CASE ~start
      <4> DEFINE S == {j \in Seats : ~Open(j) \/ j = i \/ HeldUnlapsed(j)}
      <4>1. Publish(s, Cardinality(S), 0) /\ listing' = listing
        BY <3>2 DEF Join
      <4>2. S \in SUBSET Seats
        OBVIOUS
      <4> HIDE DEF S
      <4>3. Cardinality(S) \in 0..MaxSeats
        BY <4>2, SeatsCounted
      <4> QED BY <1>4, <3>0, <4>1, <4>3, CountTyped
    <3> QED BY <3>1, <3>2
  <2>6. /\ tokens' \in [Seats -> Players \cup {NoToken}] /\ connected' \in [Seats -> BOOLEAN]
        /\ decks' \in [Seats -> Players \cup BotDecks \cup {NoDeck}]
        /\ deck_choices' \in [Seats -> Players \cup Choices \cup {NoDeck}]
        /\ route' \in [Numbers -> Sockets \cup {NoSocket}]
    BY <1>1, <1>2, <1>4, <1>5
  <2> QED BY <1>2, <1>3, <1>4, <2>1, <2>2, <2>3, <2>4, <2>5, <2>6 DEF TTypeOK
<1>9. DecksPaired'
  BY <1>2, <1>3, <1>5, <1>6, <1>7 DEF TableInv, DecksPaired
<1>10. HoldIsGood'
  <2>1. Unlapsed \in [Sockets -> [seat : Numbers \cup {None}, lapsed : BOOLEAN]]
    BY UnlapsedHolds
  <2>2. /\ reservations'[s].seat = None
        /\ \A t \in Sockets \ {s} : reservations'[t] = Unlapsed[t]
    BY <1>2, <2>1 DEF NoHold
  <2>3. ASSUME NEW t \in Sockets, reservations'[t].seat # None
        PROVE  t # s /\ reservations'[t] = reservations[t] /\ reservations[t].seat # i
    BY <1>1, <2>2, <2>3, UnlapsedHolds
  <2>4. \A j \in Seats \ {i} : Open(j) => Open(j)'
    BY <1>2, <1>7 DEF Open
  <2> QED BY <1>3, <2>3, <2>4 DEF TableInv, HoldIsGood, Open
<1>11. Tidy'
  <2>1. \A j \in ai_seats' : tokens'[j] = NoToken /\ connected'[j] = TRUE
    BY <1>2, <1>4, <1>6, <1>7 DEF TableInv, Tidy
  <2>2. \A j \in Seats' : Open(j)' => connected'[j] = FALSE
    BY <1>2, <1>3, <1>5, <1>7 DEF TableInv, Tidy, Open
  <2>3. \A j, k \in Seats' : tokens'[j] = tokens'[k] /\ tokens'[j] # NoToken => j = k
    BY <1>3, <1>6, <1>7 DEF TableInv, Tidy
  <2>4. tokens'[0] = Host
    <3>1. 0 \in Seats
      <4>1. TTypeOK
        BY DEF TableInv
      <4> QED BY <4>1, SeatNumbers
    <3> QED BY <1>1, <1>7, <3>1 DEF TableInv, Tidy
  <2> QED BY <1>2, <1>3, <2>1, <2>2, <2>3, <2>4 DEF TableInv, Tidy
<1> QED BY <1>8, <1>9, <1>10, <1>11 DEF TableInv

\* Sockets close and players return: only presence and routes change.
LEMMA PresenceSteps ==
    ASSUME TableInv, NEW s \in Sockets,
           Depart(s) \/ \E p \in Players, i \in Numbers : Return(s, p, i)
    PROVE  TableInv'
<1>1. \E i \in Seats, b \in BOOLEAN :
        /\ tokens[i] # NoToken
        /\ connected' \in {connected, [connected EXCEPT ![i] = b]}
        /\ route' \in {route, [route EXCEPT ![i] = NoSocket], [route EXCEPT ![i] = s]}
  <2>0. 0 \in Seats /\ tokens[0] # NoToken
    <3>1. TTypeOK
      BY DEF TableInv
    <3> QED BY <3>1, SeatNumbers, TableConstants DEF TableInv, Tidy
  <2>1. CASE Depart(s)
    <3>1. CASE Current(s)
      <4>1. sock[s].seat \in Seats /\ tokens[sock[s].seat] # NoToken
        BY <3>1 DEF Current, player_for_token
      <4>2. /\ route' = [route EXCEPT ![sock[s].seat] = NoSocket]
            /\ connected' = [connected EXCEPT ![sock[s].seat] = FALSE]
        BY <2>1, <3>1 DEF Depart
      <4> QED BY <4>1, <4>2
    <3>2. CASE ~Current(s)
      <4>1. route' = route /\ connected' = connected
        BY <2>1, <3>2 DEF Depart
      <4> QED BY <2>0, <4>1
    <3> QED BY <3>1, <3>2
  <2>2. CASE \E p \in Players, i \in Numbers : Return(s, p, i)
    <3>1. PICK p \in Players, i \in Numbers : Return(s, p, i)
      BY <2>2
    <3>2. i \in Seats /\ tokens[i] # NoToken
      BY <3>1 DEF Return, player_for_token
    <3>3. connected' = [connected EXCEPT ![i] = TRUE] /\ route' = [route EXCEPT ![i] = s]
      BY <3>1 DEF Return
    <3> QED BY <3>2, <3>3
  <2> QED BY <2>1, <2>2
<1>2. PICK i \in Seats, b \in BOOLEAN :
        /\ tokens[i] # NoToken
        /\ connected' \in {connected, [connected EXCEPT ![i] = b]}
        /\ route' \in {route, [route EXCEPT ![i] = NoSocket], [route EXCEPT ![i] = s]}
  BY <1>1
<1>3. /\ UNCHANGED <<player_count, tokens, decks, deck_choices, ai_seats, chair>>
      /\ UNCHANGED <<reservations, started, issued, indexed, count, listing>>
  BY DEF Depart, Return
<1>4. Seats' = Seats
  BY <1>3 DEF Seats
<1>5. /\ connected' \in [Seats -> BOOLEAN]
      /\ \A j \in Seats \ {i} : connected'[j] = connected[j]
  <2>1. connected \in [Seats -> BOOLEAN]
    BY DEF TableInv, TTypeOK
  <2> QED BY <1>2, <2>1
<1>6. route' \in [Numbers -> Sockets \cup {NoSocket}]
  <2>1. route \in [Numbers -> Sockets \cup {NoSocket}]
    BY DEF TableInv, TTypeOK
  <2> QED BY <1>2, <2>1
<1>7. sock' \in [Sockets -> [seat : Numbers \cup {None}, token : Players \cup {NoToken}]]
  <2> DEFINE A == [seat : Numbers \cup {None}, token : Players \cup {NoToken}]
  <2>1. sock \in [Sockets -> A] /\ Away \in A
    BY DEF TableInv, TTypeOK, Away
  <2>2. \A p \in Players, j \in Numbers : [seat |-> j, token |-> p] \in A
    OBVIOUS
  <2> HIDE DEF A
  <2>3. \E a \in A : sock' = [sock EXCEPT ![s] = a]
    BY <2>1, <2>2 DEF Depart, Return
  <2>4. sock' \in [Sockets -> A]
    BY <2>1, <2>3
  <2> QED BY <2>4 DEF A
<1>8. TTypeOK'
  BY <1>3, <1>4, <1>5, <1>6, <1>7 DEF TableInv, TTypeOK
<1>9. DecksPaired' /\ HoldIsGood'
  BY <1>3, <1>4 DEF TableInv, DecksPaired, HoldIsGood, Open
<1>10. Tidy'
  <2>1. i \notin ai_seats
    BY <1>2 DEF TableInv, Tidy
  <2>2. \A j \in ai_seats' : tokens'[j] = NoToken /\ connected'[j] = TRUE
    BY <1>3, <1>5, <2>1 DEF TableInv, Tidy, TTypeOK
  <2>3. \A j \in Seats' : Open(j)' => connected'[j] = FALSE
    BY <1>2, <1>3, <1>4, <1>5 DEF TableInv, Tidy, Open
  <2> QED BY <1>3, <1>4, <2>2, <2>3 DEF TableInv, Tidy
<1> QED BY <1>8, <1>9, <1>10 DEF TableInv

\* What every seat mutation does beside the arrays: the count to publish, and
\* the routes of the players it kicked.
LEMMA MutateBooks ==
    ASSUME TableInv, NEW s \in Sockets, NEW d, Mutate(s, d), DOMAIN d.kinds \subseteq Seats
    PROVE  /\ ApplyDelta(d)
           /\ count' \in [Sockets -> [step : {"none", "read", "publish"}, current : 0..MaxSeats, max : 0..MaxSeats]]
           /\ route' \in [Numbers -> Sockets \cup {NoSocket}]
           /\ d.invalidated = {} => route' = route /\ indexed' = indexed
           /\ indexed' = indexed \ d.invalidated
           /\ started' = started /\ issued' = issued /\ sock' = sock /\ listing' = listing
<1> DEFINE S == {j \in DOMAIN d.kinds :
                   tokens'[j] # NoToken \/ j \in ai_seats' \/ \E t \in Sockets : reservations'[t].seat = j}
           kicked == {i \in Seats : tokens[i] \in d.invalidated}
<1>1. /\ ApplyDelta(d) /\ indexed' = indexed \ d.invalidated /\ route' = Unroute(kicked)
      /\ Publish(s, Cardinality(S), Cardinality(DOMAIN d.kinds))
      /\ started' = started /\ issued' = issued /\ sock' = sock /\ listing' = listing
  BY DEF Mutate, Unindex
<1>2. S \in SUBSET Seats /\ DOMAIN d.kinds \in SUBSET Seats
  OBVIOUS
<1>3. route \in [Numbers -> Sockets \cup {NoSocket}]
  BY DEF TableInv, TTypeOK
<1>4. d.invalidated = {} => kicked = {}
  OBVIOUS
<1> HIDE DEF S, kicked
<1>5. Cardinality(S) \in 0..MaxSeats
  BY <1>2, SeatsCounted
<1>6. Cardinality(DOMAIN d.kinds) \in 0..MaxSeats
  BY <1>2, SeatsCounted
<1>7. count' \in [Sockets -> [step : {"none", "read", "publish"}, current : 0..MaxSeats, max : 0..MaxSeats]]
  BY <1>1, <1>5, <1>6, CountTyped
<1>8. route' \in [Numbers -> Sockets \cup {NoSocket}]
  BY <1>1, <1>3 DEF Unroute
<1>9. kicked = {} => route' = route
  BY <1>1, <1>3 DEF Unroute
<1> QED BY <1>1, <1>4, <1>7, <1>8, <1>9

\* A request that was overtaken changes no seat.
LEMMA StaleStep ==
    ASSUME TableInv, NEW s \in Sockets, SetKindStale(s) \/ Start(s)
    PROVE  TableInv' /\ UNCHANGED arrays
<1>0. /\ NoChange.invalidated = {} /\ DOMAIN NoChange.kinds = Seats
  BY DEF NoChange, Delta, KindsNow
<1>1. ApplyDelta(NoChange)
  BY DEF SetKindStale, Mutate, Start
<1>2. /\ UNCHANGED arrays
      /\ \A t \in Sockets : reservations'[t] \in {NoHold, reservations[t]}
      /\ reservations' = [t \in Sockets |-> reservations'[t]]
  BY <1>1, StaleEffect
<1>3. reservations' \in [Sockets -> [seat : Numbers \cup {None}, lapsed : BOOLEAN]]
  <2>1. reservations \in [Sockets -> [seat : Numbers \cup {None}, lapsed : BOOLEAN]]
    BY DEF TableInv, TTypeOK
  <2>2. NoHold \in [seat : Numbers \cup {None}, lapsed : BOOLEAN]
    BY DEF NoHold
  <2>3. \A t \in Sockets : reservations'[t] \in [seat : Numbers \cup {None}, lapsed : BOOLEAN]
    BY <1>2, <2>1, <2>2
  <2> QED BY <1>2, <2>3
<1>4. HoldIsGood'
  <2>1. NoHold.seat = None
    BY DEF NoHold
  <2> QED BY <1>2, <2>1, FewerHolds
<1>5. CASE SetKindStale(s)
  <2>1. Mutate(s, NoChange)
    BY <1>5 DEF SetKindStale
  <2>2. /\ count' \in [Sockets -> [step : {"none", "read", "publish"}, current : 0..MaxSeats, max : 0..MaxSeats]]
        /\ route' = route /\ indexed' = indexed
        /\ started' = started /\ issued' = issued /\ sock' = sock /\ listing' = listing
    BY <1>0, <2>1, MutateBooks
  <2>3. started \in BOOLEAN /\ listing \in [current : 0..MaxSeats, max : 0..MaxSeats]
    BY DEF TableInv, TTypeOK
  <2> QED BY <1>2, <1>3, <1>4, <2>2, <2>3, QuietStep
<1>6. CASE Start(s)
  <2>1. /\ started' = TRUE /\ listing' = Delisted
        /\ issued' = issued /\ indexed' = indexed /\ route' = route /\ sock' = sock /\ count' = count
    BY <1>6 DEF Start
  <2>2. Delisted \in [current : 0..MaxSeats, max : 0..MaxSeats]
    BY TableConstants DEF Delisted
  <2>3. count \in [Sockets -> [step : {"none", "read", "publish"}, current : 0..MaxSeats, max : 0..MaxSeats]]
    BY DEF TableInv, TTypeOK
  <2> QED BY <1>2, <1>3, <1>4, <2>1, <2>2, <2>3, QuietStep
<1> QED BY <1>5, <1>6

\* The host sets the kind of a seat.
LEMMA SetKindStep ==
    ASSUME TableInv, NEW s \in Sockets, NEW i \in Numbers, NEW kind \in Choices \cup {"WaitingHuman"},
           NEW deck \in BotDecks \cup {NoDeck}, SetKind(s, i, kind, deck)
    PROVE  TableInv'
<1> DEFINE d == apply_set_kind(i, kind, deck)
<1>1. /\ i \in Seats \ {0}
      /\ (kind = "WaitingHuman" /\ deck = NoDeck) \/ (kind \in Choices /\ Roster!Fits(deck, kind))
      /\ Mutate(s, d)
  BY DEF SetKind, Choices, Roster!Fits
<1>2. /\ DOMAIN d.kinds = Seats
      /\ d.invalidated = IF SeatKindOf(i) = "JoinedHuman" THEN {tokens[i]} ELSE {}
  BY DEF apply_set_kind, Delta, KindsNow
<1> HIDE DEF d
<1>3. /\ ApplyDelta(d)
      /\ count' \in [Sockets -> [step : {"none", "read", "publish"}, current : 0..MaxSeats, max : 0..MaxSeats]]
      /\ route' \in [Numbers -> Sockets \cup {NoSocket}]
      /\ indexed' = indexed \ d.invalidated
      /\ started' = started /\ issued' = issued /\ sock' = sock /\ listing' = listing
  BY <1>1, <1>2, MutateBooks
<1>4. /\ player_count' = player_count /\ chair' = chair
      /\ tokens' = [tokens EXCEPT ![i] = NoToken]
      /\ connected' \in [Seats -> BOOLEAN]
      /\ \A j \in Seats \ {i} : connected'[j] = connected[j]
      /\ kind \in Choices => connected'[i] = TRUE
      /\ kind \notin Choices => connected'[i] = FALSE
      /\ decks' = [decks EXCEPT ![i] = deck]
      /\ deck_choices' = [deck_choices EXCEPT ![i] = IF kind \in Choices THEN kind ELSE NoDeck]
      /\ ai_seats' = IF kind \in Choices THEN ai_seats \cup {i} ELSE ai_seats \ {i}
      /\ reservations' = [t \in Sockets |-> reservations'[t]]
      /\ \A t \in Sockets : reservations'[t] \in {NoHold, reservations[t]}
      /\ \A t \in Sockets : reservations'[t].seat # None =>
            reservations'[t].seat # i /\ ~Open(reservations'[t].seat)
  <2>1. ApplyDelta(apply_set_kind(i, kind, deck))
    BY <1>3 DEF d
  <2> QED BY <1>1, <2>1, SetKindEffect
<1>5. Seats' = Seats
  BY <1>4 DEF Seats
<1>6. /\ tokens \in [Seats -> Players \cup {NoToken}]
      /\ decks \in [Seats -> Players \cup BotDecks \cup {NoDeck}]
      /\ deck_choices \in [Seats -> Players \cup Choices \cup {NoDeck}]
      /\ ai_seats \subseteq Seats \ {0}
      /\ indexed = {tokens[j] : j \in Seats} \ {NoToken} /\ indexed \subseteq issued
      /\ reservations \in [Sockets -> [seat : Numbers \cup {None}, lapsed : BOOLEAN]]
  BY DEF TableInv, TTypeOK
<1>7. /\ tokens'[i] = NoToken /\ decks'[i] = deck
      /\ kind \in Choices => deck_choices'[i] = kind
      /\ kind \notin Choices => deck_choices'[i] = NoDeck
      /\ \A j \in Seats \ {i} : tokens'[j] = tokens[j] /\ decks'[j] = decks[j] /\ deck_choices'[j] = deck_choices[j]
  BY <1>1, <1>4, <1>6
<1>8. kind \in Choices \/ (kind \notin Choices /\ deck = NoDeck)
  BY <1>1, TableConstants DEF Choices
<1>9. 0 \in Seats
  <2>1. TTypeOK
    BY DEF TableInv
  <2> QED BY <2>1, SeatNumbers
<1>10. TTypeOK'
  <2>1. indexed' = {tokens'[j] : j \in Seats} \ {NoToken}
    <3>1. i \in Seats /\ i # 0
      BY <1>1
    <3>2. tokens[i] # NoToken => d.invalidated = {tokens[i]}
      BY <1>2, <3>1, KindFacts
    <3>3. tokens[i] = NoToken => d.invalidated = {}
      BY <1>2, <3>1, KindFacts
    <3>4. \A j \in Seats \ {i} : tokens[j] # NoToken => tokens[j] # tokens[i]
      BY <3>1 DEF TableInv, Tidy
    <3>5. ASSUME NEW x PROVE x \in indexed' <=> x \in {tokens'[j] : j \in Seats} \ {NoToken}
      <4>1. ASSUME x \in indexed' PROVE x \in {tokens'[j] : j \in Seats} \ {NoToken}
        <5>1. x \in indexed /\ x \notin d.invalidated
          BY <1>3, <4>1
        <5>2. PICK j \in Seats : x = tokens[j] /\ x # NoToken
          BY <1>6, <5>1
        <5>3. j # i
          BY <3>2, <5>1, <5>2
        <5> QED BY <1>7, <5>2, <5>3
      <4>2. ASSUME x \in {tokens'[j] : j \in Seats} \ {NoToken} PROVE x \in indexed'
        <5>1. PICK j \in Seats : x = tokens'[j] /\ x # NoToken
          BY <4>2
        <5>2. j # i /\ x = tokens[j]
          BY <1>7, <5>1
        <5>3. x \in indexed
          BY <1>6, <5>1, <5>2
        <5>4. x \notin d.invalidated
          BY <3>2, <3>3, <3>4, <5>1, <5>2
        <5> QED BY <1>3, <5>3, <5>4
      <4> QED BY <4>1, <4>2
    <3> QED BY <3>5
  <2>2. indexed' \subseteq issued'
    BY <1>3, <1>6
  <2>3. /\ tokens' \in [Seats -> Players \cup {NoToken}]
        /\ decks' \in [Seats -> Players \cup BotDecks \cup {NoDeck}]
        /\ deck_choices' \in [Seats -> Players \cup Choices \cup {NoDeck}]
        /\ ai_seats' \subseteq Seats \ {0}
    BY <1>1, <1>4, <1>6
  <2>4. reservations' \in [Sockets -> [seat : Numbers \cup {None}, lapsed : BOOLEAN]]
    <3>1. NoHold \in [seat : Numbers \cup {None}, lapsed : BOOLEAN]
      BY DEF NoHold
    <3>2. \A t \in Sockets : reservations'[t] \in [seat : Numbers \cup {None}, lapsed : BOOLEAN]
      BY <1>4, <1>6, <3>1
    <3> QED BY <1>4, <3>2
  <2> QED BY <1>3, <1>4, <1>5, <2>1, <2>2, <2>3, <2>4 DEF TableInv, TTypeOK
<1>11. DecksPaired'
  <2> SUFFICES ASSUME NEW j \in Seats
               PROVE  IF j \in ai_seats' THEN Roster!Fits(decks'[j], deck_choices'[j])
                      ELSE LET owner == IF tokens'[j] = NoToken THEN NoDeck ELSE tokens'[j]
                           IN  decks'[j] = owner /\ deck_choices'[j] = owner
    BY <1>5 DEF DecksPaired
  <2>1. CASE j = i
    <3>1. CASE kind \in Choices
      <4>1. Roster!Fits(deck, kind)
        BY <1>1, <3>1, TableConstants DEF Choices
      <4>2. i \in ai_seats' /\ decks'[i] = deck /\ deck_choices'[i] = kind
        BY <1>4, <1>7, <3>1
      <4> QED BY <2>1, <4>1, <4>2
    <3>2. CASE kind \notin Choices
      <4>1. i \notin ai_seats' /\ decks'[i] = NoDeck /\ deck_choices'[i] = NoDeck /\ tokens'[i] = NoToken
        BY <1>4, <1>7, <1>8, <3>2
      <4> QED BY <2>1, <4>1
    <3> QED BY <3>1, <3>2
  <2>2. CASE j # i
    BY <1>4, <1>7, <2>2 DEF TableInv, DecksPaired
  <2> QED BY <2>1, <2>2
<1>12. HoldIsGood'
  <2>1. NoHold.seat = None
    BY DEF NoHold
  <2>2. ASSUME NEW t \in Sockets, reservations'[t].seat # None
        PROVE  reservations'[t] = reservations[t] /\ reservations[t].lapsed
    <3>1. reservations'[t] = reservations[t]
      BY <1>4, <2>1, <2>2
    <3> QED BY <1>4, <2>2, <3>1 DEF TableInv, HoldIsGood
  <2> QED BY <1>5, <2>2 DEF TableInv, HoldIsGood
<1>13. Tidy'
  <2>1. \A j \in ai_seats' : tokens'[j] = NoToken /\ connected'[j] = TRUE
    BY <1>4, <1>6, <1>7 DEF TableInv, Tidy
  <2>2. \A j \in Seats' : Open(j)' => connected'[j] = FALSE
    <3> SUFFICES ASSUME NEW j \in Seats, tokens'[j] = NoToken, j \notin ai_seats' PROVE connected'[j] = FALSE
      BY <1>5 DEF Open
    <3>1. CASE j = i
      BY <1>4, <3>1
    <3>2. CASE j # i
      BY <1>4, <1>7, <3>2 DEF TableInv, Tidy, Open
    <3> QED BY <3>1, <3>2
  <2>3. \A j, k \in Seats' : tokens'[j] = tokens'[k] /\ tokens'[j] # NoToken => j = k
    BY <1>5, <1>7 DEF TableInv, Tidy
  <2> QED BY <1>1, <1>4, <1>5, <1>7, <1>9, <2>1, <2>2, <2>3 DEF TableInv, Tidy
<1> QED BY <1>10, <1>11, <1>12, <1>13 DEF TableInv

\* Shift numbers the remaining seats, each once, and the first stays the first.
LEMMA ShiftOnto ==
    ASSUME TTypeOK, NEW i \in Seats \ {0}
    PROVE  LET after == 0..(player_count - 2)
           IN  /\ \A j \in after : Shift(i, j) \in Seats \ {i}
               /\ \A k \in Seats \ {i} : \E j \in after : Shift(i, j) = k
               /\ \A j, k \in after : Shift(i, j) = Shift(i, k) => j = k
               /\ 0 \in after /\ Shift(i, 0) = 0
<1> DEFINE after == 0..(player_count - 2)
<1>1. player_count \in Nat /\ player_count >= 2 /\ Seats = 0..(player_count - 1) /\ i \in 1..(player_count - 1)
  BY SeatNumbers
<1>2. \A j \in after : Shift(i, j) \in Seats \ {i}
  BY <1>1 DEF Shift
<1>3. ASSUME NEW k \in Seats \ {i} PROVE \E j \in after : Shift(i, j) = k
  <2>1. CASE k < i
    <3>1. k \in after /\ Shift(i, k) = k
      BY <1>1, <2>1 DEF Shift
    <3> QED BY <3>1
  <2>2. CASE ~(k < i)
    <3>1. k - 1 \in after /\ Shift(i, k - 1) = k
      BY <1>1, <2>2 DEF Shift
    <3> QED BY <3>1
  <2> QED BY <2>1, <2>2
<1>4. \A j, k \in after : Shift(i, j) = Shift(i, k) => j = k
  BY <1>1 DEF Shift
<1>5. 0 \in after /\ Shift(i, 0) = 0
  BY <1>1 DEF Shift
<1> QED BY <1>2, <1>3, <1>4, <1>5

\* The host removes a seat: the seats behind it are renumbered.
LEMMA RemoveStep ==
    ASSUME TableInv, NEW s \in Sockets, NEW i \in Numbers, Remove(s, i)
    PROVE  TableInv'
<1> DEFINE after == 0..(player_count - 2)
           d == apply_remove(i)
<1>1. i \in Seats \ {0} /\ RemoveAllowed(i) /\ Mutate(s, d)
  BY DEF Remove, RemoveAllowed
<1>2. TTypeOK
  BY DEF TableInv
<1>3. player_count \in Nat /\ player_count > MinPlayers /\ player_count <= MaxSeats /\ MinPlayers \in Nat
      /\ MaxSeats \in Nat /\ Seats = 0..(player_count - 1)
  BY <1>1, <1>2, SeatNumbers DEF RemoveAllowed
<1>4. DOMAIN d.kinds = after /\ d.invalidated = {} /\ after \subseteq Seats
  BY <1>3 DEF apply_remove, Delta
<1> HIDE DEF d
<1>5. /\ ApplyDelta(d)
      /\ count' \in [Sockets -> [step : {"none", "read", "publish"}, current : 0..MaxSeats, max : 0..MaxSeats]]
      /\ route' = route /\ indexed' = indexed
      /\ started' = started /\ issued' = issued /\ sock' = sock /\ listing' = listing
  BY <1>1, <1>4, MutateBooks
<1>6. /\ player_count' = player_count - 1
      /\ tokens' = [j \in after |-> tokens[Shift(i, j)]]
      /\ connected' = [j \in after |-> connected[Shift(i, j)]]
      /\ decks' = [j \in after |-> decks[Shift(i, j)]]
      /\ deck_choices' = [j \in after |-> deck_choices[Shift(i, j)]]
      /\ ai_seats' = {j \in after : Shift(i, j) \in ai_seats}
      /\ chair' = [j \in after |-> chair[Shift(i, j)]]
      /\ reservations' = [t \in Sockets |-> reservations'[t]]
      /\ \A t \in Sockets :
           \/ reservations'[t] = NoHold
           \/ /\ reservations'[t].seat \in after
              /\ reservations'[t].lapsed = reservations[t].lapsed
              /\ reservations[t].seat = Shift(i, reservations'[t].seat)
              /\ reservations'[t] = [seat |-> reservations'[t].seat, lapsed |-> reservations[t].lapsed]
              /\ ~Open(reservations[t].seat)
  <2>1. ApplyDelta(apply_remove(i))
    BY <1>5 DEF d
  <2> QED BY <1>1, <2>1, RemoveEffect
<1>7. Seats' = after
  BY <1>3, <1>6 DEF Seats
<1>8. /\ \A j \in after : Shift(i, j) \in Seats \ {i}
      /\ \A k \in Seats \ {i} : \E j \in after : Shift(i, j) = k
      /\ \A j, k \in after : Shift(i, j) = Shift(i, k) => j = k
      /\ 0 \in after /\ Shift(i, 0) = 0
  BY <1>1, <1>2, ShiftOnto
<1>9. tokens[i] = NoToken
  <2>1. i \in Seats /\ SeatKindOf(i) \in Choices \cup {"WaitingHuman"} /\ i # 0
    BY <1>1 DEF RemoveAllowed
  <2>2. SeatKindOf(i) # "JoinedHuman"
    BY <2>1, TableConstants DEF Choices
  <2> QED BY <2>1, <2>2, KindFacts
<1> HIDE DEF after
<1>10. TTypeOK'
  <2>1. player_count' \in MinPlayers..MaxSeats
    BY <1>3, <1>6
  <2>2. /\ tokens' \in [after -> Players \cup {NoToken}]
        /\ connected' \in [after -> BOOLEAN]
        /\ decks' \in [after -> Players \cup BotDecks \cup {NoDeck}]
        /\ deck_choices' \in [after -> Players \cup Choices \cup {NoDeck}]
        /\ chair' \in [after -> Numbers]
    BY <1>2, <1>6, <1>8 DEF TTypeOK
  <2>3. ai_seats' \subseteq after \ {0}
    BY <1>2, <1>6, <1>8 DEF TTypeOK
  <2>4. reservations' \in [Sockets -> [seat : Numbers \cup {None}, lapsed : BOOLEAN]]
    <3>1. NoHold \in [seat : Numbers \cup {None}, lapsed : BOOLEAN] /\ after \subseteq Numbers
      BY <1>2, <1>4, SeatNumbers DEF NoHold
    <3>2. \A t \in Sockets : reservations[t].lapsed \in BOOLEAN
      BY <1>2 DEF TTypeOK
    <3>3. \A t \in Sockets : reservations'[t] \in [seat : Numbers \cup {None}, lapsed : BOOLEAN]
      BY <1>6, <3>1, <3>2
    <3> QED BY <1>6, <3>3
  <2>5. indexed' = {tokens'[j] : j \in after} \ {NoToken}
    <3>1. indexed = {tokens[j] : j \in Seats} \ {NoToken}
      BY <1>2 DEF TTypeOK
    <3>2. \A j \in after : tokens'[j] = tokens[Shift(i, j)]
      BY <1>6
    <3> QED BY <1>5, <1>8, <1>9, <3>1, <3>2
  <2> QED BY <1>2, <1>5, <1>7, <2>1, <2>2, <2>3, <2>4, <2>5 DEF TTypeOK
<1>11. DecksPaired'
  BY <1>6, <1>7, <1>8 DEF TableInv, DecksPaired
<1>12. HoldIsGood'
  <2>1. NoHold.seat = None
    BY DEF NoHold
  <2>2. ASSUME NEW t \in Sockets, reservations'[t].seat # None
        PROVE  /\ reservations'[t].seat \in after
               /\ reservations[t].seat = Shift(i, reservations'[t].seat)
               /\ reservations[t].seat \in Seats /\ reservations[t].seat # None
               /\ reservations'[t].lapsed
    <3>1. /\ reservations'[t].seat \in after
          /\ reservations'[t].lapsed = reservations[t].lapsed
          /\ reservations[t].seat = Shift(i, reservations'[t].seat)
          /\ ~Open(reservations[t].seat)
      BY <1>6, <2>1, <2>2
    <3>2. reservations[t].seat \in Seats /\ reservations[t].seat # None
      <4>1. None \notin Seats
        BY <1>2, SeatNumbers
      <4> QED BY <1>8, <3>1, <4>1
    <3>3. reservations[t].lapsed
      BY <3>1, <3>2 DEF TableInv, HoldIsGood
    <3>4. reservations'[t].lapsed
      BY <3>1, <3>3
    <3> QED BY <3>1, <3>2, <3>4
  <2>3. \A t, u \in Sockets : t # u /\ reservations'[t].seat # None => reservations'[u].seat # reservations'[t].seat
    BY <1>8, <2>2 DEF TableInv, HoldIsGood
  <2> QED BY <1>7, <2>2, <2>3 DEF HoldIsGood
<1>13. Tidy'
  <2>1. \A j \in ai_seats' : tokens'[j] = NoToken /\ connected'[j] = TRUE
    BY <1>6 DEF TableInv, Tidy
  <2>2. \A j \in Seats' : Open(j)' => connected'[j] = FALSE
    BY <1>6, <1>7, <1>8 DEF TableInv, Tidy, Open
  <2>3. \A j, k \in Seats' : tokens'[j] = tokens'[k] /\ tokens'[j] # NoToken => j = k
    BY <1>6, <1>7, <1>8 DEF TableInv, Tidy
  <2>4. \A j, k \in Seats' : chair'[j] = chair'[k] => j = k
    BY <1>6, <1>7, <1>8 DEF TableInv, Tidy
  <2>5. chair'[0] = 0 /\ tokens'[0] = Host
    BY <1>6, <1>8 DEF TableInv, Tidy
  <2> QED BY <2>1, <2>2, <2>3, <2>4, <2>5 DEF Tidy
<1> QED BY <1>10, <1>11, <1>12, <1>13 DEF TableInv

\* A room that was just created is in order.
LEMMA TableStarts ==
    ASSUME TInit
    PROVE  TableInv
<1>1. MaxSeats \in Nat /\ MaxSeats >= 2 /\ MinPlayers \in 2..MaxSeats
  BY TableConstants
<1>2. player_count = MaxSeats /\ Seats = Numbers /\ 0 \in Numbers
  BY <1>1 DEF TInit, Seats, Numbers
<1>3. Host \in Players /\ Host # NoToken
  BY TableConstants DEF Players
<1>4. /\ \A i \in Numbers : /\ tokens[i] = IF i = 0 THEN Host ELSE NoToken
                            /\ i # 0 => connected[i] = FALSE
                            /\ decks[i] = IF i = 0 THEN Host ELSE NoDeck
                            /\ deck_choices[i] = IF i = 0 THEN Host ELSE NoDeck
                            /\ chair[i] = i
      /\ ai_seats = {} /\ issued = {Host} /\ indexed = {Host} /\ started = FALSE
      /\ reservations = [s \in Sockets |-> NoHold] /\ count = [s \in Sockets |-> NoCount]
      /\ listing = [current |-> 1, max |-> MaxSeats]
  BY DEF TInit
<1>5. TTypeOK
  <2>1. /\ tokens \in [Numbers -> Players \cup {NoToken}]
        /\ decks \in [Numbers -> Players \cup BotDecks \cup {NoDeck}]
        /\ deck_choices \in [Numbers -> Players \cup Choices \cup {NoDeck}]
        /\ chair \in [Numbers -> Numbers]
    BY <1>3 DEF TInit
  <2>2. connected \in [Numbers -> BOOLEAN]
    BY DEF TInit
  <2>3. reservations \in [Sockets -> [seat : Numbers \cup {None}, lapsed : BOOLEAN]]
    BY <1>4 DEF NoHold
  <2>4. count \in [Sockets -> [step : {"none", "read", "publish"}, current : 0..MaxSeats, max : 0..MaxSeats]]
    BY <1>1, <1>4 DEF NoCount
  <2>5. listing \in [current : 0..MaxSeats, max : 0..MaxSeats]
    BY <1>1, <1>4
  <2>6. indexed = {tokens[i] : i \in Numbers} \ {NoToken}
    BY <1>2, <1>3, <1>4
  <2>7. /\ route \in [Numbers -> Sockets \cup {NoSocket}]
        /\ sock \in [Sockets -> [seat : Numbers \cup {None}, token : Players \cup {NoToken}]]
    <3>1. PICK s \in Sockets :
            /\ route = [i \in Numbers |-> IF i = 0 THEN s ELSE NoSocket]
            /\ sock = [t \in Sockets |-> IF t = s THEN [seat |-> 0, token |-> Host] ELSE Away]
      BY DEF TInit
    <3> DEFINE A == [seat : Numbers \cup {None}, token : Players \cup {NoToken}]
    <3>2. [seat |-> 0, token |-> Host] \in A /\ Away \in A
      BY <1>2, <1>3 DEF Away
    <3> HIDE DEF A
    <3>3. sock \in [Sockets -> A]
      BY <3>1, <3>2
    <3> QED BY <3>1, <3>3 DEF A
  <2>8. /\ player_count \in MinPlayers..MaxSeats /\ started \in BOOLEAN
        /\ ai_seats \subseteq Numbers \ {0}
        /\ issued \subseteq Players /\ indexed \subseteq issued
    <3>1. ai_seats \subseteq Numbers \ {0} /\ issued \subseteq Players /\ indexed \subseteq issued
      BY <1>3, <1>4
    <3>2. started \in BOOLEAN
      BY <1>4
    <3>3. player_count \in MinPlayers..MaxSeats
      BY <1>1, <1>2
    <3> QED BY <3>1, <3>2, <3>3
  <2> QED BY <1>2, <2>1, <2>2, <2>3, <2>4, <2>5, <2>6, <2>7, <2>8 DEF TTypeOK
<1>6. DecksPaired
  BY <1>2, <1>3, <1>4 DEF DecksPaired
<1>7. HoldIsGood
  BY <1>4 DEF HoldIsGood, NoHold
<1>8. Tidy
  BY <1>2, <1>3, <1>4 DEF Tidy, Open
<1> QED BY <1>5, <1>6, <1>7, <1>8 DEF TableInv

\* Every step keeps the table in order.
LEMMA TableSteps ==
    ASSUME TableInv, TNext
    PROVE  TableInv'
<1>1. PICK s \in Sockets :
        \/ ReadCount(s) \/ SetListing(s)
        \/ \E i \in Numbers : Reserve(s, i)
        \/ Release(s) \/ Lapse(s) \/ Refused(s)
        \/ \E p \in Guests, i \in Numbers, start \in BOOLEAN : Join(s, p, i, start)
        \/ Depart(s)
        \/ \E p \in Players, i \in Numbers : Return(s, p, i)
        \/ \E i \in Numbers, kind \in Choices \cup {"WaitingHuman"}, deck \in BotDecks \cup {NoDeck} :
              SetKind(s, i, kind, deck)
        \/ SetKindStale(s)
        \/ \E i \in Numbers : Remove(s, i)
        \/ Start(s)
  BY DEF TNext
<1>2. CASE ReadCount(s) \/ SetListing(s) \/ (\E i \in Numbers : Reserve(s, i)) \/ Release(s) \/ Lapse(s) \/ Refused(s)
  BY <1>2, ReservationSteps
<1>3. CASE \E p \in Guests, i \in Numbers, start \in BOOLEAN : Join(s, p, i, start)
  BY <1>3, JoinStep
<1>4. CASE Depart(s) \/ \E p \in Players, i \in Numbers : Return(s, p, i)
  BY <1>4, PresenceSteps
<1>5. CASE \E i \in Numbers, kind \in Choices \cup {"WaitingHuman"}, deck \in BotDecks \cup {NoDeck} :
              SetKind(s, i, kind, deck)
  BY <1>5, SetKindStep
<1>6. CASE SetKindStale(s) \/ Start(s)
  BY <1>6, StaleStep
<1>7. CASE \E i \in Numbers : Remove(s, i)
  BY <1>7, RemoveStep
<1> QED BY <1>1, <1>2, <1>3, <1>4, <1>5, <1>6, <1>7

\* A step that changes nothing keeps the table in order.
LEMMA TableStutters ==
    ASSUME TableInv, UNCHANGED tvars
    PROVE  TableInv'
<1>1. /\ UNCHANGED arrays /\ UNCHANGED <<issued, indexed>> /\ started' = started
      /\ reservations' = reservations /\ route' = route /\ sock' = sock
      /\ count' = count /\ listing' = listing
  BY DEF tvars, table
<1>2. HoldIsGood'
  BY <1>1, FewerHolds
<1>3. /\ started \in BOOLEAN
      /\ reservations \in [Sockets -> [seat : Numbers \cup {None}, lapsed : BOOLEAN]]
      /\ count \in [Sockets -> [step : {"none", "read", "publish"}, current : 0..MaxSeats, max : 0..MaxSeats]]
      /\ listing \in [current : 0..MaxSeats, max : 0..MaxSeats]
  BY DEF TableInv, TTypeOK
<1> QED BY <1>1, <1>2, <1>3, QuietStep

\* The inductive invariant of the table.
THEOREM TableInOrder == TSpec => []TableInv
<1>1. TInit => TableInv
  BY TableStarts
<1>2. TableInv /\ [TNext]_tvars => TableInv'
  BY TableSteps, TableStutters
<1> QED BY <1>1, <1>2, PTL DEF TSpec

\* Every array has an entry for every seat and for no other, whatever was
\* removed, and the registry resolves exactly the tokens that hold a seat.
THEOREM TableTypes == TSpec => []TTypeOK
<1>1. TableInv => TTypeOK
  BY DEF TableInv
<1> QED BY <1>1, TableInOrder, PTL

\* Decks and choices stay with the seats they belong to through every
\* apply_seat_delta.
THEOREM DecksStayPaired == TSpec => []DecksPaired
<1>1. TableInv => DecksPaired
  BY DEF TableInv
<1> QED BY <1>1, TableInOrder, PTL

\* No join, seat mutation or removal takes the seat of a reservation that has
\* not lapsed.
THEOREM HoldsAreGood == TSpec => []HoldIsGood
<1>1. TableInv => HoldIsGood
  BY DEF TableInv
<1> QED BY <1>1, TableInOrder, PTL

-----------------------------------------------------------------------------
(* The arrays implement the roster of chairs. *)

\* What the arrays say of a seat.
Row(i) == [who |-> IF i \in ai_seats THEN Bot ELSE tokens[i], deck |-> decks[i],
           choice |-> deck_choices[i], online |-> connected[i]]

\* The chairs of the refinement mapping.
Placing == [c \in {chair[i] : i \in Seats} |->
              LET i == CHOOSE j \in Seats : chair[j] = c
              IN  [who |-> IF i \in ai_seats THEN Bot ELSE tokens[i], deck |-> decks[i],
                   choice |-> deck_choices[i], online |-> connected[i]]]

\* A chair shows what the arrays say of its number, now and after a step.
LEMMA PlacingNow ==
    ASSUME TableInv
    PROVE  /\ DOMAIN Placing = {chair[i] : i \in Seats}
           /\ Placing = [c \in DOMAIN Placing |-> Placing[c]]
           /\ \A i \in Seats : Placing[chair[i]] = Row(i)
<1>1. \A i \in Seats : (CHOOSE j \in Seats : chair[j] = chair[i]) = i
  BY DEF TableInv, Tidy
<1>2. Placing = [c \in {chair[i] : i \in Seats} |-> Row(CHOOSE j \in Seats : chair[j] = c)]
  BY Zenon DEF Placing, Row
<1> QED BY <1>1, <1>2

LEMMA PlacingNext ==
    ASSUME TableInv'
    PROVE  /\ DOMAIN Placing' = {chair'[i] : i \in Seats'}
           /\ Placing' = [c \in DOMAIN Placing' |-> Placing'[c]]
           /\ \A i \in Seats' : Placing'[chair'[i]] = Row(i)'
<1>1. \A i \in Seats' : (CHOOSE j \in Seats' : chair'[j] = chair'[i]) = i
  BY DEF TableInv, Tidy
<1> DEFINE row(i) == [who |-> IF i \in ai_seats' THEN Bot ELSE tokens'[i], deck |-> decks'[i],
                      choice |-> deck_choices'[i], online |-> connected'[i]]
<1>2. Placing' = [c \in {chair'[i] : i \in Seats'} |-> row(CHOOSE j \in Seats' : chair'[j] = c)]
  BY Zenon DEF Placing
<1>3. \A i : row(i) = Row(i)'
  BY DEF Row
<1> HIDE DEF row
<1> QED BY <1>1, <1>2, <1>3

\* A step that rewrites the entries of one seat changes one chair.
LEMMA OneChair ==
    ASSUME TableInv, TableInv', chair' = chair, player_count' = player_count,
           NEW i \in Seats, \A j \in Seats \ {i} : Row(j)' = Row(j)
    PROVE  /\ Placing' = [Placing EXCEPT ![chair[i]] = Row(i)']
           /\ chair[i] \in DOMAIN Placing /\ Placing[chair[i]] = Row(i)
<1>1. Seats' = Seats
  BY DEF Seats
<1>2. /\ DOMAIN Placing = {chair[j] : j \in Seats} /\ DOMAIN Placing' = {chair[j] : j \in Seats}
      /\ Placing = [c \in DOMAIN Placing |-> Placing[c]] /\ Placing' = [c \in DOMAIN Placing' |-> Placing'[c]]
      /\ \A j \in Seats : Placing[chair[j]] = Row(j) /\ Placing'[chair[j]] = Row(j)'
  BY <1>1, PlacingNow, PlacingNext
<1>3. \A j \in Seats \ {i} : Placing'[chair[j]] = Placing[chair[j]] /\ chair[j] # chair[i]
  BY <1>2 DEF TableInv, Tidy
<1>4. \A c \in DOMAIN Placing : c # chair[i] => Placing'[c] = Placing[c]
  BY <1>2, <1>3
<1>5. Placing'[chair[i]] = Row(i)' /\ chair[i] \in DOMAIN Placing
  BY <1>2
<1>6. DOMAIN Placing' = DOMAIN Placing
  BY <1>2
<1> QED BY <1>2, <1>4, <1>5, <1>6

\* The steps of the roster on the mapped chairs: somebody sits down, perhaps as
\* the last one.
LEMMA SitIs ==
    ASSUME NEW c \in DOMAIN Placing, NEW p \in Players, ~started,
           Placing[c].who = NoToken, \A d \in DOMAIN Placing : Placing[d].who # p,
           Placing' = [Placing EXCEPT ![c] = [who |-> p, deck |-> p, choice |-> p, online |-> TRUE]],
           \/ started' = FALSE
           \/ /\ started' = TRUE
              /\ \A d \in DOMAIN Placing : Placing'[d].who # NoToken /\ Placing'[d].deck # NoDeck
    PROVE  Roster!RosterNext
<1>1. c \in Roster!Table
  BY Zenon DEF Roster!Table, Placing
<1>2. Roster!Sit(c, p)
  BY Zenon DEF Roster!Sit, Roster!Table, Roster!Seat, Placing
<1>3. started' = FALSE \/ Roster!Begin
  BY Zenon DEF Roster!Begin, Roster!Table, Placing
<1> QED BY <1>1, <1>2, <1>3 DEF Roster!RosterNext

\* The host empties a chair.
LEMMA ClearIs ==
    ASSUME NEW c \in DOMAIN Placing, ~started, started' = FALSE, c # 0,
           Placing' = [Placing EXCEPT ![c] =
                         [who |-> NoToken, deck |-> NoDeck, choice |-> NoDeck, online |-> FALSE]]
    PROVE  Roster!RosterNext
<1>1. c \in Roster!Table
  BY Zenon DEF Roster!Table, Placing
<1>2. Roster!Clear(c)
  BY Zenon DEF Roster!Clear, Roster!Empty, Roster!Seat, Placing
<1> QED BY <1>1, <1>2 DEF Roster!RosterNext

\* An AI player is put on a chair.
LEMMA StaffIs ==
    ASSUME NEW c \in DOMAIN Placing, ~started, started' = FALSE, c # 0,
           NEW deck \in BotDecks, NEW choice \in BotDecks \cup {Random}, Roster!Fits(deck, choice),
           Placing' = [Placing EXCEPT ![c] = [who |-> Bot, deck |-> deck, choice |-> choice, online |-> TRUE]]
    PROVE  Roster!RosterNext
<1>1. c \in Roster!Table
  BY Zenon DEF Roster!Table, Placing
<1>2. Roster!Staff(c, deck, choice)
  BY Zenon DEF Roster!Staff, Roster!Seat, Placing
<1> QED BY <1>1, <1>2 DEF Roster!RosterNext

\* A chair is taken away.
LEMMA TakeAwayIs ==
    ASSUME NEW c \in DOMAIN Placing, ~started, started' = FALSE, c # 0,
           ~(Placing[c].who \in Players), Cardinality(DOMAIN Placing) > MinPlayers,
           Placing' = [d \in DOMAIN Placing \ {c} |-> Placing[d]]
    PROVE  Roster!RosterNext
<1>1. c \in Roster!Table
  BY Zenon DEF Roster!Table, Placing
<1>2. \A S : Roster!Cardinality(S) = Cardinality(S)
  BY Zenon DEF Roster!Cardinality, Cardinality
<1>3. Roster!TakeAway(c)
  BY <1>2, Zenon DEF Roster!TakeAway, Roster!Table, Roster!Taken, Placing
<1> QED BY <1>1, <1>3 DEF Roster!RosterNext

\* A player comes or goes.
LEMMA AttendIs ==
    ASSUME NEW c \in DOMAIN Placing, NEW online \in BOOLEAN, started' = started,
           Placing[c].who \in Players, Placing' = [Placing EXCEPT ![c].online = online]
    PROVE  Roster!RosterNext
<1>1. c \in Roster!Table
  BY Zenon DEF Roster!Table, Placing
<1>2. Roster!Attend(c, online)
  BY Zenon DEF Roster!Attend, Roster!Taken, Placing
<1> QED BY <1>1, <1>2 DEF Roster!RosterNext

\* The game begins with everybody where they are.
LEMMA BeginIs ==
    ASSUME ~started, started' = TRUE, Placing' = Placing,
           \A d \in DOMAIN Placing : Placing[d].who # NoToken /\ Placing[d].deck # NoDeck
    PROVE  Roster!RosterNext
<1>1. \A d \in DOMAIN Placing : Placing'[d].who # NoToken /\ Placing'[d].deck # NoDeck
  OBVIOUS
<1>2. Roster!Begin
  BY <1>1, Zenon DEF Roster!Begin, Roster!Table, Placing
<1> QED BY <1>2, Zenon DEF Roster!RosterNext, Placing

\* Steps that leave the arrays alone stutter, or start the game.
LEMMA SameChairs ==
    ASSUME UNCHANGED arrays
    PROVE  Placing' = Placing
BY DEF Placing, arrays, Seats

\* A join is one player sitting down, the last one beginning the game.
LEMMA JoinSits ==
    ASSUME TableInv, TableInv', NEW s \in Sockets, NEW p \in Guests, NEW i \in Numbers, NEW start \in BOOLEAN,
           Join(s, p, i, start)
    PROVE  Roster!RosterNext
<1>1. i \in Seats /\ Open(i) /\ i # 0
  BY JoinSeat
<1>2. /\ ~started /\ p \notin issued
      /\ tokens' = [tokens EXCEPT ![i] = p]
      /\ connected' = [connected EXCEPT ![i] = TRUE]
      /\ decks' = [decks EXCEPT ![i] = p]
      /\ deck_choices' = [deck_choices EXCEPT ![i] = p]
      /\ started' = start
      /\ player_count' = player_count /\ ai_seats' = ai_seats /\ chair' = chair
      /\ start => (\A j \in Seats \ {i} : ~Open(j)) /\ Startable
  BY DEF Join, Admits
<1>3. /\ tokens \in [Seats -> Players \cup {NoToken}] /\ connected \in [Seats -> BOOLEAN]
      /\ decks \in [Seats -> Players \cup BotDecks \cup {NoDeck}]
      /\ deck_choices \in [Seats -> Players \cup Choices \cup {NoDeck}]
      /\ indexed = {tokens[j] : j \in Seats} \ {NoToken} /\ indexed \subseteq issued
  BY DEF TableInv, TTypeOK
<1>4. p \in Players /\ p # NoToken /\ p # Bot /\ Bot # NoToken
  BY TableConstants DEF Players
<1>5. tokens[i] = NoToken /\ i \notin ai_seats /\ \A j \in Seats : tokens[j] # p
  BY <1>1, <1>2, <1>3, <1>4 DEF Open
<1>6. Row(i)' = [who |-> p, deck |-> p, choice |-> p, online |-> TRUE]
  BY <1>1, <1>2, <1>3, <1>5 DEF Row
<1>7. \A j \in Seats \ {i} : Row(j)' = Row(j)
  BY <1>1, <1>2, <1>3 DEF Row
<1>8. /\ Placing' = [Placing EXCEPT ![chair[i]] = Row(i)']
      /\ chair[i] \in DOMAIN Placing /\ Placing[chair[i]] = Row(i)
  BY <1>1, <1>2, <1>7, OneChair
<1>9. /\ DOMAIN Placing = {chair[j] : j \in Seats}
      /\ \A j \in Seats : Placing[chair[j]] = Row(j)
  BY PlacingNow
<1>10. \A d \in DOMAIN Placing : Placing[d].who # p
  <2>1. \A j \in Seats : Row(j).who # p
    BY <1>4, <1>5 DEF Row
  <2> QED BY <1>9, <2>1
<1>11. Placing[chair[i]].who = NoToken
  <2>1. Row(i).who = NoToken
    BY <1>5 DEF Row
  <2> QED BY <1>8, <2>1
<1>12. Placing' = [Placing EXCEPT ![chair[i]] = [who |-> p, deck |-> p, choice |-> p, online |-> TRUE]]
  BY <1>6, <1>8
<1>13. start => \A d \in DOMAIN Placing : Placing'[d].who # NoToken /\ Placing'[d].deck # NoDeck
  <2>1. ASSUME start, NEW j \in Seats
        PROVE  Placing'[chair[j]].who # NoToken /\ Placing'[chair[j]].deck # NoDeck
    <3>1. Seats' = Seats
      BY <1>2 DEF Seats
    <3>2. Placing'[chair[j]] = Row(j)'
      BY <1>2, <3>1, PlacingNext
    <3>3. decks'[j] # NoDeck
      BY <1>2, <2>1 DEF Startable
    <3>4. j \in ai_seats' \/ tokens'[j] # NoToken
      BY <1>2, <1>3, <1>4, <2>1 DEF Open
    <3>5. Row(j)'.who # NoToken /\ Row(j)'.deck # NoDeck
      BY <1>4, <3>3, <3>4 DEF Row
    <3> QED BY <3>2, <3>5
  <2> QED BY <1>9, <2>1
<1>14. PICK c : c = chair[i]
  OBVIOUS
<1>15. /\ c \in DOMAIN Placing /\ Placing[c].who = NoToken
       /\ Placing' = [Placing EXCEPT ![c] = [who |-> p, deck |-> p, choice |-> p, online |-> TRUE]]
  BY <1>8, <1>11, <1>12, <1>14
<1>16. \/ started' = FALSE
       \/ /\ started' = TRUE
          /\ \A d \in DOMAIN Placing : Placing'[d].who # NoToken /\ Placing'[d].deck # NoDeck
  BY <1>2, <1>13
<1> QED BY <1>2, <1>4, <1>10, <1>15, <1>16, SitIs

\* The presence of one player changes while it sits there.
LEMMA Attends ==
    ASSUME TableInv, TableInv', NEW i \in Seats, tokens[i] # NoToken, NEW b \in BOOLEAN,
           connected' = [connected EXCEPT ![i] = b],
           UNCHANGED <<player_count, tokens, decks, deck_choices, ai_seats, chair, started>>
    PROVE  Roster!RosterNext
<1>1. /\ tokens \in [Seats -> Players \cup {NoToken}] /\ connected \in [Seats -> BOOLEAN]
      /\ i \notin ai_seats
  BY DEF TableInv, TTypeOK, Tidy
<1>2. connected'[i] = b /\ \A j \in Seats \ {i} : connected'[j] = connected[j]
  BY <1>1
<1>3. Row(i)' = [Row(i) EXCEPT !.online = b]
  BY <1>2 DEF Row
<1>4. \A j \in Seats \ {i} : Row(j)' = Row(j)
  BY <1>2 DEF Row
<1>5. /\ Placing' = [Placing EXCEPT ![chair[i]] = Row(i)']
      /\ chair[i] \in DOMAIN Placing /\ Placing[chair[i]] = Row(i)
  BY <1>4, OneChair
<1>6. Placing[chair[i]].who \in Players
  <2>1. Row(i).who \in Players
    BY <1>1 DEF Row
  <2> QED BY <1>5, <2>1
<1>7. Placing' = [Placing EXCEPT ![chair[i]].online = b]
  BY <1>3, <1>5
<1>8. PICK c : c = chair[i]
  OBVIOUS
<1>9. c \in DOMAIN Placing /\ Placing[c].who \in Players /\ Placing' = [Placing EXCEPT ![c].online = b]
  BY <1>5, <1>6, <1>7, <1>8
<1> QED BY <1>9, AttendIs

\* The host empties a chair or puts an AI player on it.
LEMMA SetKindStaffs ==
    ASSUME TableInv, TableInv', NEW s \in Sockets, NEW i \in Numbers, NEW kind \in Choices \cup {"WaitingHuman"},
           NEW deck \in BotDecks \cup {NoDeck}, SetKind(s, i, kind, deck)
    PROVE  Roster!RosterNext
<1>1. /\ i \in Seats \ {0} /\ ~started /\ started' = started
      /\ (kind = "WaitingHuman" /\ deck = NoDeck) \/ (kind \in Choices /\ Roster!Fits(deck, kind))
      /\ ApplyDelta(apply_set_kind(i, kind, deck))
  BY DEF SetKind, HostActs, Mutate, Choices, Roster!Fits
<1>2. /\ player_count' = player_count /\ chair' = chair
      /\ tokens' = [tokens EXCEPT ![i] = NoToken]
      /\ connected' \in [Seats -> BOOLEAN]
      /\ \A j \in Seats \ {i} : connected'[j] = connected[j]
      /\ kind \in Choices => connected'[i] = TRUE
      /\ kind \notin Choices => connected'[i] = FALSE
      /\ decks' = [decks EXCEPT ![i] = deck]
      /\ deck_choices' = [deck_choices EXCEPT ![i] = IF kind \in Choices THEN kind ELSE NoDeck]
      /\ ai_seats' = IF kind \in Choices THEN ai_seats \cup {i} ELSE ai_seats \ {i}
  <2>1. /\ i \in Seats \ {0} /\ ((kind = "WaitingHuman" /\ deck = NoDeck) \/ kind \in Choices)
        /\ ApplyDelta(apply_set_kind(i, kind, deck))
    BY <1>1
  <2>2. /\ player_count' = player_count /\ chair' = chair
        /\ tokens' = [tokens EXCEPT ![i] = NoToken]
        /\ connected' \in [Seats -> BOOLEAN]
        /\ \A j \in Seats \ {i} : connected'[j] = connected[j]
        /\ kind \in Choices => connected'[i] = TRUE
        /\ kind \notin Choices => connected'[i] = FALSE
        /\ decks' = [decks EXCEPT ![i] = deck]
        /\ deck_choices' = [deck_choices EXCEPT ![i] = IF kind \in Choices THEN kind ELSE NoDeck]
        /\ ai_seats' = IF kind \in Choices THEN ai_seats \cup {i} ELSE ai_seats \ {i}
        /\ reservations' = [t \in Sockets |-> reservations'[t]]
        /\ \A t \in Sockets : reservations'[t] \in {NoHold, reservations[t]}
        /\ \A t \in Sockets : reservations'[t].seat # None =>
              reservations'[t].seat # i /\ ~Open(reservations'[t].seat)
    BY <2>1, SetKindEffect
  <2> QED BY <2>2
<1>3. /\ tokens \in [Seats -> Players \cup {NoToken}]
      /\ decks \in [Seats -> Players \cup BotDecks \cup {NoDeck}]
      /\ deck_choices \in [Seats -> Players \cup Choices \cup {NoDeck}]
      /\ started \in BOOLEAN
  BY DEF TableInv, TTypeOK
<1>4. /\ tokens'[i] = NoToken /\ decks'[i] = deck
      /\ kind \in Choices => deck_choices'[i] = kind
      /\ kind \notin Choices => deck_choices'[i] = NoDeck
      /\ \A j \in Seats \ {i} : /\ tokens'[j] = tokens[j] /\ decks'[j] = decks[j]
                                /\ deck_choices'[j] = deck_choices[j] /\ (j \in ai_seats' <=> j \in ai_seats)
  BY <1>1, <1>2, <1>3
<1>5. \A j \in Seats \ {i} : Row(j)' = Row(j)
  BY <1>2, <1>4 DEF Row
<1>6. /\ Placing' = [Placing EXCEPT ![chair[i]] = Row(i)'] /\ chair[i] \in DOMAIN Placing
  BY <1>1, <1>2, <1>5, OneChair
<1>7. chair[i] # 0
  <2>1. TTypeOK
    BY DEF TableInv
  <2> QED BY <1>1, <2>1, SeatNumbers DEF TableInv, Tidy
<1>8. started' = FALSE /\ ~started
  BY <1>1, <1>3
<1>9. CASE kind \in Choices
  <2>1. Row(i)' = [who |-> Bot, deck |-> deck, choice |-> kind, online |-> TRUE]
    BY <1>2, <1>4, <1>9 DEF Row
  <2>2. Roster!Fits(deck, kind)
    BY <1>1, <1>9, TableConstants DEF Choices
  <2>3. deck \in BotDecks /\ kind \in BotDecks \cup {Random}
    BY <1>9, <2>2 DEF Roster!Fits, Choices
  <2>4. PICK c : c = chair[i]
    OBVIOUS
  <2>5. /\ c \in DOMAIN Placing /\ c # 0
        /\ Placing' = [Placing EXCEPT ![c] = [who |-> Bot, deck |-> deck, choice |-> kind, online |-> TRUE]]
    BY <1>6, <1>7, <2>1, <2>4
  <2> QED BY <1>8, <2>2, <2>3, <2>5, StaffIs
<1>10. CASE kind \notin Choices
  <2>1. deck = NoDeck
    BY <1>1, <1>10
  <2>2. Row(i)' = [who |-> NoToken, deck |-> NoDeck, choice |-> NoDeck, online |-> FALSE]
    BY <1>2, <1>4, <1>10, <2>1 DEF Row
  <2>3. PICK c : c = chair[i]
    OBVIOUS
  <2>4. /\ c \in DOMAIN Placing /\ c # 0
        /\ Placing' = [Placing EXCEPT ![c] =
                         [who |-> NoToken, deck |-> NoDeck, choice |-> NoDeck, online |-> FALSE]]
    BY <1>6, <1>7, <2>2, <2>3
  <2> QED BY <1>8, <2>4, ClearIs
<1> QED BY <1>9, <1>10

\* A table has as many chairs as seats.
LEMMA ChairsCounted ==
    ASSUME TableInv
    PROVE  Cardinality({chair[i] : i \in Seats}) = player_count
<1>1. chair \in [Seats -> Numbers] /\ \A i, j \in Seats : chair[i] = chair[j] => i = j
  BY DEF TableInv, TTypeOK, Tidy
<1> DEFINE C == {chair[i] : i \in Seats}
<1>2. chair \in Surjection(Seats, C) /\ chair \in Injection(Seats, C)
  BY <1>1 DEF Surjection, Injection, IsInjective
<1>3. TTypeOK
  BY DEF TableInv
<1>4. player_count \in Nat /\ Seats = 0..(player_count - 1)
  BY <1>3, SeatNumbers
<1>5. IsFiniteSet(Seats) /\ Cardinality(Seats) = player_count
  BY <1>4, SeatCount
<1> HIDE DEF C
<1>6. Cardinality(C) = Cardinality(Seats)
  BY <1>2, <1>5, FS_Surjection
<1> QED BY <1>5, <1>6 DEF C

\* A removal takes one chair away and moves nobody.
LEMMA RemoveTakesAway ==
    ASSUME TableInv, TableInv', NEW s \in Sockets, NEW i \in Numbers, Remove(s, i)
    PROVE  Roster!RosterNext
<1> DEFINE after == 0..(player_count - 2)
<1>1. /\ i \in Seats \ {0} /\ RemoveAllowed(i) /\ ApplyDelta(apply_remove(i))
      /\ ~started /\ started' = started
  BY DEF Remove, RemoveAllowed, Mutate, HostActs
<1>2. TTypeOK /\ started \in BOOLEAN
  BY DEF TableInv, TTypeOK
<1>3. player_count \in Nat /\ player_count > MinPlayers
  BY <1>1, <1>2, SeatNumbers DEF RemoveAllowed
<1>4. /\ player_count' = player_count - 1
      /\ tokens' = [j \in after |-> tokens[Shift(i, j)]]
      /\ connected' = [j \in after |-> connected[Shift(i, j)]]
      /\ decks' = [j \in after |-> decks[Shift(i, j)]]
      /\ deck_choices' = [j \in after |-> deck_choices[Shift(i, j)]]
      /\ ai_seats' = {j \in after : Shift(i, j) \in ai_seats}
      /\ chair' = [j \in after |-> chair[Shift(i, j)]]
  BY <1>1, RemoveEffect
<1>5. Seats' = after
  BY <1>3, <1>4 DEF Seats
<1>6. /\ \A j \in after : Shift(i, j) \in Seats \ {i}
      /\ \A k \in Seats \ {i} : \E j \in after : Shift(i, j) = k
  BY <1>1, <1>2, ShiftOnto
<1> HIDE DEF after
<1>7. \A j \in after : Row(j)' = Row(Shift(i, j))
  BY <1>4 DEF Row
<1>8. /\ DOMAIN Placing = {chair[j] : j \in Seats}
      /\ \A j \in Seats : Placing[chair[j]] = Row(j)
  BY PlacingNow
<1>9. /\ DOMAIN Placing' = {chair'[j] : j \in after}
      /\ Placing' = [c \in DOMAIN Placing' |-> Placing'[c]]
      /\ \A j \in after : Placing'[chair'[j]] = Row(j)'
  BY <1>5, PlacingNext
<1>10. \A j \in Seats \ {i} : chair[j] # chair[i]
  BY <1>1 DEF TableInv, Tidy
<1>11. DOMAIN Placing' = DOMAIN Placing \ {chair[i]}
  <2>1. \A j \in after : chair'[j] = chair[Shift(i, j)]
    BY <1>4
  <2> QED BY <1>1, <1>6, <1>8, <1>9, <1>10, <2>1
<1>12. \A c \in DOMAIN Placing' : Placing'[c] = Placing[c]
  <2>1. ASSUME NEW j \in after PROVE Placing'[chair'[j]] = Placing[chair'[j]]
    <3>1. chair'[j] = chair[Shift(i, j)] /\ Shift(i, j) \in Seats
      BY <1>4, <1>6
    <3> QED BY <1>7, <1>8, <1>9, <3>1
  <2> QED BY <1>9, <2>1
<1>13. Placing' = [c \in DOMAIN Placing \ {chair[i]} |-> Placing[c]]
  BY <1>9, <1>11, <1>12
<1>14. chair[i] # 0
  BY <1>1, <1>2, <1>10, SeatNumbers DEF TableInv, Tidy
<1>15. ~(Placing[chair[i]].who \in Players)
  <2>1. i \in Seats /\ SeatKindOf(i) \in Choices \cup {"WaitingHuman"} /\ i # 0
    BY <1>1 DEF RemoveAllowed
  <2>2. SeatKindOf(i) # "JoinedHuman"
    BY <2>1, TableConstants DEF Choices
  <2>3. tokens[i] = NoToken
    BY <2>1, <2>2, KindFacts
  <2>4. Row(i).who \in {Bot, NoToken}
    BY <2>3 DEF Row
  <2>5. Bot \notin Players /\ NoToken \notin Players
    BY TableConstants DEF Players
  <2> QED BY <1>1, <1>8, <2>4, <2>5
<1>16. Cardinality(DOMAIN Placing) > MinPlayers
  BY <1>3, <1>8, ChairsCounted
<1>17. chair[i] \in DOMAIN Placing /\ started' = FALSE
  BY <1>1, <1>2, <1>8
<1>18. PICK c : c = chair[i]
  OBVIOUS
<1>19. /\ c \in DOMAIN Placing /\ c # 0 /\ ~(Placing[c].who \in Players)
       /\ Placing' = [d \in DOMAIN Placing \ {c} |-> Placing[d]]
  BY <1>13, <1>14, <1>15, <1>17, <1>18
<1> QED BY <1>1, <1>16, <1>17, <1>19, TakeAwayIs

\* The room that was just created is the roster that was just created.
LEMMA RosterStarts ==
    ASSUME TInit
    PROVE  Roster!RosterInit
<1>1. TableInv
  BY TableStarts
<1>2. MaxSeats \in Nat /\ MaxSeats >= 2
  BY TableConstants
<1>3. Seats = Numbers
  BY <1>2 DEF TInit, Seats, Numbers
<1>4. \A i \in Numbers : chair[i] = i
  BY DEF TInit
<1>5. {chair[i] : i \in Seats} = Numbers
  BY <1>3, <1>4
<1>6. \A i \in Numbers : Row(i) = IF i = 0 THEN [who |-> Host, deck |-> Host, choice |-> Host, online |-> TRUE]
                                  ELSE [who |-> NoToken, deck |-> NoDeck, choice |-> NoDeck, online |-> FALSE]
  BY DEF TInit, Row
<1>7. Placing = [c \in Numbers |-> IF c = 0 THEN [who |-> Host, deck |-> Host, choice |-> Host, online |-> TRUE]
                                   ELSE [who |-> NoToken, deck |-> NoDeck, choice |-> NoDeck, online |-> FALSE]]
  <2>1. DOMAIN Placing = Numbers /\ Placing = [c \in DOMAIN Placing |-> Placing[c]]
    BY <1>1, <1>5, PlacingNow
  <2>2. \A c \in Numbers : Placing[c] = Row(c)
    BY <1>1, <1>3, <1>4, PlacingNow
  <2> QED BY <1>6, <2>1, <2>2
<1>8. started = FALSE
  BY DEF TInit
<1> QED BY <1>7, <1>8, Zenon DEF Roster!RosterInit, Roster!Seat, Roster!Empty, Placing

\* Every step of the table is a step of the roster, or none.
LEMMA RosterMapped ==
    ASSUME TableInv, TableInv', TNext
    PROVE  Roster!RosterNext \/ UNCHANGED Roster!svars
<1>0. ASSUME UNCHANGED arrays, started' = started PROVE UNCHANGED Roster!svars
  BY <1>0, SameChairs DEF Roster!svars, Placing
<1>1. PICK s \in Sockets :
        \/ ReadCount(s) \/ SetListing(s)
        \/ \E i \in Numbers : Reserve(s, i)
        \/ Release(s) \/ Lapse(s) \/ Refused(s)
        \/ \E p \in Guests, i \in Numbers, start \in BOOLEAN : Join(s, p, i, start)
        \/ Depart(s)
        \/ \E p \in Players, i \in Numbers : Return(s, p, i)
        \/ \E i \in Numbers, kind \in Choices \cup {"WaitingHuman"}, deck \in BotDecks \cup {NoDeck} :
              SetKind(s, i, kind, deck)
        \/ SetKindStale(s)
        \/ \E i \in Numbers : Remove(s, i)
        \/ Start(s)
  BY DEF TNext
<1>2. CASE ReadCount(s) \/ SetListing(s) \/ (\E i \in Numbers : Reserve(s, i)) \/ Release(s) \/ Lapse(s) \/ Refused(s)
  <2>1. UNCHANGED arrays /\ started' = started
    BY <1>2 DEF ReadCount, SetListing, Reserve, Release, Lapse, Refused, table
  <2> QED BY <1>0, <2>1
<1>3. CASE \E p \in Guests, i \in Numbers, start \in BOOLEAN : Join(s, p, i, start)
  BY <1>3, JoinSits
<1>4. CASE Depart(s)
  <2>1. UNCHANGED <<player_count, tokens, decks, deck_choices, ai_seats, chair, started>>
    BY <1>4 DEF Depart
  <2>2. CASE Current(s)
    <3>1. PICK i : i = sock[s].seat
      OBVIOUS
    <3>2. i \in Seats /\ tokens[i] # NoToken /\ connected' = [connected EXCEPT ![i] = FALSE]
      BY <1>4, <2>2, <3>1 DEF Depart, Current, player_for_token
    <3> QED BY <2>1, <3>2, Attends
  <2>3. CASE ~Current(s)
    <3>1. UNCHANGED arrays /\ started' = started
      BY <1>4, <2>1, <2>3 DEF Depart, arrays
    <3> QED BY <1>0, <3>1
  <2> QED BY <2>2, <2>3
<1>5. CASE \E p \in Players, i \in Numbers : Return(s, p, i)
  <2>1. PICK p \in Players, i \in Numbers : Return(s, p, i)
    BY <1>5
  <2>2. /\ UNCHANGED <<player_count, tokens, decks, deck_choices, ai_seats, chair, started>>
        /\ i \in Seats /\ tokens[i] # NoToken /\ connected' = [connected EXCEPT ![i] = TRUE]
    BY <2>1 DEF Return, player_for_token
  <2> QED BY <2>2, Attends
<1>6. CASE \E i \in Numbers, kind \in Choices \cup {"WaitingHuman"}, deck \in BotDecks \cup {NoDeck} :
              SetKind(s, i, kind, deck)
  BY <1>6, SetKindStaffs
<1>7. CASE SetKindStale(s)
  <2>1. UNCHANGED arrays /\ started' = started
    BY <1>7, StaleStep DEF SetKindStale, Mutate
  <2> QED BY <1>0, <2>1
<1>8. CASE \E i \in Numbers : Remove(s, i)
  BY <1>8, RemoveTakesAway
<1>9. CASE Start(s)
  <2>1. UNCHANGED arrays /\ started' = TRUE /\ ~started /\ is_full /\ Startable
    BY <1>9, StaleStep DEF Start, HostActs
  <2>2. Placing' = Placing
    BY <2>1, SameChairs
  <2>3. \A j \in Seats : Row(j).who # NoToken /\ Row(j).deck # NoDeck
    <3>1. \A j \in Seats : decks[j] # NoDeck /\ (j \in ai_seats \/ tokens[j] # NoToken)
      BY <2>1 DEF is_full, Startable, Open, arrays
    <3>2. Bot # NoToken
      BY TableConstants
    <3> QED BY <3>1, <3>2 DEF Row
  <2>4. \A d \in DOMAIN Placing : Placing[d].who # NoToken /\ Placing[d].deck # NoDeck
    BY <2>3, PlacingNow
  <2> QED BY <2>1, <2>2, <2>4, BeginIs
<1> QED BY <1>1, <1>2, <1>3, <1>4, <1>5, <1>6, <1>7, <1>8, <1>9

\* The arrays, renumbered and rewritten in pieces by apply_seat_delta, implement
\* the chairs: what is done to one seat changes no other, and a game begins
\* only with a player and a deck on every chair.
THEOREM TableIsRoster == TSpec => ArraysAreChairs
<1>1. TInit => Roster!RosterInit
  BY RosterStarts
<1>2. TableInv /\ TableInv' /\ [TNext]_tvars => [Roster!RosterNext]_(Roster!svars)
  <2>1. ASSUME UNCHANGED tvars PROVE UNCHANGED Roster!svars
    <3>1. UNCHANGED arrays /\ started' = started
      BY <2>1 DEF tvars, table
    <3> QED BY <3>1, SameChairs DEF Roster!svars, Placing
  <2> QED BY <2>1, RosterMapped
<1> QED BY <1>1, <1>2, TableInOrder, PTL DEF TSpec, ArraysAreChairs, Roster!RosterSpec
=============================================================================
