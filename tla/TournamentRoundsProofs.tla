----------------------- MODULE TournamentRoundsProofs -----------------------
(***************************************************************************)
(* Theorems on TournamentRounds.                                           *)
(*                                                                         *)
(* A round is built in four passes: the field is split into pods and byes, *)
(* the byes are dealt, the pods are filled, and rematches are traded away. *)
(* What each pass does to the places of the standings is proved first; the *)
(* theorems follow from what the passes amount to.                         *)
(***************************************************************************)
EXTENDS TournamentRounds, TLAPS, WellFoundedInduction, FiniteSetTheorems

-----------------------------------------------------------------------------
(* Induction over the naturals, with a set in the place of a predicate.    *)

\* A set of numbers that is not empty has a least one.
LEMMA LeastNumber ==
    ASSUME NEW T, T \subseteq Nat, T # {}
    PROVE  \E x \in T : \A y \in T : x <= y
<1> DEFINE R == OpToRel(<, Nat)
<1>1. IsWellFoundedOn(R, Nat)
  BY NatLessThanWellFounded, Zenon
<1>2. PICK x \in T : \A y \in T : ~(<<y, x>> \in R)
  <2> HIDE DEF R
  <2> QED BY <1>1, WFMin
<1>3. ASSUME NEW y \in T PROVE x <= y
  <2>1. x \in Nat /\ y \in Nat
    OBVIOUS
  <2>2. ~(y < x)
    BY <1>2, <2>1 DEF OpToRel
  <2> QED BY <2>1, <2>2
<1> QED BY <1>3

\* A set with zero, and with each number's successor, has all numbers.
LEMMA Inductive ==
    ASSUME NEW S, 0 \in S, \A n \in Nat : n \in S => n + 1 \in S
    PROVE  \A n \in Nat : n \in S
<1> DEFINE T == {n \in Nat : n \notin S}
<1>1. SUFFICES ASSUME T # {} PROVE FALSE
  OBVIOUS
<1>2. PICK x \in T : \A y \in T : x <= y
  BY <1>1, LeastNumber
<1>3. x \in Nat /\ x # 0
  BY <1>2
<1>4. x - 1 \in Nat /\ x - 1 \notin T
  BY <1>2, <1>3
<1> QED BY <1>2, <1>3, <1>4

\* A set of places that is not empty has a last one.
LEMMA LastPlace ==
    ASSUME NEW n \in Nat, NEW I, I \subseteq 1..n, I # {}
    PROVE  \E m \in I : \A i \in I : i <= m
<1> DEFINE T == {n - i : i \in I}
<1>1. T \subseteq Nat /\ T # {}
  <2>1. ASSUME NEW i \in I PROVE n - i \in Nat
    <3>1. i \in 1..n
      OBVIOUS
    <3> QED BY <3>1
  <2> QED BY <2>1
<1>2. PICK x \in T : \A y \in T : x <= y
  BY <1>1, LeastNumber
<1>3. PICK m \in I : x = n - m
  BY <1>2
<1>4. ASSUME NEW i \in I PROVE i <= m
  <2>1. n - m <= n - i
    BY <1>2, <1>3
  <2> QED BY <2>1
<1> QED BY <1>4

\* The least of a set of numbers.
LEMMA MinIn ==
    ASSUME NEW S, S \subseteq Nat, S # {}
    PROVE  Min(S) \in S /\ \A y \in S : Min(S) <= y
BY LeastNumber DEF Min

-----------------------------------------------------------------------------
(* Places. *)

\* Places can be counted.
LEMMA PlacesFinite ==
    ASSUME NEW n \in Nat, NEW I, I \subseteq 1..n
    PROVE  IsFiniteSet(I) /\ Cardinality(I) \in 0..n
<1>1. IsFiniteSet(1..n) /\ Cardinality(1..n) = n
  BY FS_Interval
<1>2. IsFiniteSet(I) /\ Cardinality(I) <= Cardinality(1..n)
  BY <1>1, FS_Subset
<1> QED BY <1>1, <1>2, FS_CardinalityType

\* The k lowest of some places are k of them.
LEMMA LowestCount ==
    ASSUME NEW n \in Nat
    PROVE  \A k \in Nat : \A I \in SUBSET (1..n) :
              k <= Cardinality(I) => IsFiniteSet(Lowest(I, k)) /\ Cardinality(Lowest(I, k)) = k
<1> DEFINE S == {k \in Nat : \A I \in SUBSET (1..n) :
                    k <= Cardinality(I) => IsFiniteSet(Lowest(I, k)) /\ Cardinality(Lowest(I, k)) = k}
<1>1. 0 \in S
  <2>1. ASSUME NEW I \in SUBSET (1..n) PROVE Lowest(I, 0) = {}
    <3>1. ASSUME NEW i \in I PROVE ~(Cardinality({j \in I : j > i}) < 0)
      <4>1. {j \in I : j > i} \subseteq 1..n
        OBVIOUS
      <4>2. Cardinality({j \in I : j > i}) \in 0..n
        BY ONLY <4>1, PlacesFinite, n \in Nat
      <4> QED BY <4>2
    <3> QED BY <3>1 DEF Lowest
  <2> QED BY <2>1, FS_EmptySet
<1>2. ASSUME NEW k \in Nat, k \in S PROVE k + 1 \in S
  <2>1. SUFFICES ASSUME NEW I \in SUBSET (1..n), k + 1 <= Cardinality(I)
                 PROVE  IsFiniteSet(Lowest(I, k + 1)) /\ Cardinality(Lowest(I, k + 1)) = k + 1
    OBVIOUS
  <2>2. IsFiniteSet(I) /\ Cardinality(I) \in Nat /\ I # {} /\ \A i \in I : i \in Nat
    <3>1. IsFiniteSet(I) /\ Cardinality(I) \in 0..n
      BY PlacesFinite
    <3>2. Cardinality(I) # 0
      BY <2>1, <3>1
    <3> QED BY <3>1, <3>2, FS_EmptySet
  <2>3. PICK m \in I : \A i \in I : i <= m
    BY <2>2, LastPlace
  <2> DEFINE J == I \ {m}
  <2>4. J \in SUBSET (1..n) /\ Cardinality(J) = Cardinality(I) - 1
    BY <2>2, <2>3, FS_RemoveElement
  <2>5. IsFiniteSet(Lowest(J, k)) /\ Cardinality(Lowest(J, k)) = k
    BY <1>2, <2>1, <2>2, <2>4
  <2>6. Lowest(I, k + 1) = Lowest(J, k) \cup {m}
    <3>1. Cardinality({j \in I : j > m}) = 0
      <4>1. \A j \in I : ~(j > m)
        BY <2>2, <2>3
      <4>2. {j \in I : j > m} = {}
        BY <4>1
      <4> QED BY <4>2, FS_EmptySet
    <3>2. ASSUME NEW i \in J
          PROVE  Cardinality({j \in I : j > i}) = Cardinality({j \in J : j > i}) + 1 /\ Cardinality({j \in J : j > i}) \in Nat
      <4>1. {j \in I : j > i} = {j \in J : j > i} \cup {m} /\ m \notin {j \in J : j > i}
        <5>1. i \in Nat /\ m \in Nat /\ i # m /\ i <= m
          BY <2>2, <2>3
        <5>2. m > i
          BY <5>1
        <5> QED BY <5>2
      <4>2. IsFiniteSet({j \in J : j > i}) /\ Cardinality({j \in J : j > i}) \in Nat
        <5>1. {j \in J : j > i} \subseteq 1..n
          OBVIOUS
        <5> QED BY <5>1, PlacesFinite
      <4> QED BY <4>1, <4>2, FS_AddElement
    <3>3. ASSUME NEW i \in J PROVE i \in Lowest(I, k + 1) <=> i \in Lowest(J, k)
      BY <3>2 DEF Lowest
    <3>4. m \in Lowest(I, k + 1)
      BY <3>1 DEF Lowest
    <3> QED BY <3>3, <3>4 DEF Lowest
  <2>7. m \notin Lowest(J, k)
    BY DEF Lowest
  <2> HIDE DEF J
  <2> QED BY <2>5, <2>6, <2>7, FS_AddElement
<1> HIDE DEF S
<1>3. \A k \in Nat : k \in S
  BY <1>1, <1>2, Inductive
<1> QED BY <1>3 DEF S
Rank(I, i) == Cardinality({j \in I : j <= i})

\* Of two places the later one has the higher rank.
LEMMA RankGrows ==
    ASSUME NEW n \in Nat, NEW I \in SUBSET (1..n), NEW i \in I, NEW k \in I, i < k
    PROVE  Rank(I, i) < Rank(I, k) /\ Rank(I, i) \in Nat /\ Rank(I, k) \in Nat
<1> DEFINE A == {j \in I : j <= i}
           B == {j \in I : j <= k}
<1>1. A \subseteq 1..n /\ B \subseteq 1..n /\ i \in 1..n /\ k \in 1..n
  OBVIOUS
<1>2. IsFiniteSet(A) /\ IsFiniteSet(B) /\ Cardinality(A) \in Nat /\ Cardinality(B) \in Nat
  BY <1>1, PlacesFinite
<1>3. A \in SUBSET B /\ k \in B /\ k \notin A
  <2>1. \A j \in I : j \in Nat /\ (j <= i => j <= k)
    BY <1>1
  <2> QED BY <1>1, <2>1
<1> HIDE DEF A, B
<1>4. Cardinality(A) <= Cardinality(B) /\ Cardinality(A) # Cardinality(B)
  BY <1>2, <1>3, FS_Subset
<1>5. Cardinality(A) < Cardinality(B)
  BY <1>2, <1>4
<1> QED BY <1>2, <1>5 DEF A, B, Rank

\* Ranks count from one to how many places there are.
LEMMA RankOnto ==
    ASSUME NEW n \in Nat
    PROVE  \A c \in Nat : \A I \in SUBSET (1..n) :
              Cardinality(I) = c => /\ \A i \in I : Rank(I, i) \in 1..c
                                    /\ \A k \in 1..c : \E i \in I : Rank(I, i) = k
<1> DEFINE P(c, I) == /\ \A i \in I : Rank(I, i) \in 1..c
                      /\ \A k \in 1..c : \E i \in I : Rank(I, i) = k
           S == {c \in Nat : \A I \in SUBSET (1..n) : Cardinality(I) = c => P(c, I)}
<1>1. 0 \in S
  <2>1. ASSUME NEW I \in SUBSET (1..n), Cardinality(I) = 0 PROVE I = {}
    BY <2>1, PlacesFinite, FS_EmptySet
  <2> QED BY <2>1
<1>2. ASSUME NEW c \in Nat, c \in S PROVE c + 1 \in S
  <2>1. SUFFICES ASSUME NEW I \in SUBSET (1..n), Cardinality(I) = c + 1
                 PROVE  P(c + 1, I)
    OBVIOUS
  <2>2. IsFiniteSet(I) /\ I # {} /\ \A i \in I : i \in Nat
    <3>1. IsFiniteSet(I)
      BY PlacesFinite
    <3>2. Cardinality(I) # 0
      BY <2>1
    <3> QED BY <3>1, <3>2, FS_EmptySet
  <2>3. PICK m \in I : \A i \in I : i <= m
    BY <2>2, LastPlace
  <2> DEFINE J == I \ {m}
  <2>4. J \in SUBSET (1..n) /\ Cardinality(J) = c
    <3>1. Cardinality(J) = (c + 1) - 1
      BY <2>1, <2>2, <2>3, FS_RemoveElement
    <3> QED BY <3>1
  <2>5. P(c, J)
    BY <1>2, <2>4
  <2>6. Rank(I, m) = c + 1
    <3>1. {j \in I : j <= m} = I
      BY <2>3
    <3> QED BY <2>1, <3>1 DEF Rank
  <2>7. ASSUME NEW i \in J PROVE Rank(I, i) = Rank(J, i)
    <3>1. i \in Nat /\ m \in Nat /\ i <= m /\ i # m
      BY <2>2, <2>3
    <3>2. ~(m <= i)
      BY <3>1
    <3>3. {j \in I : j <= i} = {j \in J : j <= i}
      BY <3>2
    <3> QED BY <3>3 DEF Rank
  <2>8. ASSUME NEW i \in I PROVE Rank(I, i) \in 1..(c + 1)
    <3>1. CASE i = m
      BY <2>6, <3>1
    <3>2. CASE i \in J
      <4>1. Rank(I, i) \in 1..c
        BY <2>5, <2>7, <3>2
      <4> QED BY <4>1
    <3> QED BY <3>1, <3>2
  <2>9. ASSUME NEW k \in 1..(c + 1) PROVE \E i \in I : Rank(I, i) = k
    <3>1. CASE k = c + 1
      BY <2>6, <3>1
    <3>2. CASE k \in 1..c
      <4>1. PICK i \in J : Rank(J, i) = k
        BY <2>5, <3>2
      <4> QED BY <2>7, <4>1
    <3> QED BY <3>1, <3>2
  <2> HIDE DEF J
  <2> QED BY <2>8, <2>9
<1> HIDE DEF S
<1>3. \A c \in Nat : c \in S
  BY <1>1, <1>2, Inductive
<1> QED BY <1>3 DEF S

\* s lists what stands at the places I of o, each place once.
Reads(s, at, o, I, c) ==
    /\ at \in [1..c -> I]
    /\ \A k, l \in 1..c : at[k] = at[l] => k = l
    /\ \A i \in I : \E k \in 1..c : at[k] = i
    /\ s = [k \in 1..c |-> o[at[k]]]

\* InOrder does.
LEMMA InOrderIs ==
    ASSUME NEW n \in Nat, NEW I \in SUBSET (1..n), NEW o
    PROVE  \E at : Reads(InOrder(o, I), at, o, I, Cardinality(I))
<1> DEFINE c == Cardinality(I)
           at == [k \in 1..c |-> CHOOSE i \in I : Rank(I, i) = k]
<1>1. c \in Nat /\ \A i \in I : i \in Nat
  <2>1. c \in 0..n
    BY PlacesFinite
  <2> QED BY <2>1
<1>2. /\ \A i \in I : Rank(I, i) \in 1..c
      /\ \A k \in 1..c : \E i \in I : Rank(I, i) = k
  BY <1>1, RankOnto, ZenonT(30)
<1>3. ASSUME NEW k \in 1..c PROVE at[k] \in I /\ Rank(I, at[k]) = k
  BY <1>2
<1>4. ASSUME NEW i \in I PROVE \E k \in 1..c : at[k] = i
  <2>1. Rank(I, i) \in 1..c
    BY <1>2
  <2> DEFINE l == at[Rank(I, i)]
  <2>2. l \in I /\ Rank(I, l) = Rank(I, i)
    BY <1>3, <2>1
  <2>3. i \in Nat /\ l \in Nat
    BY <1>1, <2>2
  <2> HIDE DEF l
  <2>4. ASSUME i < l PROVE FALSE
    <3>1. Rank(I, i) < Rank(I, l) /\ Rank(I, i) \in Nat
      BY <2>2, <2>4, RankGrows
    <3> QED BY <2>2, <3>1
  <2>5. ASSUME l < i PROVE FALSE
    <3>1. Rank(I, l) < Rank(I, i) /\ Rank(I, i) \in Nat
      BY <2>2, <2>5, RankGrows
    <3> QED BY <2>2, <3>1
  <2>6. l = i
    BY <2>3, <2>4, <2>5
  <2> QED BY <2>1, <2>6 DEF l
<1>5. at \in [1..c -> I]
  BY <1>3
<1>6. ASSUME NEW k \in 1..c, NEW l \in 1..c, at[k] = at[l] PROVE k = l
  BY <1>3, <1>6
<1>7. InOrder(o, I) = [k \in 1..c |-> o[at[k]]]
  BY DEF InOrder, Rank
<1> HIDE DEF at
<1>8. Reads(InOrder(o, I), at, o, I, c)
  BY <1>4, <1>5, <1>6, <1>7 DEF Reads
<1> QED BY <1>8
-----------------------------------------------------------------------------
(* The split of the field, and the fair choice. *)

\* A division without remainder.
LEMMA Divides ==
    ASSUME NEW a \in Nat \ {0}, NEW r \in Nat, r % a = 0
    PROVE  r \div a \in Nat /\ (r \div a) * a = r
OBVIOUS

\* Byes, short pods and full pods seat the field, and a short pod is one.
LEMMA PartitionSum ==
    ASSUME format.arity \in 2..128, NEW n \in Nat
    PROVE  /\ partition_round(n).byes \in 0..n
           /\ partition_round(n).short \in Nat /\ partition_round(n).full \in Nat
           /\ partition_round(n).full * format.arity + partition_round(n).short * (format.arity - 1)
                 = n - partition_round(n).byes
           /\ partition_round(n).short # 0 => format.arity > 2
<1> DEFINE a == format.arity
           ss == a - 1
           fits(b, s) == n - b - s * ss >= 0 /\ (n - b - s * ss) % a = 0
           B == {x \in 0..n : \E s \in 0..ss : fits(x, s)}
           b == Min(B)
           S == {x \in 0..ss : fits(b, x)}
           s == Min(S)
           full == (n - b - s * ss) \div a
<1>1. a \in Nat \ {0, 1} /\ ss \in Nat \ {0} /\ (a > 2 <=> ~(ss < 2)) /\ (ss < 2 => ss = 1)
  OBVIOUS
<1>2. partition_round(n) = [byes |-> IF ss < 2 THEN b + s ELSE b, short |-> IF ss < 2 THEN 0 ELSE s, full |-> full]
  BY DEF partition_round
<1> HIDE DEF a, ss
<1>3. b \in 0..n /\ \E x \in 0..ss : fits(b, x)
  <2>1. fits(n, 0)
    BY <1>1
  <2>2. B \subseteq Nat /\ n \in B
    BY <1>1, <2>1
  <2>3. b \in B
    BY <2>2, MinIn
  <2> QED BY <2>3
<1> HIDE DEF b
<1>4. s \in 0..ss /\ fits(b, s)
  <2>1. S \subseteq Nat /\ S # {}
    <3> HIDE DEF fits
    <3>1. PICK x \in 0..ss : fits(b, x)
      BY <1>3
    <3>2. x \in S
      BY <3>1
    <3>3. S \subseteq 0..ss
      OBVIOUS
    <3>4. 0..ss \subseteq Nat
      BY <1>1
    <3> HIDE DEF S
    <3> QED BY <3>2, <3>3, <3>4
  <2>2. s \in S
    BY <2>1, MinIn
  <2> QED BY <2>2
<1> HIDE DEF s
<1>5. b \in Nat /\ s \in Nat /\ s * ss \in Nat
  BY <1>1, <1>3, <1>4
<1> DEFINE r == n - b - s * ss
<1>6. r \in Nat /\ r % a = 0
  BY <1>4, <1>5
<1>7. full \in Nat /\ full * a = r
  <2> HIDE DEF r
  <2>1. r \div a \in Nat /\ (r \div a) * a = r
    BY <1>1, <1>6, Divides
  <2> QED BY <2>1 DEF r
<1> HIDE DEF full
<1>8. CASE ss < 2
  <2>1. ss = 1 /\ s * ss = s
    BY <1>1, <1>5, <1>8
  <2>2. b + s \in 0..n /\ full * a = n - (b + s)
    BY <1>5, <1>6, <1>7, <2>1
  <2>3. 0 * (a - 1) = 0 /\ full * a \in Nat
    BY <1>1, <1>6, <1>7
  <2>4. full * a + 0 * (a - 1) = n - (b + s)
    BY <2>2, <2>3
  <2> QED BY <1>2, <1>5, <1>7, <1>8, <2>2, <2>4 DEF a
<1>9. CASE ~(ss < 2)
  <2>1. full * a + s * ss = n - b
    BY <1>5, <1>6, <1>7
  <2>2. partition_round(n).byes = b /\ partition_round(n).short = s /\ partition_round(n).full = full
    BY <1>2, <1>9
  <2>3. a > 2
    BY <1>1, <1>9
  <2> QED BY <1>3, <1>5, <1>7, <2>1, <2>2, <2>3 DEF a, ss
<1> QED BY <1>8, <1>9

\* As many places as asked for are chosen, and one that was chosen before is
\* chosen again only with all that were not.
LEMMA FairChoice ==
    ASSUME NEW n \in Nat, NEW I \in SUBSET (1..n), NEW count \in Nat, count <= Cardinality(I), NEW fresh
    PROVE  /\ select_fair(I, count, fresh) \subseteq I
           /\ Cardinality(select_fair(I, count, fresh)) = count
           /\ (\E i \in select_fair(I, count, fresh) : i \notin fresh) => I \cap fresh \subseteq select_fair(I, count, fresh)
<1> DEFINE F == I \cap fresh
           G == I \ fresh
<1>1. F \in SUBSET (1..n) /\ G \in SUBSET (1..n)
  OBVIOUS
<1>2. /\ IsFiniteSet(I) /\ IsFiniteSet(F) /\ IsFiniteSet(G)
      /\ Cardinality(I) \in 0..n /\ Cardinality(F) \in 0..n /\ Cardinality(G) \in 0..n
  BY <1>1, PlacesFinite
<1>3. Cardinality(I) = Cardinality(F) + Cardinality(G)
  <2>1. I = F \cup G /\ F \cap G = {}
    OBVIOUS
  <2>2. Cardinality(F \cup G) = Cardinality(F) + Cardinality(G) - Cardinality(F \cap G)
    BY <1>2, FS_Union
  <2>3. Cardinality(F \cap G) = 0
    BY <2>1, FS_EmptySet
  <2> HIDE DEF F, G
  <2> QED BY <1>2, <2>1, <2>2, <2>3
<1>4. CASE Cardinality(F) >= count
  <2>1. select_fair(I, count, fresh) = Lowest(F, count)
    BY <1>4 DEF select_fair
  <2>2. Cardinality(Lowest(F, count)) = count
    BY <1>1, <1>2, <1>4, LowestCount
  <2>3. Lowest(F, count) \subseteq F
    BY DEF Lowest
  <2> QED BY <2>1, <2>2, <2>3
<1>5. CASE ~(Cardinality(F) >= count)
  <2> DEFINE k == count - Cardinality(F)
  <2>1. select_fair(I, count, fresh) = F \cup Lowest(G, k)
    BY <1>5 DEF select_fair
  <2>2. k \in Nat /\ k <= Cardinality(G)
    BY <1>2, <1>3, <1>5
  <2>3. Lowest(G, k) \subseteq G
    BY DEF Lowest
  <2> HIDE DEF k
  <2>4. IsFiniteSet(Lowest(G, k)) /\ Cardinality(Lowest(G, k)) = k
    BY <1>1, <2>2, LowestCount
  <2>5. Cardinality(F \cup Lowest(G, k)) = count
    <3>1. F \cap Lowest(G, k) = {}
      BY <2>3
    <3>2. Cardinality(F \cup Lowest(G, k)) = Cardinality(F) + Cardinality(Lowest(G, k)) - Cardinality(F \cap Lowest(G, k))
      BY <1>2, <2>4, FS_Union
    <3>3. Cardinality(F \cap Lowest(G, k)) = 0
      BY <3>1, FS_EmptySet
    <3>4. Cardinality(F \cup Lowest(G, k)) = Cardinality(F) + k - 0
      BY <2>4, <3>2, <3>3
    <3> HIDE DEF F, G
    <3> QED BY <1>2, <3>4 DEF k
  <2> QED BY <2>1, <2>3, <2>5
<1> QED BY <1>4, <1>5

\* However many are asked for, they are from the places offered.
LEMMA FairWithin ==
    ASSUME NEW I, NEW count, NEW fresh
    PROVE  select_fair(I, count, fresh) \subseteq I
BY DEF select_fair, Lowest
-----------------------------------------------------------------------------
(* The greedy pass. *)

\* The seats of pods of these sizes, and those taken in the pods so far.
Slots(sizes) == UNION {{i} \X (1..sizes[i]) : i \in DOMAIN sizes}
TakenIn(pods) == UNION {{i} \X (1..Len(pods[i])) : i \in DOMAIN pods}

\* After k players of P have been seated: each is left, or has one seat.
SeatedSoFar(left, pods, k, N, sizes, P) ==
    /\ left \in Seq(P) /\ Len(left) = N - k
    /\ \A c, d \in 1..Len(left) : left[c] = left[d] => c = d
    /\ DOMAIN pods = DOMAIN sizes
    /\ \A i \in DOMAIN sizes : pods[i] \in Seq(P) /\ Len(pods[i]) <= sizes[i]
    /\ \A i, j \in DOMAIN sizes : \A x \in 1..Len(pods[i]), y \in 1..Len(pods[j]) :
          pods[i][x] = pods[j][y] => i = j /\ x = y
    /\ \A i \in DOMAIN sizes : \A x \in 1..Len(pods[i]), c \in 1..Len(left) : pods[i][x] # left[c]
    /\ \A p \in P : \/ \E c \in 1..Len(left) : left[c] = p
                    \/ \E i \in DOMAIN sizes : \E x \in 1..Len(pods[i]) : pods[i][x] = p
    /\ IsFiniteSet(TakenIn(pods)) /\ Cardinality(TakenIn(pods)) = k

\* What is left of a sequence without one element.
LEMMA RemoveAtIs ==
    ASSUME NEW P, NEW s \in Seq(P), NEW c \in 1..Len(s)
    PROVE  /\ RemoveAt(s, c) \in Seq(P) /\ Len(RemoveAt(s, c)) = Len(s) - 1
           /\ \A k \in 1..(Len(s) - 1) : RemoveAt(s, c)[k] = IF k < c THEN s[k] ELSE s[k + 1]
<1> DEFINE a == SubSeq(s, 1, c - 1)
           b == SubSeq(s, c + 1, Len(s))
<1>1. a \in Seq(P) /\ Len(a) = c - 1 /\ \A k \in 1..(c - 1) : a[k] = s[k]
  OBVIOUS
<1>2. b \in Seq(P) /\ Len(b) = Len(s) - c /\ \A k \in 1..(Len(s) - c) : b[k] = s[k + c]
  OBVIOUS
<1>3. RemoveAt(s, c) = a \o b
  BY DEF RemoveAt
<1> HIDE DEF a, b
<1>4. Len(s) \in Nat /\ c \in Nat /\ c <= Len(s)
  OBVIOUS
<1>5. a \o b \in Seq(P) /\ Len(a \o b) = Len(s) - 1
  BY <1>1, <1>2, <1>4
<1>6. ASSUME NEW k \in 1..(Len(s) - 1) PROVE (a \o b)[k] = IF k < c THEN s[k] ELSE s[k + 1]
  <2>1. k \in 1..(Len(a) + Len(b))
    BY <1>1, <1>2, <1>4
  <2>2. (a \o b)[k] = IF k <= Len(a) THEN a[k] ELSE b[k - Len(a)]
    BY <1>1, <1>2, <2>1
  <2>3. CASE k < c
    BY <1>1, <1>4, <2>2, <2>3
  <2>4. CASE ~(k < c)
    <3>1. k - Len(a) \in 1..(Len(s) - c) /\ ~(k <= Len(a)) /\ (k - Len(a)) + c = k + 1
      BY <1>1, <1>4, <2>4
    <3>2. b[k - Len(a)] = s[(k - Len(a)) + c]
      BY <1>2, <3>1
    <3> QED BY <2>2, <2>4, <3>1, <3>2
  <2> QED BY <2>3, <2>4
<1> QED BY <1>3, <1>5, <1>6

\* While there are more seats than players seated, one more is seated.
LEMMA SeatingStep ==
    ASSUME NEW P, NEW N \in Nat, NEW k \in Nat, k < N, NEW m \in Nat, NEW sizes \in [1..m -> Nat],
           IsFiniteSet(Slots(sizes)), Cardinality(Slots(sizes)) = N,
           NEW st, SeatedSoFar(st.left, st.pods, k, N, sizes, P)
    PROVE  SeatedSoFar(Seating(st, sizes).left, Seating(st, sizes).pods, k + 1, N, sizes, P)
<1> DEFINE left == st.left
           pods == st.pods
           open == {i \in DOMAIN sizes : Len(pods[i]) < sizes[i]}
           pod == Min(open)
           new == {c \in DOMAIN left : \A x \in Range(pods[pod]) : ~have_faced(x, left[c])}
           c == IF new = {} THEN 1 ELSE Min(new)
<1>1. /\ left \in Seq(P) /\ Len(left) = N - k /\ Len(left) \in Nat \ {0} /\ DOMAIN left = 1..Len(left)
      /\ DOMAIN pods = 1..m
      /\ \A i \in 1..m : pods[i] \in Seq(P) /\ Len(pods[i]) \in Nat /\ sizes[i] \in Nat /\ Len(pods[i]) <= sizes[i]
  BY SMTT(30) DEF SeatedSoFar
<1>0. /\ \A d, e \in 1..Len(left) : left[d] = left[e] => d = e
      /\ \A i, j \in 1..m : \A x \in 1..Len(pods[i]), y \in 1..Len(pods[j]) : pods[i][x] = pods[j][y] => i = j /\ x = y
      /\ \A i \in 1..m : \A x \in 1..Len(pods[i]), d \in 1..Len(left) : pods[i][x] # left[d]
      /\ \A p \in P : \/ \E d \in 1..Len(left) : left[d] = p
                      \/ \E i \in 1..m : \E x \in 1..Len(pods[i]) : pods[i][x] = p
      /\ IsFiniteSet(TakenIn(pods)) /\ Cardinality(TakenIn(pods)) = k
  BY DEF SeatedSoFar
<1>2. open # {}
  <2>1. SUFFICES ASSUME open = {} PROVE FALSE
    OBVIOUS
  <2> HIDE DEF pods
  <2>2. ASSUME NEW i \in 1..m PROVE Len(pods[i]) = sizes[i]
    <3>1. ~(Len(pods[i]) < sizes[i])
      BY <2>1
    <3> QED BY <1>1, <3>1
  <2>3. TakenIn(pods) = Slots(sizes)
    BY <1>1, <2>2 DEF TakenIn, Slots
  <2> QED BY <1>0, <2>3
<1>3. pod \in 1..m /\ Len(pods[pod]) < sizes[pod]
  <2>1. open \subseteq Nat
    OBVIOUS
  <2>2. pod \in open
    BY <1>2, <2>1, MinIn
  <2> QED BY <2>2
<1>4. Seating(st, sizes) = [left |-> RemoveAt(left, c), pods |-> [pods EXCEPT ![pod] = Append(@, left[c])]]
  BY <1>2 DEF Seating
<1> HIDE DEF open, pod
<1>5. c \in 1..Len(left)
  <2>1. new \subseteq Nat /\ new \subseteq 1..Len(left)
    BY <1>1
  <2>2. new # {} => Min(new) \in new
    BY <2>1, MinIn
  <2> HIDE DEF new, left
  <2>3. 1 \in 1..Len(left)
    BY <1>1
  <2> QED BY <2>1, <2>2, <2>3
<1> HIDE DEF c, new, left, pods
<1> DEFINE rest == RemoveAt(left, c)
           full == [pods EXCEPT ![pod] = Append(@, left[c])]
           last == Len(pods[pod]) + 1
<1>6. /\ rest \in Seq(P) /\ Len(rest) = Len(left) - 1
      /\ \A d \in 1..(Len(left) - 1) : rest[d] = IF d < c THEN left[d] ELSE left[d + 1]
  BY <1>1, <1>5, RemoveAtIs
<1>7. /\ DOMAIN full = 1..m /\ left[c] \in P
      /\ full[pod] \in Seq(P) /\ Len(full[pod]) = last /\ full[pod][last] = left[c]
      /\ \A x \in 1..Len(pods[pod]) : full[pod][x] = pods[pod][x]
      /\ \A i \in 1..m : i # pod => full[i] = pods[i]
  <2>1. DOMAIN full = 1..m /\ full[pod] = Append(pods[pod], left[c]) /\ \A i \in 1..m : i # pod => full[i] = pods[i]
    BY <1>1, <1>3
  <2>2. left[c] \in P
    BY <1>1, <1>5
  <2> HIDE DEF full
  <2> QED BY <1>1, <1>3, <2>1, <2>2
<1>7a. last \in Nat \ {0} /\ last - 1 = Len(pods[pod])
  BY <1>1, <1>3
<1> HIDE DEF rest, full, last
\* Who is left was left before, and is not the one who has been seated.
<1>8. ASSUME NEW d \in 1..Len(rest)
      PROVE  \E e \in 1..Len(left) : e # c /\ rest[d] = left[e] /\ (d < c => e = d) /\ (~(d < c) => e = d + 1)
  <2>1. d \in 1..(Len(left) - 1) /\ c \in Nat /\ Len(left) \in Nat
    BY <1>1, <1>5, <1>6
  <2>2. rest[d] = IF d < c THEN left[d] ELSE left[d + 1]
    BY <1>6, <2>1
  <2> DEFINE e == IF d < c THEN d ELSE d + 1
  <2>3. e \in 1..Len(left) /\ e # c
    BY <2>1
  <2> QED BY <2>2, <2>3
\* Who has a seat had it before, or is the one.
<1>9. ASSUME NEW i \in 1..m, NEW x \in 1..Len(full[i])
      PROVE  \/ i = pod /\ x = last /\ full[i][x] = left[c]
             \/ x \in 1..Len(pods[i]) /\ full[i][x] = pods[i][x]
  <2>1. CASE i # pod
    BY <1>7, <2>1
  <2>2. CASE i = pod
    <3>1. x \in 1..last /\ (x = last \/ x \in 1..Len(pods[pod]))
      BY <1>7, <1>7a, <2>2
    <3> QED BY <1>7, <2>2, <3>1
  <2> QED BY <2>1, <2>2
<1>10. \A d, e \in 1..Len(rest) : rest[d] = rest[e] => d = e
  <2> SUFFICES ASSUME NEW d \in 1..Len(rest), NEW e \in 1..Len(rest), rest[d] = rest[e] PROVE d = e
    OBVIOUS
  <2>1. PICK f \in 1..Len(left) : f # c /\ rest[d] = left[f] /\ (d < c => f = d) /\ (~(d < c) => f = d + 1)
    BY <1>8
  <2>2. PICK g \in 1..Len(left) : g # c /\ rest[e] = left[g] /\ (e < c => g = e) /\ (~(e < c) => g = e + 1)
    BY <1>8
  <2>3. f = g
    BY <1>0, <2>1, <2>2, ZenonT(30)
  <2>4. d \in Nat /\ e \in Nat /\ c \in Nat
    BY <1>1, <1>5, <1>6
  <2> QED BY <2>1, <2>2, <2>3, <2>4
<1>11. ASSUME NEW i \in 1..m PROVE full[i] \in Seq(P) /\ Len(full[i]) <= sizes[i]
  <2>1. CASE i # pod
    BY <1>1, <1>7, <2>1
  <2>2. CASE i = pod
    <3>1. last <= sizes[pod]
      BY <1>1, <1>3, <1>7a
    <3> QED BY <1>7, <2>2, <3>1
  <2> QED BY <2>1, <2>2
<1>12. ASSUME NEW i \in 1..m, NEW j \in 1..m, NEW x \in 1..Len(full[i]), NEW y \in 1..Len(full[j]),
              full[i][x] = full[j][y]
       PROVE  i = j /\ x = y
  <2>1. /\ (i = pod /\ x = last /\ full[i][x] = left[c]) \/ (x \in 1..Len(pods[i]) /\ full[i][x] = pods[i][x])
        /\ (j = pod /\ y = last /\ full[j][y] = left[c]) \/ (y \in 1..Len(pods[j]) /\ full[j][y] = pods[j][y])
    BY <1>9
  <2> QED BY <1>0, <1>5, <1>12, <2>1, SMTT(30)
<1>13. ASSUME NEW i \in 1..m, NEW x \in 1..Len(full[i]), NEW d \in 1..Len(rest)
       PROVE  full[i][x] # rest[d]
  <2>1. PICK e \in 1..Len(left) : e # c /\ rest[d] = left[e]
    BY <1>8
  <2>2. (i = pod /\ x = last /\ full[i][x] = left[c]) \/ (x \in 1..Len(pods[i]) /\ full[i][x] = pods[i][x])
    BY <1>9
  <2>3. CASE full[i][x] = left[c]
    <3>1. left[e] # left[c]
      BY <1>0, <1>5, <2>1
    <3> QED BY <2>1, <2>3, <3>1
  <2>4. CASE x \in 1..Len(pods[i]) /\ full[i][x] = pods[i][x]
    BY <1>0, <2>1, <2>4
  <2> QED BY <2>2, <2>3, <2>4
<1>14. ASSUME NEW p \in P
       PROVE  \/ \E d \in 1..Len(rest) : rest[d] = p
              \/ \E i \in 1..m : \E x \in 1..Len(full[i]) : full[i][x] = p
  <2>1. CASE p = left[c]
    <3>1. last \in 1..Len(full[pod])
      BY <1>7, <1>7a
    <3> QED BY <1>3, <1>7, <2>1, <3>1
  <2>2. CASE \E e \in 1..Len(left) : left[e] = p /\ e # c
    <3>1. PICK e \in 1..Len(left) : left[e] = p /\ e # c
      BY <2>2
    <3> DEFINE d == IF e < c THEN e ELSE e - 1
    <3>2. d \in 1..Len(rest) /\ rest[d] = left[e]
      BY <1>1, <1>5, <1>6, <3>1
    <3> QED BY <3>1, <3>2
  <2>3. CASE \E i \in 1..m : \E x \in 1..Len(pods[i]) : pods[i][x] = p
    <3>1. PICK i \in 1..m : \E x \in 1..Len(pods[i]) : pods[i][x] = p
      BY <2>3
    <3>2. PICK x \in 1..Len(pods[i]) : pods[i][x] = p
      BY <3>1
    <3>3. x \in 1..Len(full[i]) /\ full[i][x] = p
      <4>1. CASE i # pod
        BY <1>7, <3>2, <4>1
      <4>2. CASE i = pod
        <5>1. x \in 1..last
          BY <1>7a, <4>2
        <5> QED BY <1>7, <3>2, <4>2, <5>1
      <4> QED BY <4>1, <4>2
    <3> QED BY <3>3
  <2>4. \/ \E e \in 1..Len(left) : left[e] = p
        \/ \E i \in 1..m : \E x \in 1..Len(pods[i]) : pods[i][x] = p
    BY <1>0
  <2> QED BY <2>1, <2>2, <2>3, <2>4
<1>15. IsFiniteSet(TakenIn(full)) /\ Cardinality(TakenIn(full)) = k + 1
  <2>1. TakenIn(full) = TakenIn(pods) \cup {<<pod, last>>}
    <3>1. ASSUME NEW i \in 1..m, i # pod PROVE {i} \X (1..Len(full[i])) = {i} \X (1..Len(pods[i]))
      BY <1>7, <3>1
    <3>2. {pod} \X (1..Len(full[pod])) = ({pod} \X (1..Len(pods[pod]))) \cup {<<pod, last>>}
      <4>1. 1..Len(full[pod]) = (1..Len(pods[pod])) \cup {last}
        BY <1>7, <1>7a
      <4> QED BY <4>1
    <3>3. ASSUME NEW z PROVE z \in TakenIn(full) <=> z \in TakenIn(pods) \cup {<<pod, last>>}
      <4>1. z \in TakenIn(full) <=> \E i \in 1..m : z \in {i} \X (1..Len(full[i]))
        BY <1>7 DEF TakenIn
      <4>2. z \in TakenIn(pods) <=> \E i \in 1..m : z \in {i} \X (1..Len(pods[i]))
        BY <1>1 DEF TakenIn
      <4> QED BY <1>3, <3>1, <3>2, <4>1, <4>2
    <3> QED BY <3>3
  <2>2. <<pod, last>> \notin TakenIn(pods)
    <3>1. last \notin 1..Len(pods[pod])
      BY <1>7a
    <3> QED BY <3>1 DEF TakenIn
  <2>3. IsFiniteSet(TakenIn(pods)) /\ Cardinality(TakenIn(pods)) = k
    BY <1>0
  <2>4. IsFiniteSet(TakenIn(pods) \cup {<<pod, last>>}) /\ Cardinality(TakenIn(pods) \cup {<<pod, last>>}) = k + 1
    BY <2>2, <2>3, FS_AddElement
  <2> QED BY <2>1, <2>4
<1>16. Len(rest) = N - (k + 1)
  BY <1>1, <1>6
<1>17. DOMAIN sizes = 1..m
  OBVIOUS
<1>18. SeatedSoFar(rest, full, k + 1, N, sizes, P)
  <2>1. DOMAIN full = DOMAIN sizes
    BY <1>7, <1>17
  <2>2. /\ rest \in Seq(P) /\ Len(rest) = N - (k + 1)
        /\ \A d, e \in 1..Len(rest) : rest[d] = rest[e] => d = e
        /\ \A i \in 1..m : full[i] \in Seq(P) /\ Len(full[i]) <= sizes[i]
    BY <1>6, <1>10, <1>11, <1>16
  <2>3. \A i, j \in 1..m : \A x \in 1..Len(full[i]), y \in 1..Len(full[j]) : full[i][x] = full[j][y] => i = j /\ x = y
    BY <1>12
  <2>4. \A i \in 1..m : \A x \in 1..Len(full[i]), d \in 1..Len(rest) : full[i][x] # rest[d]
    BY <1>13
  <2>5. \A p \in P : \/ \E d \in 1..Len(rest) : rest[d] = p
                     \/ \E i \in 1..m : \E x \in 1..Len(full[i]) : full[i][x] = p
    BY <1>14
  <2> QED BY <1>15, <1>17, <2>1, <2>2, <2>3, <2>4, <2>5 DEF SeatedSoFar
<1> QED BY <1>4, <1>18 DEF rest, full, left, pods
IsSeat(g, order, sizes, n) ==
    g = [k \in 0..n |-> IF k = 0 THEN [left |-> order, pods |-> [i \in DOMAIN sizes |-> << >>]] ELSE Seating(g[k - 1], sizes)]

\* The recursion of greedy_assign has a solution.
LEMMA SeatExists ==
    ASSUME NEW order, NEW sizes, NEW n \in Nat
    PROVE  \E g : IsSeat(g, order, sizes, n)
<1> DEFINE S == {m \in Nat : \E g : IsSeat(g, order, sizes, m)}
<1>1. 0 \in S
  <2> DEFINE g0 == [k \in 0..0 |-> [left |-> order, pods |-> [i \in DOMAIN sizes |-> << >>]]]
  <2>1. IsSeat(g0, order, sizes, 0)
    BY DEF IsSeat
  <2> QED BY <2>1
<1>2. ASSUME NEW m \in Nat, m \in S PROVE m + 1 \in S
  <2>1. PICK g : IsSeat(g, order, sizes, m)
    BY <1>2
  <2> DEFINE h == [k \in 0..(m + 1) |-> IF k = m + 1 THEN Seating(g[m], sizes) ELSE g[k]]
  <2>2. ASSUME NEW k \in 0..(m + 1)
        PROVE  h[k] = IF k = 0 THEN [left |-> order, pods |-> [i \in DOMAIN sizes |-> << >>]] ELSE Seating(h[k - 1], sizes)
    <3>1. CASE k = 0
      BY <2>1, <3>1 DEF IsSeat
    <3>2. CASE k = m + 1
      BY <3>2
    <3>3. CASE k \in 1..m
      <4>1. g[k] = Seating(g[k - 1], sizes)
        BY <2>1, <3>3 DEF IsSeat
      <4> QED BY <3>3, <4>1
    <3> QED BY <3>1, <3>2, <3>3
  <2>3. IsSeat(h, order, sizes, m + 1)
    BY <2>2 DEF IsSeat
  <2> HIDE DEF h
  <2> QED BY <2>3
<1> HIDE DEF S
<1>3. n \in S
  BY <1>1, <1>2, Inductive
<1> QED BY <1>3 DEF S

\* Everybody of P has one seat, and every seat is taken.
Table(pods, sizes, P) ==
    /\ DOMAIN pods = DOMAIN sizes
    /\ \A i \in DOMAIN sizes : pods[i] \in [1..sizes[i] -> P]
    /\ \A i, j \in DOMAIN sizes : \A x \in 1..sizes[i], y \in 1..sizes[j] : pods[i][x] = pods[j][y] => i = j /\ x = y
    /\ \A p \in P : \E i \in DOMAIN sizes : \E x \in 1..sizes[i] : pods[i][x] = p

\* As many players as there are seats fill the table.
LEMMA GreedyFills ==
    ASSUME NEW P, NEW order \in Seq(P), NEW m \in Nat, NEW sizes \in [1..m -> Nat],
           \A c, d \in 1..Len(order) : order[c] = order[d] => c = d,
           \A p \in P : \E c \in 1..Len(order) : order[c] = p,
           IsFiniteSet(Slots(sizes)), Cardinality(Slots(sizes)) = Len(order)
    PROVE  Table(greedy_assign(order, sizes), sizes, P)
<1> DEFINE N == Len(order)
           g == CHOOSE g : IsSeat(g, order, sizes, N)
<1>1. N \in Nat
  OBVIOUS
<1>2. IsSeat(g, order, sizes, N)
  BY <1>1, SeatExists
<1>3. greedy_assign(order, sizes) = g[N].pods
  BY DEF greedy_assign, IsSeat
<1> HIDE DEF g, N
<1> DEFINE S == {k \in Nat : k <= N => SeatedSoFar(g[k].left, g[k].pods, k, N, sizes, P)}
<1>4. 0 \in S
  <2> DEFINE none == [i \in DOMAIN sizes |-> << >>]
  <2>1. g[0] = [left |-> order, pods |-> none]
    BY <1>1, <1>2 DEF IsSeat
  <2>2. TakenIn(none) = {}
    BY DEF TakenIn
  <2>3. \A i \in DOMAIN sizes : none[i] \in Seq(P) /\ Len(none[i]) = 0 /\ sizes[i] \in Nat
    OBVIOUS
  <2>4. DOMAIN none = DOMAIN sizes
    OBVIOUS
  <2>5. N - 0 = Len(order)
    BY <1>1 DEF N
  <2> HIDE DEF none
  <2>6. SeatedSoFar(order, none, 0, N, sizes, P)
    BY <2>2, <2>3, <2>4, <2>5, FS_EmptySet DEF SeatedSoFar
  <2> QED BY <2>1, <2>6
<1>5. ASSUME NEW k \in Nat, k \in S PROVE k + 1 \in S
  <2>1. SUFFICES ASSUME k + 1 <= N
                 PROVE  SeatedSoFar(g[k + 1].left, g[k + 1].pods, k + 1, N, sizes, P)
    OBVIOUS
  <2>2. k < N /\ k + 1 \in 0..N /\ (k + 1) - 1 = k /\ k + 1 # 0
    BY <1>1, <2>1
  <2>3. g[k + 1] = Seating(g[(k + 1) - 1], sizes)
    BY <1>2, <2>2 DEF IsSeat
  <2>4. SeatedSoFar(g[k].left, g[k].pods, k, N, sizes, P)
    BY <1>5, <2>2, <1>1
  <2>5. SeatedSoFar(Seating(g[k], sizes).left, Seating(g[k], sizes).pods, k + 1, N, sizes, P)
    BY <1>1, <2>2, <2>4, SeatingStep DEF N
  <2> QED BY <2>2, <2>3, <2>5
<1> HIDE DEF S
<1>6. N \in S
  BY <1>1, <1>4, <1>5, Inductive
<1>7. SeatedSoFar(g[N].left, g[N].pods, N, N, sizes, P)
  BY <1>1, <1>6 DEF S
<1> DEFINE pods == g[N].pods
           left == g[N].left
<1>8. SeatedSoFar(left, pods, N, N, sizes, P)
  BY <1>7
<1> HIDE DEF pods, left
<1>9. /\ Len(left) = 0 /\ DOMAIN pods = 1..m
      /\ \A i \in 1..m : pods[i] \in Seq(P) /\ Len(pods[i]) \in Nat /\ Len(pods[i]) <= sizes[i] /\ sizes[i] \in Nat
      /\ IsFiniteSet(TakenIn(pods)) /\ Cardinality(TakenIn(pods)) = N
  BY <1>1, <1>8 DEF SeatedSoFar
<1>10. TakenIn(pods) = Slots(sizes)
  <2>1. ASSUME NEW i \in 1..m PROVE {i} \X (1..Len(pods[i])) \subseteq {i} \X (1..sizes[i])
    <3>1. 1..Len(pods[i]) \subseteq 1..sizes[i]
      BY <1>9
    <3> QED BY <3>1
  <2>2. TakenIn(pods) \in SUBSET Slots(sizes)
    BY <1>9, <2>1 DEF TakenIn, Slots
  <2> QED BY <1>9, <2>2, FS_Subset DEF N
<1>11. ASSUME NEW i \in 1..m PROVE Len(pods[i]) = sizes[i]
  <2>1. SUFFICES ASSUME Len(pods[i]) < sizes[i] PROVE FALSE
    BY <1>9
  <2>2. <<i, sizes[i]>> \in Slots(sizes)
    <3>1. sizes[i] \in 1..sizes[i]
      BY <1>9, <2>1
    <3> QED BY <3>1 DEF Slots
  <2>3. <<i, sizes[i]>> \notin TakenIn(pods)
    <3>1. sizes[i] \notin 1..Len(pods[i])
      BY <1>9, <2>1
    <3> QED BY <3>1 DEF TakenIn
  <2> QED BY <1>10, <2>2, <2>3
<1>12. \A i \in 1..m : pods[i] \in [1..sizes[i] -> P]
  BY <1>9, <1>11
<1>13. \A i, j \in 1..m : \A x \in 1..sizes[i], y \in 1..sizes[j] : pods[i][x] = pods[j][y] => i = j /\ x = y
  BY <1>8, <1>11 DEF SeatedSoFar
<1>14. \A p \in P : \E i \in 1..m : \E x \in 1..sizes[i] : pods[i][x] = p
  <2>1. 1..Len(left) = {}
    BY <1>9
  <2>2. \A p \in P : \/ \E c \in 1..Len(left) : left[c] = p
                     \/ \E i \in 1..m : \E x \in 1..Len(pods[i]) : pods[i][x] = p
    BY <1>8 DEF SeatedSoFar
  <2>3. ASSUME NEW p \in P PROVE \E i \in 1..m : \E x \in 1..sizes[i] : pods[i][x] = p
    <3>1. PICK i \in 1..m : \E x \in 1..Len(pods[i]) : pods[i][x] = p
      BY <2>1, <2>2
    <3>2. Len(pods[i]) = sizes[i]
      BY <1>11
    <3> QED BY <3>1, <3>2
  <2> QED BY <2>3
<1>15. DOMAIN sizes = 1..m
  OBVIOUS
<1>16. Table(pods, sizes, P)
  BY <1>9, <1>12, <1>13, <1>14, <1>15 DEF Table
<1> QED BY <1>3, <1>16 DEF pods

\* The seats of full and short pods.
LEMMA SlotCount ==
    ASSUME NEW a \in Nat \ {0}, NEW full \in Nat, NEW short \in Nat
    PROVE  LET sizes == [i \in 1..(full + short) |-> IF i <= full THEN a ELSE a - 1]
           IN  IsFiniteSet(Slots(sizes)) /\ Cardinality(Slots(sizes)) = full * a + short * (a - 1)
<1> DEFINE sizes == [i \in 1..(full + short) |-> IF i <= full THEN a ELSE a - 1]
           A == (1..full) \X (1..a)
           B == ((full + 1)..(full + short)) \X (1..(a - 1))
<1>1. Slots(sizes) = A \cup B
  <2>1. ASSUME NEW z, z \in Slots(sizes) PROVE z \in A \cup B
    <3>1. PICK i \in 1..(full + short) : z \in {i} \X (1..sizes[i])
      BY <2>1 DEF Slots
    <3> QED BY <3>1
  <2>2. ASSUME NEW i \in 1..full, NEW x \in 1..a PROVE <<i, x>> \in Slots(sizes)
    <3>1. i \in 1..(full + short) /\ x \in 1..sizes[i]
      OBVIOUS
    <3>2. <<i, x>> \in {i} \X (1..sizes[i])
      BY <3>1
    <3> HIDE DEF sizes
    <3>3. DOMAIN sizes = 1..(full + short)
      BY DEF sizes
    <3> QED BY <3>1, <3>2, <3>3 DEF Slots
  <2>3. ASSUME NEW i \in (full + 1)..(full + short), NEW x \in 1..(a - 1) PROVE <<i, x>> \in Slots(sizes)
    <3>1. i \in 1..(full + short) /\ x \in 1..sizes[i]
      OBVIOUS
    <3>2. <<i, x>> \in {i} \X (1..sizes[i])
      BY <3>1
    <3> HIDE DEF sizes
    <3>3. DOMAIN sizes = 1..(full + short)
      BY DEF sizes
    <3> QED BY <3>1, <3>2, <3>3 DEF Slots
  <2> HIDE DEF sizes
  <2> QED BY <2>1, <2>2, <2>3
<1>2. IsFiniteSet(A) /\ Cardinality(A) = full * a
  <2>1. IsFiniteSet(1..full) /\ Cardinality(1..full) = full /\ IsFiniteSet(1..a) /\ Cardinality(1..a) = a
    BY FS_Interval
  <2>2. IsFiniteSet(A) /\ Cardinality(A) = Cardinality(1..full) * Cardinality(1..a)
    BY <2>1, FS_Product
  <2> QED BY <2>1, <2>2
<1>3. IsFiniteSet(B) /\ Cardinality(B) = short * (a - 1)
  <2>1. IsFiniteSet((full + 1)..(full + short)) /\ Cardinality((full + 1)..(full + short)) = short
    BY FS_Interval
  <2>2. IsFiniteSet(1..(a - 1)) /\ Cardinality(1..(a - 1)) = a - 1
    BY FS_Interval
  <2> QED BY <2>1, <2>2, FS_Product, ZenonT(30)
<1>4. A \cap B = {}
  OBVIOUS
<1>5. Cardinality(A \cup B) = full * a + short * (a - 1) - 0 /\ IsFiniteSet(A \cup B)
  <2> HIDE DEF A, B
  <2>1. Cardinality(A \cup B) = Cardinality(A) + Cardinality(B) - Cardinality(A \cap B) /\ IsFiniteSet(A \cup B)
    BY <1>2, <1>3, FS_Union
  <2>2. Cardinality(A \cap B) = 0
    BY <1>4, FS_EmptySet
  <2> QED BY <1>2, <1>3, <2>1, <2>2
<1>6. full * a + short * (a - 1) \in Nat
  OBVIOUS
<1>7. Cardinality(A \cup B) = full * a + short * (a - 1)
  BY <1>5, <1>6
<1> QED BY <1>1, <1>5, <1>7
-----------------------------------------------------------------------------
(* The exchanges. *)

\* The search has a first exchange.
LEMMA FirstExchange ==
    ASSUME NEW T, T \subseteq Nat \X Nat \X Nat \X Nat, T # {}
    PROVE  \E s \in T : \A t \in T \ {s} : Before(s, t)
<1> DEFINE A == {s[1] : s \in T}
<1>1. A \subseteq Nat /\ A # {}
  OBVIOUS
<1>2. PICK a \in A : \A v \in A : a <= v
  BY <1>1, LeastNumber
<1> DEFINE T1 == {s \in T : s[1] = a}
           B == {s[2] : s \in T1}
<1>3. B \subseteq Nat /\ B # {}
  BY <1>2
<1>4. PICK b \in B : \A v \in B : b <= v
  BY <1>3, LeastNumber
<1> DEFINE T2 == {s \in T1 : s[2] = b}
           C == {s[3] : s \in T2}
<1>5. C \subseteq Nat /\ C # {}
  BY <1>4
<1>6. PICK c \in C : \A v \in C : c <= v
  BY <1>5, LeastNumber
<1> DEFINE T3 == {s \in T2 : s[3] = c}
           D == {s[4] : s \in T3}
<1>7. D \subseteq Nat /\ D # {}
  BY <1>6
<1>8. PICK d \in D : \A v \in D : d <= v
  BY <1>7, LeastNumber
<1>9. PICK s \in T3 : s[4] = d
  BY <1>8
<1>10. s \in T /\ s[1] = a /\ s[2] = b /\ s[3] = c /\ s[4] = d /\ s \in Nat \X Nat \X Nat \X Nat
  BY <1>9
<1>11. ASSUME NEW t \in T, t # s PROVE Before(s, t)
  <2>0. /\ t \in Nat \X Nat \X Nat \X Nat /\ a \in Nat /\ b \in Nat /\ c \in Nat /\ d \in Nat
        /\ t[1] \in Nat /\ t[2] \in Nat /\ t[3] \in Nat /\ t[4] \in Nat
    BY <1>10
  <2>1. DOMAIN s = 1..4 /\ 1..(1 - 1) = {} /\ 1..(2 - 1) = {1} /\ 1..(3 - 1) = {1, 2} /\ 1..(4 - 1) = {1, 2, 3}
    BY <1>10
  <2>2. a <= t[1]
    BY <1>2
  <2>3. CASE t[1] # a
    <3>1. s[1] < t[1]
      BY <1>10, <2>0, <2>2, <2>3
    <3> QED BY <2>1, <3>1 DEF Before
  <2>4. CASE t[1] = a /\ t[2] # b
    <3>1. b <= t[2]
      BY <1>4, <2>4
    <3>2. s[2] < t[2] /\ s[1] = t[1]
      BY <1>10, <2>0, <2>4, <3>1
    <3> QED BY <2>1, <3>2 DEF Before
  <2>5. CASE t[1] = a /\ t[2] = b /\ t[3] # c
    <3>1. c <= t[3]
      BY <1>6, <2>5
    <3>2. s[3] < t[3] /\ s[1] = t[1] /\ s[2] = t[2]
      BY <1>10, <2>0, <2>5, <3>1
    <3> QED BY <2>1, <3>2 DEF Before
  <2>6. CASE t[1] = a /\ t[2] = b /\ t[3] = c
    <3>1. d <= t[4]
      BY <1>8, <2>6
    <3>2. t[4] # d
      BY <1>10, <1>11, <2>0, <2>6
    <3>3. s[4] < t[4] /\ s[1] = t[1] /\ s[2] = t[2] /\ s[3] = t[3]
      BY <1>10, <2>0, <2>6, <3>1, <3>2
    <3> QED BY <2>1, <3>3 DEF Before
  <2> QED BY <2>3, <2>4, <2>5, <2>6
<1> QED BY <1>10, <1>11

\* An exchange leaves everybody with one seat, and no seat free.
LEMMA SwappedKeeps ==
    ASSUME NEW P, NEW sizes, NEW pods, Table(pods, sizes, P),
           NEW i \in DOMAIN sizes, NEW j \in DOMAIN sizes, i # j, NEW x \in 1..sizes[i], NEW y \in 1..sizes[j]
    PROVE  Table(Swapped(pods, <<i, j, x, y>>), sizes, P)
<1> DEFINE q == Swapped(pods, <<i, j, x, y>>)
           D == DOMAIN sizes
<1>1. /\ DOMAIN pods = D /\ \A k \in D : pods[k] \in [1..sizes[k] -> P]
      /\ \A k, l \in D : \A z \in 1..sizes[k], w \in 1..sizes[l] : pods[k][z] = pods[l][w] => k = l /\ z = w
      /\ \A p \in P : \E k \in D : \E z \in 1..sizes[k] : pods[k][z] = p
  BY DEF Table
<1>2. q = [pods EXCEPT ![i] = [pods[i] EXCEPT ![x] = pods[j][y]], ![j] = [pods[j] EXCEPT ![y] = pods[i][x]]]
  BY <1>1 DEF Swapped
<1> HIDE DEF q, D
<1>3. i \in D /\ j \in D
  BY DEF D
<1>4. /\ DOMAIN q = D /\ q[i] = [pods[i] EXCEPT ![x] = pods[j][y]] /\ q[j] = [pods[j] EXCEPT ![y] = pods[i][x]]
      /\ \A k \in D : k # i /\ k # j => q[k] = pods[k]
  BY <1>1, <1>2, <1>3
<1>5a. pods[i] \in [1..sizes[i] -> P] /\ pods[j] \in [1..sizes[j] -> P]
  BY <1>1, <1>3
<1>5. pods[i][x] \in P /\ pods[j][y] \in P
  BY ONLY <1>5a, x \in 1..sizes[i], y \in 1..sizes[j]
<1>6. ASSUME NEW k \in D PROVE q[k] \in [1..sizes[k] -> P]
  <2>1. CASE k = i
    BY ONLY <1>4, <1>5a, <1>5, <2>1
  <2>2. CASE k = j
    BY ONLY <1>4, <1>5a, <1>5, <2>2
  <2>3. CASE k # i /\ k # j
    BY <1>1, <1>4, <2>3
  <2> QED BY <2>1, <2>2, <2>3
<1>6a. /\ \A z \in 1..sizes[i] : q[i][z] = IF z = x THEN pods[j][y] ELSE pods[i][z]
       /\ \A z \in 1..sizes[j] : q[j][z] = IF z = y THEN pods[i][x] ELSE pods[j][z]
       /\ x \in 1..sizes[i] /\ y \in 1..sizes[j]
  BY ONLY <1>4, <1>5a, x \in 1..sizes[i], y \in 1..sizes[j]
\* Where a seat's player sat before.
<1> DEFINE Was(k, z, l, w) == /\ l \in D /\ w \in 1..sizes[l] /\ q[k][z] = pods[l][w]
                              /\ k = i /\ z = x => l = j /\ w = y
                              /\ k = j /\ z = y => l = i /\ w = x
                              /\ ~(k = i /\ z = x) /\ ~(k = j /\ z = y) => l = k /\ w = z
<1>7. ASSUME NEW k \in D, NEW z \in 1..sizes[k] PROVE \E l \in D : \E w \in 1..sizes[l] : Was(k, z, l, w)
  <2>1. CASE k = i /\ z = x
    <3>1. Was(k, z, j, y)
      BY ONLY i # j, <1>3, <1>6a, <2>1
    <3> QED BY <1>3, <3>1
  <2>2. CASE k = j /\ z = y
    <3>1. Was(k, z, i, x)
      BY ONLY i # j, <1>3, <1>6a, <2>2
    <3> QED BY <1>3, <3>1
  <2>3. CASE ~(k = i /\ z = x) /\ ~(k = j /\ z = y)
    <3>1. Was(k, z, k, z)
      BY ONLY k \in D, z \in 1..sizes[k], <1>4, <1>6a, <2>3
    <3> QED BY <3>1
  <2> QED BY <2>1, <2>2, <2>3
<1>8. ASSUME NEW k \in D, NEW l \in D, NEW z \in 1..sizes[k], NEW w \in 1..sizes[l], q[k][z] = q[l][w]
      PROVE  k = l /\ z = w
  <2>1. PICK k1 \in D : \E z1 \in 1..sizes[k1] : Was(k, z, k1, z1)
    BY <1>7
  <2>2. PICK z1 \in 1..sizes[k1] : Was(k, z, k1, z1)
    BY <2>1
  <2>3. PICK l1 \in D : \E w1 \in 1..sizes[l1] : Was(l, w, l1, w1)
    BY <1>7
  <2>4. PICK w1 \in 1..sizes[l1] : Was(l, w, l1, w1)
    BY <2>3
  <2>5. pods[k1][z1] = pods[l1][w1]
    BY <1>8, <2>2, <2>4
  <2>6. k1 = l1 /\ z1 = w1
    BY <1>1, <2>5
  <2> QED BY <2>2, <2>4, <2>6
<1>9. ASSUME NEW p \in P PROVE \E k \in D : \E z \in 1..sizes[k] : q[k][z] = p
  <2>1. PICK k \in D : \E z \in 1..sizes[k] : pods[k][z] = p
    BY <1>1
  <2>2. PICK z \in 1..sizes[k] : pods[k][z] = p
    BY <2>1
  <2>3. CASE k = i /\ z = x
    BY ONLY <1>3, <1>6a, <2>2, <2>3
  <2>4. CASE k = j /\ z = y
    BY ONLY <1>3, <1>6a, <2>2, <2>4
  <2>5. CASE ~(k = i /\ z = x) /\ ~(k = j /\ z = y)
    <3>1. q[k][z] = pods[k][z]
      BY ONLY k \in D, z \in 1..sizes[k], <1>4, <1>6a, <2>5
    <3> QED BY <2>2, <3>1
  <2> QED BY <2>3, <2>4, <2>5
<1>10. Table(q, sizes, P)
  BY <1>4, <1>6, <1>8, <1>9 DEF Table, D
<1> QED BY <1>10 DEF q

\* An exchange of the search is made.
Exchanged(pods, m, sizes) ==
    \E i, j \in 1..m : \E x \in 1..sizes[i], y \in 1..sizes[j] :
        /\ i # j /\ <<i, j, x, y>> \in Improving(pods)
        /\ Repaired(pods) = Swapped(pods, <<i, j, x, y>>)

\* If there is one, the first is made.
LEMMA FirstImproving ==
    ASSUME NEW P, NEW m \in Nat, NEW sizes \in [1..m -> Nat], NEW pods, Table(pods, sizes, P), Improving(pods) # {}
    PROVE  Exchanged(pods, m, sizes)
<1> DEFINE T == Improving(pods)
           s == CHOOSE s \in T : \A t \in T \ {s} : Before(s, t)
<1>1. DOMAIN pods = 1..m /\ \A i \in 1..m : DOMAIN pods[i] = 1..sizes[i]
  BY DEF Table
<1>2. ASSUME NEW t \in T
      PROVE  \E i, j \in 1..m : \E x \in 1..sizes[i], y \in 1..sizes[j] : t = <<i, j, x, y>> /\ i # j
  <2>1. PICK i \in 1..m, j \in 1..m : t \in {<<i, j, x, y>> : x \in DOMAIN pods[i], y \in DOMAIN pods[j]}
    BY <1>1, <1>2 DEF Improving
  <2>2. PICK x \in 1..sizes[i], y \in 1..sizes[j] : t = <<i, j, x, y>>
    <3>1. DOMAIN pods[i] = 1..sizes[i] /\ DOMAIN pods[j] = 1..sizes[j]
      BY <1>1
    <3> HIDE DEF T
    <3> QED BY ONLY <2>1, <3>1
  <2>3. t[1] # t[2]
    BY <1>2 DEF Improving
  <2>4. i # j
    BY <2>2, <2>3
  <2> QED BY <2>2, <2>4
<1>3. T \subseteq Nat \X Nat \X Nat \X Nat
  <2>1. \A i \in 1..m : i \in Nat /\ \A x \in 1..sizes[i] : x \in Nat
    OBVIOUS
  <2> HIDE DEF T
  <2>2. ASSUME NEW t \in T PROVE t \in Nat \X Nat \X Nat \X Nat
    <3>0. PICK i \in 1..m, j \in 1..m : \E x \in 1..sizes[i], y \in 1..sizes[j] : t = <<i, j, x, y>>
      BY <1>2
    <3>1. PICK x \in 1..sizes[i], y \in 1..sizes[j] : t = <<i, j, x, y>>
      BY <3>0
    <3>2. x \in Nat /\ y \in Nat
      BY <2>1
    <3> QED BY <3>1, <3>2
  <2> QED BY <2>2
<1>4. T # {}
  OBVIOUS
<1>5. Repaired(pods) = Swapped(pods, s)
  BY <1>4 DEF Repaired
<1> HIDE DEF T
<1>6. s \in T
  BY <1>3, <1>4, FirstExchange
<1> HIDE DEF s
<1>7. PICK i \in 1..m, j \in 1..m : \E x \in 1..sizes[i], y \in 1..sizes[j] : s = <<i, j, x, y>> /\ i # j
  BY <1>2, <1>6
<1>8. PICK x \in 1..sizes[i], y \in 1..sizes[j] : s = <<i, j, x, y>> /\ i # j
  BY <1>7
<1>9. <<i, j, x, y>> \in Improving(pods) /\ Repaired(pods) = Swapped(pods, <<i, j, x, y>>)
  BY <1>5, <1>6, <1>8 DEF T
<1> QED BY <1>8, <1>9 DEF Exchanged

\* One exchange, or none.
LEMMA RepairedKeeps ==
    ASSUME NEW P, NEW m \in Nat, NEW sizes \in [1..m -> Nat], NEW pods, Table(pods, sizes, P)
    PROVE  Table(Repaired(pods), sizes, P)
<1>1. CASE Improving(pods) = {}
  BY <1>1 DEF Repaired
<1>2. CASE Improving(pods) # {}
  <2>1. PICK i \in 1..m, j \in 1..m : \E x \in 1..sizes[i], y \in 1..sizes[j] :
               /\ i # j /\ <<i, j, x, y>> \in Improving(pods)
               /\ Repaired(pods) = Swapped(pods, <<i, j, x, y>>)
    <3>1. Exchanged(pods, m, sizes)
      BY <1>2, FirstImproving
    <3> QED BY <3>1 DEF Exchanged
  <2>2. PICK x \in 1..sizes[i], y \in 1..sizes[j] : i # j /\ Repaired(pods) = Swapped(pods, <<i, j, x, y>>)
    BY <2>1
  <2>3. i \in DOMAIN sizes /\ j \in DOMAIN sizes
    OBVIOUS
  <2>4. Table(Swapped(pods, <<i, j, x, y>>), sizes, P)
    BY <2>2, <2>3, SwappedKeeps
  <2> QED BY <2>2, <2>4
<1> QED BY <1>1, <1>2

IsRepair(g, pods, n) == g = [k \in 0..n |-> IF k = 0 THEN pods ELSE Repaired(g[k - 1])]

\* The recursion of repair_rematches has a solution.
LEMMA RepairExists ==
    ASSUME NEW pods, NEW n \in Nat
    PROVE  \E g : IsRepair(g, pods, n)
<1> DEFINE S == {m \in Nat : \E g : IsRepair(g, pods, m)}
<1>1. 0 \in S
  <2> DEFINE g0 == [k \in 0..0 |-> pods]
  <2>1. IsRepair(g0, pods, 0)
    BY DEF IsRepair
  <2> QED BY <2>1
<1>2. ASSUME NEW m \in Nat, m \in S PROVE m + 1 \in S
  <2>1. PICK g : IsRepair(g, pods, m)
    BY <1>2
  <2> DEFINE h == [k \in 0..(m + 1) |-> IF k = m + 1 THEN Repaired(g[m]) ELSE g[k]]
  <2>2. ASSUME NEW k \in 0..(m + 1) PROVE h[k] = IF k = 0 THEN pods ELSE Repaired(h[k - 1])
    <3>1. CASE k = 0
      BY <2>1, <3>1 DEF IsRepair
    <3>2. CASE k = m + 1
      BY <3>2
    <3>3. CASE k \in 1..m
      <4>1. g[k] = Repaired(g[k - 1])
        BY <2>1, <3>3 DEF IsRepair
      <4> QED BY <3>3, <4>1
    <3> QED BY <3>1, <3>2, <3>3
  <2>3. IsRepair(h, pods, m + 1)
    BY <2>2 DEF IsRepair
  <2> HIDE DEF h
  <2> QED BY <2>3
<1> HIDE DEF S
<1>3. n \in S
  BY <1>1, <1>2, Inductive
<1> QED BY <1>3 DEF S

\* However many rematches are traded away, everybody keeps one seat.
LEMMA RepairKeeps ==
    ASSUME NEW P, NEW m \in Nat, NEW sizes \in [1..m -> Nat], NEW a \in Nat, \A i \in 1..m : sizes[i] <= a,
           NEW pods, Table(pods, sizes, P)
    PROVE  Table(repair_rematches(pods), sizes, P)
<1> DEFINE R == UNION {{i} \X Rematches(pods[i]) : i \in DOMAIN pods}
           n == Cardinality(R)
           g == CHOOSE g : IsRepair(g, pods, n)
<1>1. n \in Nat
  <2> DEFINE U == (1..m) \X ((1..a) \X (1..a))
  <2>1. DOMAIN pods = 1..m /\ \A i \in 1..m : DOMAIN pods[i] = 1..sizes[i]
    BY DEF Table
  <2>2. ASSUME NEW i \in 1..m PROVE Rematches(pods[i]) \subseteq (1..a) \X (1..a)
    <3>1. 1..sizes[i] \subseteq 1..a
      OBVIOUS
    <3> QED BY <2>1, <3>1 DEF Rematches
  <2>3. R \in SUBSET U
    BY <2>1, <2>2
  <2>4. IsFiniteSet(U)
    <3>1. IsFiniteSet(1..m) /\ IsFiniteSet(1..a)
      BY FS_Interval
    <3>2. IsFiniteSet((1..a) \X (1..a))
      BY <3>1, FS_Product
    <3> QED BY <3>1, <3>2, FS_Product
  <2> HIDE DEF R, U
  <2>5. IsFiniteSet(R)
    BY <2>3, <2>4, FS_Subset
  <2> QED BY <2>5, FS_CardinalityType
<1>2. IsRepair(g, pods, n)
  <2> HIDE DEF n
  <2> QED BY <1>1, RepairExists
<1>3. repair_rematches(pods) = g[n]
  BY DEF repair_rematches, IsRepair
<1> HIDE DEF g, n
<1> DEFINE S == {k \in Nat : k <= n => Table(g[k], sizes, P)}
<1>4. 0 \in S
  <2>1. g[0] = pods
    BY <1>1, <1>2 DEF IsRepair
  <2> QED BY <2>1
<1>5. ASSUME NEW k \in Nat, k \in S PROVE k + 1 \in S
  <2>1. SUFFICES ASSUME k + 1 <= n PROVE Table(g[k + 1], sizes, P)
    OBVIOUS
  <2>2. k <= n /\ k + 1 \in 0..n /\ (k + 1) - 1 = k /\ k + 1 # 0
    BY <1>1, <2>1
  <2>3. g[k + 1] = Repaired(g[(k + 1) - 1])
    BY <1>2, <2>2 DEF IsRepair
  <2>4. Table(Repaired(g[k]), sizes, P)
    BY <1>5, <2>2, RepairedKeeps
  <2> QED BY <2>2, <2>3, <2>4
<1> HIDE DEF S
<1>6. n \in S
  BY <1>1, <1>4, <1>5, Inductive
<1>7. Table(g[n], sizes, P)
  BY <1>1, <1>6 DEF S
<1> QED BY <1>3, <1>7
-----------------------------------------------------------------------------
(* A round of a Swiss event. *)

\* An order lists everybody who is in the event once.
Lists(o, n) ==
    /\ n \in Nat /\ o \in [1..n -> active]
    /\ \A i, j \in 1..n : o[i] = o[j] => i = j
    /\ \A p \in active : \E i \in 1..n : o[i] = p

\* The standings do.
LEMMA StandingsList ==
    ASSUME IsFiniteSet(active), NEW o \in Standings
    PROVE  Lists(o, Cardinality(active)) /\ Len(o) = Cardinality(active)
<1> DEFINE n == Cardinality(active)
<1>1. n \in Nat
  BY FS_CardinalityType
<1>2. o \in [1..n -> active] /\ \A i, j \in 1..n : i # j => o[i] # o[j]
  BY DEF Standings, SetToSeqs
<1> HIDE DEF n
<1>3. o \in Injection(1..n, active)
  BY <1>2 DEF Injection, IsInjective
<1>4. Cardinality(1..n) = n
  BY <1>1, FS_Interval
<1>5. o \in Surjection(1..n, active)
  BY <1>3, <1>4, FS_Injection DEF n
<1>6. \A p \in active : \E i \in 1..n : o[i] = p
  BY <1>5 DEF Surjection
<1>7. Len(o) = n
  BY <1>1, <1>2
<1> QED BY <1>1, <1>2, <1>6, <1>7 DEF Lists, n

\* N players, each of P and each once.
Lined(order, P, N) ==
    /\ order \in Seq(P) /\ Len(order) = N
    /\ \A c, d \in 1..Len(order) : order[c] = order[d] => c = d
    /\ \A p \in P : \E c \in 1..Len(order) : order[c] = p

\* What stands at the places X.
At(o, X) == {o[k] : k \in X}

\* Two sets of places, one after the other.
LEMMA OrderOf ==
    ASSUME NEW n \in Nat, NEW o, \A i, j \in 1..n : o[i] = o[j] => i = j,
           NEW I \in SUBSET (1..n), NEW J \in SUBSET (1..n), I \cap J = {}
    PROVE  Lined(InOrder(o, I) \o InOrder(o, J), At(o, I \cup J), Cardinality(I \cup J))
<1> DEFINE s == InOrder(o, I)
           t == InOrder(o, J)
           order == s \o t
           P == {o[k] : k \in I \cup J}
           a == Cardinality(I)
           b == Cardinality(J)
<1>1. PICK f : Reads(s, f, o, I, a)
  BY InOrderIs
<1>2. PICK g : Reads(t, g, o, J, b)
  BY InOrderIs
<1>3. IsFiniteSet(I) /\ IsFiniteSet(J) /\ a \in Nat /\ b \in Nat
  <2>1. IsFiniteSet(I) /\ a \in 0..n /\ IsFiniteSet(J) /\ b \in 0..n
    BY PlacesFinite
  <2> HIDE DEF a, b
  <2> QED BY <2>1
<1>4. Cardinality(I \cup J) = a + b
  <2>1. Cardinality(I \cup J) = a + b - Cardinality(I \cap J)
    BY <1>3, FS_Union
  <2>2. Cardinality(I \cap J) = 0
    BY FS_EmptySet
  <2> HIDE DEF a, b
  <2> QED BY <1>3, <2>1, <2>2
<1> HIDE DEF s, t, a, b
<1>5. /\ s \in Seq(P) /\ Len(s) = a /\ \A k \in 1..a : s[k] = o[f[k]] /\ f[k] \in I
      /\ t \in Seq(P) /\ Len(t) = b /\ \A k \in 1..b : t[k] = o[g[k]] /\ g[k] \in J
  <2>1. \A k \in 1..a : s[k] \in P
    BY <1>1 DEF Reads
  <2>2. \A k \in 1..b : t[k] \in P
    BY <1>2 DEF Reads
  <2> HIDE DEF P
  <2> QED BY <1>1, <1>2, <1>3, <2>1, <2>2 DEF Reads
<1>6. order \in Seq(P) /\ Len(order) = a + b
  <2>1. s \in Seq(P) /\ t \in Seq(P) /\ Len(s) = a /\ Len(t) = b
    BY <1>5
  <2> HIDE DEF P
  <2> QED BY ONLY <2>1
<1>7. ASSUME NEW c \in 1..(a + b)
      PROVE  order[c] = IF c <= a THEN s[c] ELSE t[c - a]
  <2>1. s \in Seq(P) /\ t \in Seq(P) /\ Len(s) = a /\ Len(t) = b
    BY <1>5
  <2> HIDE DEF P
  <2> QED BY ONLY <2>1, c \in 1..(a + b)
<1> DEFINE at(c) == IF c <= a THEN f[c] ELSE g[c - a]
<1>8. ASSUME NEW c \in 1..(a + b)
      PROVE  order[c] = o[at(c)] /\ at(c) \in 1..n /\ (c <= a <=> at(c) \in I)
  <2>1. CASE c <= a
    <3>1. c \in 1..a
      BY <1>3, <2>1
    <3> QED BY <1>5, <1>7, <2>1, <3>1
  <2>2. CASE ~(c <= a)
    <3>1. c - a \in 1..b
      BY <1>3, <2>2
    <3>2. t[c - a] = o[g[c - a]] /\ g[c - a] \in J
      BY <1>5, <3>1
    <3> QED BY <1>7, <2>2, <3>2
  <2> QED BY <2>1, <2>2
<1>9. ASSUME NEW c \in 1..(a + b), NEW d \in 1..(a + b), order[c] = order[d] PROVE c = d
  <2>1. at(c) = at(d) /\ (c <= a <=> d <= a)
    <3>1. at(c) = at(d)
      BY <1>8, <1>9
    <3> HIDE DEF at
    <3> QED BY <1>8, <3>1
  <2>2. CASE c <= a
    <3>1. c \in 1..a /\ d \in 1..a
      BY <1>3, <2>1, <2>2
    <3> QED BY <1>1, <2>1, <2>2, <3>1 DEF Reads
  <2>3. CASE ~(c <= a)
    <3>1. c - a \in 1..b /\ d - a \in 1..b
      BY <1>3, <2>1, <2>3
    <3>2. c - a = d - a
      BY <1>2, <2>1, <2>3, <3>1 DEF Reads
    <3> QED BY <1>3, <3>2
  <2> QED BY <2>2, <2>3
<1>10. ASSUME NEW p \in P PROVE \E c \in 1..(a + b) : order[c] = p
  <2>1. PICK i \in I \cup J : p = o[i]
    OBVIOUS
  <2>2. CASE i \in I
    <3>1. PICK k \in 1..a : f[k] = i
      BY <1>1, <2>2 DEF Reads
    <3>2. k \in 1..(a + b) /\ k <= a
      BY <1>3
    <3> QED BY <1>5, <1>7, <2>1, <3>1, <3>2
  <2>3. CASE i \in J
    <3>1. PICK k \in 1..b : g[k] = i
      BY <1>2, <2>3 DEF Reads
    <3>2. a + k \in 1..(a + b) /\ ~(a + k <= a) /\ (a + k) - a = k
      BY <1>3
    <3>3. order[a + k] = t[k]
      BY <1>7, <3>2
    <3> QED BY <1>5, <2>1, <3>1, <3>2, <3>3
  <2> QED BY <2>2, <2>3
<1>11. Lined(order, P, Cardinality(I \cup J))
  <2> HIDE DEF order, P
  <2> QED BY <1>4, <1>6, <1>9, <1>10 DEF Lined
<1> QED BY <1>11 DEF s, t, At

\* A round of pairings seats everybody of the field once.
IsRound(b, field) ==
    /\ \E m \in Nat : b \in [1..m -> SUBSET field]
    /\ \A i \in DOMAIN b : b[i] # {}
    /\ \A i, j \in DOMAIN b : \A p \in b[i] : p \in b[j] => i = j
    /\ \A p \in field : \E i \in DOMAIN b : p \in b[i]

\* The places that have a bye.
ByePlaces(o, n) == select_fair(1..n, partition_round(n).byes, {i \in 1..n : ~had_bye(o[i])})
\* A round whose pairings of one player are the byes of the places B.
ByesAt(b, o, B) ==
    /\ \A i \in DOMAIN b : (\E x : b[i] = {x}) => \E k \in B : b[i] = {o[k]}
    /\ \A k \in B : \E i \in DOMAIN b : b[i] = {o[k]}

\* The pods, then the byes.
InAll(pods, bye) == [i \in DOMAIN pods |-> Range(pods[i])] \o [i \in DOMAIN bye |-> {bye[i]}]

\* One sequence after another.
LEMMA Concat ==
    ASSUME NEW S, NEW u \in Seq(S), NEW v \in Seq(S)
    PROVE  /\ u \o v \in Seq(S) /\ Len(u \o v) = Len(u) + Len(v)
           /\ \A i \in 1..(Len(u) + Len(v)) : (u \o v)[i] = IF i <= Len(u) THEN u[i] ELSE v[i - Len(u)]
OBVIOUS

\* When pods seat the players of P and the byes go to
\* the places B of o, that is a round.
LEMMA PodsAndByes ==
    ASSUME NEW n \in Nat, NEW o, Lists(o, n), NEW B \in SUBSET (1..n),
           NEW m \in Nat, NEW sizes \in [1..m -> Nat], \A i \in 1..m : sizes[i] >= 2,
           NEW pods, Table(pods, sizes, At(o, (1..n) \ B)),
           NEW c \in Nat, NEW at, NEW bye, Reads(bye, at, o, B, c)
    PROVE  IsRound(InAll(pods, bye), active) /\ ByesAt(InAll(pods, bye), o, B)
<1> DEFINE P == {o[k] : k \in (1..n) \ B}
           u == [i \in DOMAIN pods |-> Range(pods[i])]
           v == [i \in DOMAIN bye |-> {bye[i]}]
           b == u \o v
<1>1. /\ DOMAIN pods = 1..m
      /\ \A i \in 1..m : pods[i] \in [1..sizes[i] -> P]
      /\ \A i, j \in 1..m : \A x \in 1..sizes[i], y \in 1..sizes[j] : pods[i][x] = pods[j][y] => i = j /\ x = y
      /\ \A p \in P : \E i \in 1..m : \E x \in 1..sizes[i] : pods[i][x] = p
  BY DEF Table, At
<1>2. /\ at \in [1..c -> B] /\ \A k, l \in 1..c : at[k] = at[l] => k = l
      /\ \A i \in B : \E k \in 1..c : at[k] = i
      /\ DOMAIN bye = 1..c /\ \A k \in 1..c : bye[k] = o[at[k]]
  BY DEF Reads
<1>3. /\ (\A i \in 1..n : o[i] \in active) /\ \A i, j \in 1..n : o[i] = o[j] => i = j
      /\ \A p \in active : \E i \in 1..n : o[i] = p
  BY DEF Lists
<1>4. P \subseteq active /\ \A k \in B : o[k] \in active /\ o[k] \notin P
  BY <1>3
<1> HIDE DEF P
<1>5. ASSUME NEW i \in 1..m
      PROVE  /\ u[i] = {pods[i][x] : x \in 1..sizes[i]} /\ u[i] \subseteq P
             /\ ~\E x : u[i] = {x}
             /\ u[i] # {}
  <2>1. u[i] = {pods[i][x] : x \in 1..sizes[i]}
    BY <1>1 DEF Range
  <2>2. \A x \in 1..sizes[i] : pods[i][x] \in P
    BY <1>1
  <2>3. 1 \in 1..sizes[i] /\ 2 \in 1..sizes[i]
    <3>1. sizes[i] \in Nat /\ sizes[i] >= 2
      OBVIOUS
    <3> QED BY ONLY <3>1
  <2>4. pods[i][1] # pods[i][2] /\ pods[i][1] \in u[i] /\ pods[i][2] \in u[i]
    <3>1. pods[i][1] \in u[i] /\ pods[i][2] \in u[i]
      BY <2>1, <2>3
    <3>2. \A x, y \in 1..sizes[i] : pods[i][x] = pods[i][y] => x = y
      BY <1>1
    <3> QED BY <2>3, <3>1, <3>2
  <2> HIDE DEF u
  <2> QED BY <2>1, <2>2, <2>4
<1>6. ASSUME NEW k \in 1..c PROVE v[k] = {o[at[k]]} /\ at[k] \in B
  BY <1>2
<1>7. u \in Seq(SUBSET active) /\ Len(u) = m /\ v \in Seq(SUBSET active) /\ Len(v) = c
  <2>1. DOMAIN u = 1..m /\ DOMAIN v = 1..c
    BY <1>1, <1>2
  <2>2. u \in [1..m -> SUBSET active]
    <3>1. \A i \in 1..m : u[i] \in SUBSET active
      <4> HIDE DEF u
      <4> QED BY <1>4, <1>5
    <3> QED BY <2>1, <3>1
  <2>3. v \in [1..c -> SUBSET active]
    <3>1. \A k \in 1..c : v[k] \in SUBSET active
      <4>1. \A k \in 1..c : o[at[k]] \in active
        BY <1>4, <1>6
      <4> HIDE DEF v
      <4> QED BY <1>6, <4>1
    <3> QED BY <2>1, <3>1
  <2> HIDE DEF u, v
  <2> QED BY <2>2, <2>3
<1> HIDE DEF u, v
<1>8. b \in [1..(m + c) -> SUBSET active] /\ DOMAIN b = 1..(m + c)
  <2>1. b \in Seq(SUBSET active) /\ Len(b) = m + c
    BY <1>7, Concat
  <2> HIDE DEF b
  <2> QED BY <2>1
<1>9. ASSUME NEW i \in 1..(m + c) PROVE b[i] = IF i <= m THEN u[i] ELSE v[i - m]
  BY <1>7, Concat
<1> HIDE DEF b
<1>10. ASSUME NEW i \in 1..m PROVE i \in DOMAIN b /\ b[i] = u[i]
  <2>1. i \in 1..(m + c) /\ i <= m
    OBVIOUS
  <2> QED BY <1>8, <1>9, <2>1
<1>11. ASSUME NEW k \in 1..c PROVE m + k \in DOMAIN b /\ b[m + k] = v[k]
  <2>1. m + k \in 1..(m + c) /\ ~(m + k <= m) /\ (m + k) - m = k
    OBVIOUS
  <2> QED BY <1>8, <1>9, <2>1
<1>12. ASSUME NEW i \in DOMAIN b PROVE i \in 1..m \/ \E k \in 1..c : i = m + k
  <2>1. i \in 1..(m + c)
    BY <1>8
  <2>2. ~(i \in 1..m) => i - m \in 1..c /\ i = m + (i - m)
    BY ONLY <2>1, m \in Nat, c \in Nat
  <2> QED BY <2>2
<1>13. \A i \in DOMAIN b : b[i] # {}
  <2>1. ASSUME NEW i \in 1..m PROVE b[i] # {}
    BY <1>5, <1>10
  <2>2. ASSUME NEW k \in 1..c PROVE b[m + k] # {}
    BY <1>6, <1>11
  <2> QED BY <1>12, <2>1, <2>2
<1>14. ASSUME NEW i \in DOMAIN b, NEW j \in DOMAIN b, NEW p \in b[i], p \in b[j] PROVE i = j
  <2>1. CASE i \in 1..m /\ j \in 1..m
    <3>1. p \in u[i] /\ p \in u[j]
      BY <1>10, <1>14, <2>1
    <3>a. u[i] = {pods[i][x] : x \in 1..sizes[i]} /\ u[j] = {pods[j][y] : y \in 1..sizes[j]}
      BY <1>5, <2>1
    <3>2. PICK x \in 1..sizes[i] : p = pods[i][x]
      BY ONLY <3>a, <3>1
    <3>3. PICK y \in 1..sizes[j] : p = pods[j][y]
      BY ONLY <3>a, <3>1
    <3>4. pods[i][x] = pods[j][y] => i = j
      BY <1>1, <2>1
    <3> QED BY <3>2, <3>3, <3>4
  <2>2. ASSUME NEW h \in 1..m, NEW k \in 1..c, p \in b[h], p \in b[m + k] PROVE FALSE
    <3>1. p \in P
      BY <1>5, <1>10, <2>2
    <3>2. p = o[at[k]] /\ at[k] \in B
      BY <1>6, <1>11, <2>2
    <3> QED BY <1>4, <3>1, <3>2
  <2>3. ASSUME NEW k \in 1..c, NEW l \in 1..c, p \in b[m + k], p \in b[m + l] PROVE k = l
    <3>0. p \in v[k] /\ p \in v[l]
      BY <1>11, <2>3
    <3>1. p = o[at[k]] /\ at[k] \in B /\ p = o[at[l]] /\ at[l] \in B
      BY <1>6, <3>0
    <3>2. at[k] = at[l]
      BY <1>3, <3>1
    <3> QED BY <1>2, <3>2
  <2>4. CASE i \in 1..m /\ ~(j \in 1..m)
    BY <1>12, <1>14, <2>2, <2>4
  <2>5. CASE ~(i \in 1..m) /\ j \in 1..m
    BY <1>12, <1>14, <2>2, <2>5
  <2>6. CASE ~(i \in 1..m) /\ ~(j \in 1..m)
    <3>1. PICK k \in 1..c : i = m + k
      BY <1>12, <2>6
    <3>2. PICK l \in 1..c : j = m + l
      BY <1>12, <2>6
    <3>3. k = l
      BY <1>14, <2>3, <3>1, <3>2
    <3> QED BY <3>1, <3>2, <3>3
  <2> QED BY <2>1, <2>4, <2>5, <2>6
<1>15. ASSUME NEW k \in B PROVE \E i \in DOMAIN b : b[i] = {o[k]}
  <2>1. PICK l \in 1..c : at[l] = k
    BY <1>2
  <2>2. b[m + l] = {o[k]} /\ m + l \in DOMAIN b
    BY <1>6, <1>11, <2>1
  <2> QED BY <2>2
<1>16. ASSUME NEW p \in active PROVE \E i \in DOMAIN b : p \in b[i]
  <2>1. PICK k \in 1..n : o[k] = p
    BY <1>3
  <2>2. CASE k \in B
    BY <1>15, <2>1, <2>2
  <2>3. CASE k \notin B
    <3>1. p \in P
      BY <2>1, <2>3 DEF P
    <3>2. PICK i \in 1..m : \E x \in 1..sizes[i] : pods[i][x] = p
      BY <1>1, <3>1
    <3>3. p \in u[i]
      BY <1>5, <3>2
    <3> QED BY <1>10, <3>3
  <2> QED BY <2>2, <2>3
<1>17. ASSUME NEW i \in DOMAIN b, \E x : b[i] = {x} PROVE \E k \in B : b[i] = {o[k]}
  <2>1. ~(i \in 1..m)
    BY <1>5, <1>10, <1>17
  <2>2. PICK k \in 1..c : i = m + k
    BY <1>12, <2>1
  <2> QED BY <1>6, <1>11, <2>2, ZenonT(30)
<1>18. IsRound(b, active)
  <2>1. m + c \in Nat
    OBVIOUS
  <2> QED BY <1>8, <1>13, <1>14, <1>16, <2>1 DEF IsRound
<1>19. ByesAt(b, o, B)
  BY <1>15, <1>17 DEF ByesAt
<1> QED BY <1>18, <1>19 DEF InAll, b, u, v

\* Pods g of these sizes, before the exchanges, seat everybody but the byes.
SwissPods(o, n, m, sizes, g) ==
    /\ build_swiss_round(o) = InAll(repair_rematches(g), InOrder(o, ByePlaces(o, n)))
    /\ ByePlaces(o, n) \subseteq 1..n /\ Cardinality(ByePlaces(o, n)) \in Nat
    /\ m \in Nat /\ sizes \in [1..m -> Nat] /\ \A i \in 1..m : sizes[i] >= 2 /\ sizes[i] <= format.arity
    /\ Table(g, sizes, At(o, (1..n) \ ByePlaces(o, n)))
    /\ format.arity = 2 => 2 * m <= n

\* The byes are chosen and the greedy pass seats the others.
LEMMA SwissSeats ==
    ASSUME format.arity \in 2..128, NEW n \in Nat, NEW o, Lists(o, n), Len(o) = n
    PROVE  \E m, sizes, g : SwissPods(o, n, m, sizes, g)
<1> DEFINE a == format.arity
           part == partition_round(n)
           byes == ByePlaces(o, n)
           shorts == select_fair((1..n) \ byes, part.short * (a - 1), {i \in 1..n : ~had_short_pod(o[i])})
           I == (1..n) \ (byes \cup shorts)
           sizes == [i \in 1..(part.full + part.short) |-> IF i <= part.full THEN a ELSE a - 1]
           order == InOrder(o, I) \o InOrder(o, shorts)
           P == At(o, (1..n) \ byes)
<1>0. DOMAIN o = 1..n
  BY DEF Lists
<1>1. build_swiss_round(o) = InAll(repair_rematches(greedy_assign(order, sizes)), InOrder(o, byes))
  BY <1>0 DEF build_swiss_round, ByePlaces, InAll
<1>2. /\ part.byes \in 0..n /\ part.short \in Nat /\ part.full \in Nat
      /\ part.full * a + part.short * (a - 1) = n - part.byes
      /\ part.short # 0 => a > 2
  BY PartitionSum
<1>3. a \in Nat \ {0, 1}
  BY ONLY format.arity \in 2..128
<1>4. byes \subseteq 1..n /\ Cardinality(byes) = part.byes
  <2>1. 1..n \in SUBSET (1..n) /\ Cardinality(1..n) = n
    BY FS_Interval
  <2> DEFINE c == part.byes
             fresh == {i \in 1..n : ~had_bye(o[i])}
  <2>3. byes = select_fair(1..n, c, fresh)
    BY DEF ByePlaces
  <2>2. c \in Nat /\ c <= Cardinality(1..n)
    BY <1>2, <2>1
  <2> HIDE DEF c, fresh, byes
  <2>4. select_fair(1..n, c, fresh) \subseteq 1..n /\ Cardinality(select_fair(1..n, c, fresh)) = c
    BY ONLY n \in Nat, <2>1, <2>2, FairChoice
  <2> QED BY <2>3, <2>4 DEF c
<1> HIDE DEF part, a, byes
<1>5. shorts \subseteq (1..n) \ byes
  BY FairWithin
<1> HIDE DEF shorts
<1>6. I \in SUBSET (1..n) /\ shorts \in SUBSET (1..n) /\ I \cap shorts = {} /\ I \cup shorts = (1..n) \ byes
  BY <1>4, <1>5
<1> HIDE DEF I
<1>7. Cardinality((1..n) \ byes) = n - part.byes
  <2>1. IsFiniteSet(1..n) /\ Cardinality(1..n) = n
    BY FS_Interval
  <2>2. Cardinality((1..n) \ byes) = n - Cardinality((1..n) \cap byes)
    BY <2>1, FS_Difference
  <2>3. (1..n) \cap byes = byes
    BY <1>4
  <2> QED BY <1>4, <2>2, <2>3
<1>8. /\ order \in Seq(P) /\ Len(order) = n - part.byes
      /\ \A c, d \in 1..Len(order) : order[c] = order[d] => c = d
      /\ \A p \in P : \E c \in 1..Len(order) : order[c] = p
  <2>1. \A i, j \in 1..n : o[i] = o[j] => i = j
    BY DEF Lists
  <2>2. Lined(order, At(o, I \cup shorts), Cardinality(I \cup shorts))
    BY <1>6, <2>1, OrderOf
  <2> HIDE DEF order
  <2>3. Lined(order, P, n - part.byes)
    BY <1>6, <1>7, <2>2
  <2> QED BY <2>3 DEF Lined
<1> DEFINE m == part.full + part.short
<1>9. m \in Nat /\ sizes \in [1..m -> Nat] /\ \A i \in 1..m : sizes[i] >= 2 /\ sizes[i] <= a
  <2>1. m \in Nat
    BY <1>2
  <2>2. ASSUME NEW i \in 1..m PROVE sizes[i] \in Nat /\ sizes[i] >= 2 /\ sizes[i] <= a
    <3>1. CASE i <= part.full
      BY <1>3, <3>1
    <3>2. CASE ~(i <= part.full)
      <4>1. a > 2
        BY <1>2, <3>2
      <4> QED BY <1>3, <3>2, <4>1
    <3> QED BY <3>1, <3>2
  <2> QED BY <2>1, <2>2
<1>10. IsFiniteSet(Slots(sizes)) /\ Cardinality(Slots(sizes)) = part.full * a + part.short * (a - 1)
  <2>1. a \in Nat \ {0} /\ part.full \in Nat /\ part.short \in Nat
    BY <1>2, <1>3
  <2> QED BY <2>1, SlotCount
<1> HIDE DEF sizes, order, P, m
<1>11. Cardinality(Slots(sizes)) = Len(order)
  BY <1>2, <1>8, <1>10
<1>12. Table(greedy_assign(order, sizes), sizes, P)
  BY <1>8, <1>9, <1>10, <1>11, GreedyFills
<1>13. Cardinality(byes) \in Nat
  BY <1>2, <1>4
<1>14. a = 2 => 2 * m <= n
  <2>1. ASSUME a = 2 PROVE 2 * m <= n
    <3>1. part.short = 0
      BY <1>2, <2>1
    <3>2. part.full * 2 = n - part.byes /\ m = part.full
      BY <1>2, <2>1, <3>1 DEF m
    <3> QED BY <1>2, <3>2
  <2> QED BY <2>1
<1> DEFINE g == greedy_assign(order, sizes)
<1>15. build_swiss_round(o) = InAll(repair_rematches(g), InOrder(o, byes))
  BY <1>1
<1>16. Table(g, sizes, At(o, (1..n) \ byes))
  BY <1>12 DEF P
<1> HIDE DEF g
<1>17. SwissPods(o, n, m, sizes, g)
  BY <1>4, <1>9, <1>13, <1>14, <1>15, <1>16 DEF SwissPods, byes, a
<1> QED BY <1>17

\* A Swiss round seats everybody who is in the event once, and the byes are
\* the places that were chosen for them.
LEMMA SwissRound ==
    ASSUME format.arity \in 2..128, NEW n \in Nat, NEW o, Lists(o, n), Len(o) = n
    PROVE  IsRound(build_swiss_round(o), active) /\ ByesAt(build_swiss_round(o), o, ByePlaces(o, n))
<1> DEFINE byes == ByePlaces(o, n)
           bye == InOrder(o, byes)
<1>1. PICK m, sizes, g : SwissPods(o, n, m, sizes, g)
  BY SwissSeats
<1> DEFINE pods == repair_rematches(g)
<1>2. /\ build_swiss_round(o) = InAll(pods, bye) /\ byes \in SUBSET (1..n) /\ Cardinality(byes) \in Nat
      /\ m \in Nat /\ sizes \in [1..m -> Nat] /\ \A i \in 1..m : sizes[i] >= 2 /\ sizes[i] <= format.arity
      /\ Table(g, sizes, At(o, (1..n) \ byes))
  BY <1>1 DEF SwissPods
<1>3. format.arity \in Nat
  BY ONLY format.arity \in 2..128
<1> HIDE DEF byes
<1>4. Table(pods, sizes, At(o, (1..n) \ byes))
  BY <1>2, <1>3, RepairKeeps
<1>5. PICK at : Reads(bye, at, o, byes, Cardinality(byes))
  BY <1>2, InOrderIs
<1> HIDE DEF pods, bye
<1>6. IsRound(InAll(pods, bye), active) /\ ByesAt(InAll(pods, bye), o, byes)
  BY <1>2, <1>4, <1>5, PodsAndByes
<1> QED BY <1>2, <1>6 DEF byes
-----------------------------------------------------------------------------
(* The inductive invariant. *)

Outcomes == {Pending, Bye, Draw} \cup {Outcome(kind, w) : kind \in {"Reported", "Forfeit"}, w \in Players}
IsPairing == [round : Nat, players : SUBSET Players, host : Nat, outcome : Outcomes]

TypeInv ==
    /\ format \in Formats /\ joined \in SUBSET Players /\ dropped \in SUBSET Players
    /\ current_round \in Nat /\ pairings \in Seq(IsPairing)

\* A pairing is of players who joined, in a round that was started.
PairingsInv ==
    \A i \in Ids : /\ pairings[i].players # {} /\ pairings[i].players \subseteq joined
                   /\ pairings[i].round <= current_round

\* Whoever is still needed to decide a Swiss pairing is there.
SwissInv == Swiss => \A i \in Ids : pairings[i].outcome = Pending => Cardinality(pairings[i].players \cap active) >= 2

InRound(r) == {i \in Ids : pairings[i].round = r}

\* A bracket has no draws, each of its pairings is won by one of its players,
\* nobody is in two pairings of a round, and the last round has one, two or
\* four of them.
BracketInv ==
    ~Swiss =>
        /\ \A i \in Ids : \/ pairings[i].outcome \in {Pending, Bye}
                          \/ pairings[i].outcome # Draw /\ pairings[i].outcome.winner \in pairings[i].players
        /\ \A i, j \in Ids : pairings[i].round = pairings[j].round =>
              \A p \in pairings[i].players : p \in pairings[j].players => i = j
        /\ current_round # 0 => Cardinality(InRound(current_round)) \in {1, 2, 4}

RoundsInv == TypeInv /\ PairingsInv /\ SwissInv /\ BracketInv

-----------------------------------------------------------------------------
(* What a round adds to the history. *)

Paired(b, r) == [i \in DOMAIN b |->
                    [round |-> r, players |-> b[i], host |-> 0,
                     outcome |-> IF Cardinality(b[i]) = 1 THEN Bye ELSE Pending]]

\* Its pairings follow those there were.
Follows(new, old, b, r) ==
    /\ new \in Seq(IsPairing) /\ Len(new) = Len(old) + Len(b)
    /\ \A i \in DOMAIN old : i \in DOMAIN new /\ new[i] = old[i]
    /\ \A i \in DOMAIN b : Len(old) + i \in DOMAIN new /\ new[Len(old) + i] = Paired(b, r)[i]
    /\ \A i \in DOMAIN new : i \in DOMAIN old \/ \E j \in DOMAIN b : i = Len(old) + j

\* A round put at the end of the history does.
LEMMA Appended ==
    ASSUME NEW old \in Seq(IsPairing), NEW r \in Nat, NEW b, NEW field, field \subseteq Players, IsRound(b, field)
    PROVE  Follows(old \o Paired(b, r), old, b, r)
<1> DEFINE v == Paired(b, r)
           l == Len(old)
           new == old \o v
<1>1. PICK m \in Nat : b \in [1..m -> SUBSET field]
  BY DEF IsRound
<1>2. ASSUME NEW i \in 1..m PROVE v[i] \in IsPairing
  <2>1. b[i] \subseteq Players /\ i \in DOMAIN b
    BY <1>1
  <2> DEFINE out == IF Cardinality(b[i]) = 1 THEN Bye ELSE Pending
  <2>2. v[i] = [round |-> r, players |-> b[i], host |-> 0, outcome |-> out]
    BY <2>1 DEF Paired
  <2>3. out \in Outcomes
    BY DEF Outcomes
  <2> HIDE DEF out, v
  <2> QED BY <2>1, <2>2, <2>3 DEF IsPairing
<1>3. v \in [1..m -> IsPairing]
  <2>1. DOMAIN v = 1..m /\ v = [i \in 1..m |-> v[i]]
    BY <1>1 DEF Paired
  <2> HIDE DEF v
  <2> QED BY <1>2, <2>1
<1> HIDE DEF v
<1>4. v \in Seq(IsPairing) /\ Len(v) = m /\ DOMAIN b = 1..m /\ Len(b) = m
  <2>1. v \in Seq(IsPairing) /\ Len(v) = m
    BY <1>3
  <2>2. DOMAIN b = 1..m
    BY <1>1
  <2>3. Len(b) = m
    BY <1>1
  <2> QED BY <2>1, <2>2, <2>3
<1>5. l \in Nat /\ DOMAIN old = 1..l
  OBVIOUS
<1>6. new \in Seq(IsPairing) /\ Len(new) = l + m /\ \A i \in 1..(l + m) : new[i] = IF i <= l THEN old[i] ELSE v[i - l]
  BY <1>4, Concat, ZenonT(30)
<1> HIDE DEF new, l
<1>7. DOMAIN new = 1..(l + m)
  BY <1>6
<1>8. ASSUME NEW i \in 1..l PROVE i \in 1..(l + m) /\ new[i] = old[i]
  <2>1. i \in 1..(l + m) /\ i <= l
    BY <1>5
  <2> QED BY <1>6, <2>1
<1>9. ASSUME NEW i \in 1..m PROVE l + i \in 1..(l + m) /\ new[l + i] = v[i]
  <2>1. l + i \in 1..(l + m) /\ ~(l + i <= l) /\ (l + i) - l = i
    BY <1>5
  <2> QED BY <1>6, <2>1
<1>10. ASSUME NEW i \in 1..(l + m) PROVE i \in 1..l \/ \E j \in 1..m : i = l + j
  <2>1. ~(i \in 1..l) => i - l \in 1..m /\ i = l + (i - l)
    BY <1>5
  <2> QED BY <2>1
<1>11. Follows(new, old, b, r)
  BY <1>4, <1>5, <1>6, <1>7, <1>8, <1>9, <1>10 DEF Follows, v, l
<1> QED BY <1>11 DEF new, v

\* Its pairings seat the field, and everybody once.
LEMMA SeatsField ==
    ASSUME NEW old \in Seq(IsPairing), NEW new, NEW r, NEW b, NEW field, IsRound(b, field), Follows(new, old, b, r)
    PROVE  LET ids == (Len(old) + 1)..Len(new)
           IN  /\ UNION {new[i].players : i \in ids} = field
               /\ \A p \in field : Cardinality({i \in ids : p \in new[i].players}) = 1
<1> DEFINE l == Len(old)
           ids == (l + 1)..Len(new)
<1>1. PICK m \in Nat : b \in [1..m -> SUBSET field]
  BY DEF IsRound
<1>2. DOMAIN b = 1..m /\ Len(b) = m /\ l \in Nat
  BY <1>1
<1> HIDE DEF l
<1>3. ids = (l + 1)..(l + m)
  BY <1>2 DEF Follows, l
<1> HIDE DEF ids
<1>4. ASSUME NEW j \in 1..m PROVE l + j \in ids /\ new[l + j].players = b[j]
  <2>1. l + j \in ids
    BY <1>2, <1>3
  <2>2. new[l + j] = Paired(b, r)[j]
    BY <1>2 DEF Follows, l
  <2> QED BY <1>2, <2>1, <2>2 DEF Paired
<1>5. ASSUME NEW i \in ids PROVE \E j \in 1..m : i = l + j
  <2>1. i - l \in 1..m /\ i = l + (i - l)
    BY <1>2, <1>3
  <2> QED BY <2>1
<1>6. \A i, j \in 1..m : \A p \in b[i] : p \in b[j] => i = j
  BY <1>2 DEF IsRound
<1>7. \A p \in field : \E i \in 1..m : p \in b[i]
  BY <1>2 DEF IsRound
<1>8. UNION {new[i].players : i \in ids} = field
  <2>1. ASSUME NEW i \in ids PROVE new[i].players \subseteq field
    BY <1>1, <1>4, <1>5
  <2>2. ASSUME NEW p \in field PROVE \E i \in ids : p \in new[i].players
    BY <1>4, <1>7
  <2> QED BY <2>1, <2>2
<1>9. ASSUME NEW p \in field PROVE Cardinality({i \in ids : p \in new[i].players}) = 1
  <2>1. PICK j \in 1..m : p \in b[j]
    BY <1>7
  <2>2. l + j \in ids /\ p \in new[l + j].players
    BY <1>4, <2>1
  <2>3. ASSUME NEW i \in ids, p \in new[i].players PROVE i = l + j
    <3>1. PICK k \in 1..m : i = l + k
      BY <1>5
    <3>2. p \in b[k]
      BY <1>4, <2>3, <3>1
    <3>3. k = j
      BY <1>6, <2>1, <3>2
    <3> QED BY <3>1, <3>3
  <2>4. {i \in ids : p \in new[i].players} = {l + j}
    BY <2>2, <2>3
  <2> QED BY <2>4, FS_Singleton
<1> QED BY <1>8, <1>9 DEF ids, l
-----------------------------------------------------------------------------
(* A round of a bracket. *)

\* The first: seeds meet from the ends.
FirstRound(o, h, n) == [i \in 1..h |-> IF 2 * h + 1 - i <= n THEN {o[i], o[2 * h + 1 - i]} ELSE {o[i]}]

\* With more than half of the slots taken everybody is in it once.
LEMMA FirstRoundSeats ==
    ASSUME NEW h \in Nat, NEW n \in Nat, h < n, n <= 2 * h, NEW o, Lists(o, n)
    PROVE  IsRound(FirstRound(o, h, n), active)
<1> DEFINE b == FirstRound(o, h, n)
<1>1. /\ (\A i \in 1..n : o[i] \in active) /\ \A i, j \in 1..n : o[i] = o[j] => i = j
      /\ \A p \in active : \E i \in 1..n : o[i] = p
  BY DEF Lists
<1>2. DOMAIN b = 1..h
  BY DEF FirstRound
<1>3. ASSUME NEW i \in 1..h
      PROVE  /\ i \in 1..n /\ o[i] \in b[i]
             /\ 2 * h + 1 - i <= n => 2 * h + 1 - i \in 1..n /\ o[2 * h + 1 - i] \in b[i]
             /\ \A p \in b[i] : p = o[i] \/ (2 * h + 1 - i \in 1..n /\ p = o[2 * h + 1 - i])
  <2>1. i \in 1..n /\ (2 * h + 1 - i <= n => 2 * h + 1 - i \in 1..n)
    OBVIOUS
  <2>2. b[i] = IF 2 * h + 1 - i <= n THEN {o[i], o[2 * h + 1 - i]} ELSE {o[i]}
    BY DEF FirstRound
  <2> HIDE DEF b
  <2> QED BY <2>1, <2>2
<1> HIDE DEF b
<1>4. ASSUME NEW i \in 1..h PROVE b[i] \in SUBSET active /\ b[i] # {}
  BY <1>1, <1>3
<1>5. ASSUME NEW i \in 1..h, NEW j \in 1..h, NEW p \in b[i], p \in b[j] PROVE i = j
  <2>1. PICK x \in 1..n : p = o[x] /\ (x = i \/ x = 2 * h + 1 - i)
    BY <1>3
  <2>2. PICK y \in 1..n : p = o[y] /\ (y = j \/ y = 2 * h + 1 - j)
    BY <1>3, <1>5
  <2>3. x = y
    BY <1>1, <2>1, <2>2
  <2> QED BY <2>1, <2>2, <2>3
<1>6. ASSUME NEW p \in active PROVE \E i \in 1..h : p \in b[i]
  <2>1. PICK k \in 1..n : o[k] = p
    BY <1>1
  <2>2. CASE k <= h
    <3>1. k \in 1..h
      BY <2>2
    <3> QED BY <1>3, <2>1, <3>1
  <2>3. CASE ~(k <= h)
    <3> DEFINE i == 2 * h + 1 - k
    <3>1. i \in 1..h /\ 2 * h + 1 - i = k /\ k <= n
      BY <2>3
    <3> HIDE DEF i
    <3> QED BY <1>3, <2>1, <3>1
  <2> QED BY <2>2, <2>3
<1>7. b \in [1..h -> SUBSET active]
  <2>1. b = [i \in 1..h |-> b[i]]
    BY DEF b, FirstRound
  <2> QED BY <1>4, <2>1
<1> QED BY <1>2, <1>4, <1>5, <1>6, <1>7 DEF IsRound, b

\* The later ones: neighbours meet.
NextRound(w, h) == [i \in 1..h |-> {w[2 * i - 1], w[2 * i]}]

\* Everybody who won is in it once.
LEMMA NextRoundSeats ==
    ASSUME NEW h \in Nat, NEW w, \A i, j \in 1..(2 * h) : w[i] = w[j] => i = j
    PROVE  IsRound(NextRound(w, h), {w[i] : i \in 1..(2 * h)})
<1> DEFINE b == NextRound(w, h)
           W == {w[i] : i \in 1..(2 * h)}
<1>1. DOMAIN b = 1..h /\ \A i \in 1..h : b[i] = {w[2 * i - 1], w[2 * i]}
  BY DEF NextRound
<1>2. \A i \in 1..h : 2 * i - 1 \in 1..(2 * h) /\ 2 * i \in 1..(2 * h)
  OBVIOUS
<1>3. b = [i \in 1..h |-> b[i]]
  BY DEF NextRound
<1> HIDE DEF b
<1>4. ASSUME NEW i \in 1..h PROVE b[i] \in SUBSET W /\ b[i] # {}
  <2>1. w[2 * i - 1] \in W /\ w[2 * i] \in W
    BY <1>2
  <2>2. b[i] = {w[2 * i - 1], w[2 * i]}
    BY <1>1
  <2> HIDE DEF W
  <2> QED BY ONLY <2>1, <2>2
<1>5. ASSUME NEW i \in 1..h, NEW j \in 1..h, NEW p \in b[i], p \in b[j] PROVE i = j
  <2>1. PICK x \in 1..(2 * h) : p = w[x] /\ (x = 2 * i - 1 \/ x = 2 * i)
    BY <1>1, <1>2
  <2>2. PICK y \in 1..(2 * h) : p = w[y] /\ (y = 2 * j - 1 \/ y = 2 * j)
    BY <1>1, <1>2, <1>5
  <2>3. x = y
    BY <2>1, <2>2
  <2> QED BY <2>1, <2>2, <2>3
<1>6. ASSUME NEW p \in W PROVE \E i \in 1..h : p \in b[i]
  <2>1. PICK k \in 1..(2 * h) : p = w[k]
    OBVIOUS
  <2>2. \E i \in 1..h : k = 2 * i - 1 \/ k = 2 * i
    <3>0. k \in Nat
      OBVIOUS
    <3>1. k % 2 = 0 \/ k % 2 = 1
      BY ONLY <3>0
    <3>3. CASE k % 2 = 0
      <4> DEFINE d == k \div 2
      <4>1. d \in Nat /\ d * 2 = k
        BY <3>0, <3>3, Divides
      <4> HIDE DEF d
      <4>2. d \in 1..h /\ k = 2 * d
        BY <4>1
      <4> QED BY <4>2
    <3>4. CASE k % 2 = 1
      <4> DEFINE d == (k + 1) \div 2
      <4>0. (k + 1) % 2 = 0 /\ k + 1 \in Nat
        BY ONLY <3>0, <3>4
      <4>1. d \in Nat /\ d * 2 = k + 1
        BY <4>0, Divides
      <4> HIDE DEF d
      <4>2. d \in 1..h /\ k = 2 * d - 1
        BY <4>1
      <4> QED BY <4>2
    <3> QED BY <3>1, <3>3, <3>4
  <2> QED BY <1>1, <2>1, <2>2
<1> HIDE DEF W
<1>7. b \in [1..h -> SUBSET W]
  BY <1>3, <1>4
<1>8. IsRound(b, W)
  BY <1>1, <1>4, <1>5, <1>6, <1>7 DEF IsRound
<1> QED BY <1>8 DEF b, W

\* A pairing of a bracket that is decided was won by one of its players.
LEMMA WinnerPlays ==
    ASSUME PairingsInv, BracketInv, ~Swiss, NEW i \in Ids, pairings[i].outcome # Pending
    PROVE  Winner(pairings[i]) \in pairings[i].players
<1>1. pairings[i].players # {}
  BY DEF PairingsInv
<1>2. \/ pairings[i].outcome = Bye
      \/ pairings[i].outcome # Bye /\ pairings[i].outcome.winner \in pairings[i].players
  <2>1. pairings[i].outcome \in {Pending, Bye} \/ pairings[i].outcome.winner \in pairings[i].players
    BY DEF BracketInv
  <2> QED BY <2>1
<1> QED BY <1>1, <1>2 DEF Winner

\* Who is to play in the next round.
Field ==
    IF Swiss \/ current_round = 0 THEN active
    ELSE {Winner(Round(current_round)[i]) : i \in DOMAIN Round(current_round)}

\* The bracket's first round has fewer slots than twice its players.
LEMMA BracketSlots ==
    ASSUME NEW n \in 2..8
    PROVE  \E h \in {1, 2, 4} : Min({s \in {2, 4, 8} : s >= n}) = 2 * h /\ (2 * h) \div 2 = h /\ h < n /\ n <= 2 * h
<1> DEFINE S == {s \in {2, 4, 8} : s >= n}
<1>1. S \subseteq Nat /\ 8 \in S
  OBVIOUS
<1>2. Min(S) \in S /\ \A y \in S : Min(S) <= y
  BY <1>1, MinIn
<1>3. (2 >= n => 2 \in S) /\ (4 >= n => 4 \in S)
  OBVIOUS
<1>4. Min(S) \in {2, 4, 8} /\ Min(S) >= n
  BY <1>2
<1> DEFINE m == Min(S)
<1>5. \A y \in S : m <= y
  BY <1>2
<1> HIDE DEF S, m
<1>6. CASE m = 2
  BY <1>4, <1>6 DEF m, S
<1>7. CASE m = 4
  <2>1. ~(2 >= n)
    BY <1>3, <1>5, <1>7
  <2>2. Min({s \in {2, 4, 8} : s >= n}) = 2 * 2 /\ (2 * 2) \div 2 = 2 /\ 2 < n /\ n <= 2 * 2
    BY <1>4, <1>7, <2>1 DEF m, S
  <2> QED BY <2>2
<1>8. CASE m = 8
  <2>1. ~(4 >= n)
    BY <1>3, <1>5, <1>8
  <2>2. Min({s \in {2, 4, 8} : s >= n}) = 2 * 4 /\ (2 * 4) \div 2 = 4 /\ 4 < n /\ n <= 2 * 4
    BY <1>4, <1>8, <2>1 DEF m, S
  <2> QED BY <2>2
<1> QED BY <1>4, <1>6, <1>7, <1>8 DEF m

\* A round of a bracket seats whoever is to play in it once.
LEMMA BracketRound ==
    ASSUME TypeInv, PairingsInv, BracketInv, ~Swiss, Unresolved = {},
           NEW n \in Nat, NEW o, Lists(o, n), Len(o) = n, build_single_elimination_round(o) # << >>
    PROVE  /\ IsRound(build_single_elimination_round(o), Field)
           /\ Len(build_single_elimination_round(o)) \in {1, 2, 4}
<1> DEFINE b == build_single_elimination_round(o)
<1>1. CASE current_round = 0
  <2>1. n \in 2..8
    BY <1>1 DEF build_single_elimination_round
  <2>2. PICK h \in {1, 2, 4} :
           Min({s \in {2, 4, 8} : s >= n}) = 2 * h /\ (2 * h) \div 2 = h /\ h < n /\ n <= 2 * h
    BY <2>1, BracketSlots
  <2>3. b = FirstRound(o, h, n)
    BY <1>1, <2>1, <2>2 DEF build_single_elimination_round, FirstRound
  <2>4. h \in Nat
    OBVIOUS
  <2>5. IsRound(FirstRound(o, h, n), active)
    BY <2>2, <2>4, FirstRoundSeats
  <2>6. Len(FirstRound(o, h, n)) = h
    BY <2>4 DEF FirstRound
  <2>7. Field = active
    BY <1>1 DEF Field
  <2> QED BY <2>3, <2>5, <2>6, <2>7
<1>2. CASE current_round # 0
  <2> DEFINE X == InRound(current_round)
             c == Cardinality(X)
             q == Round(current_round)
  <2>1. X \in SUBSET (1..Len(pairings)) /\ Len(pairings) \in Nat /\ Ids = 1..Len(pairings)
    BY DEF InRound, Ids, TypeInv
  <2>2. PICK at : Reads(q, at, pairings, X, c)
    BY <2>1, InOrderIs DEF Round, InRound
  <2>3. c \in {1, 2, 4}
    BY <1>2 DEF BracketInv
  <2>3a. \A x \in X : x \in Ids /\ pairings[x].round = current_round
    BY DEF InRound
  <2> HIDE DEF c, X, q
  <2>4. /\ DOMAIN q = 1..c /\ Len(q) = c
        /\ \A k \in 1..c : at[k] \in X /\ q[k] = pairings[at[k]]
        /\ \A k, l \in 1..c : at[k] = at[l] => k = l
    BY <2>2, <2>3 DEF Reads
  <2> DEFINE w == [k \in 1..c |-> Winner(q[k])]
  <2>5. ASSUME NEW k \in 1..c PROVE at[k] \in Ids /\ w[k] \in pairings[at[k]].players
    <3>1. at[k] \in Ids /\ q[k] = pairings[at[k]]
      BY <2>3a, <2>4
    <3>2. pairings[at[k]].outcome # Pending
      BY <3>1 DEF Unresolved
    <3>3. Winner(pairings[at[k]]) \in pairings[at[k]].players
      BY <3>1, <3>2, WinnerPlays
    <3> QED BY <3>1, <3>3
  <2>6. ASSUME NEW k \in 1..c, NEW l \in 1..c, w[k] = w[l] PROVE k = l
    <3>1. pairings[at[k]].round = pairings[at[l]].round
      BY <2>3a, <2>4
    <3>2. \A p \in pairings[at[k]].players : p \in pairings[at[l]].players => at[k] = at[l]
      BY <2>5, <3>1 DEF BracketInv
    <3>3. at[k] = at[l]
      BY <2>5, <2>6, <3>2
    <3> QED BY <2>4, <3>3
  <2>7. ~(c < 2)
    BY <1>2, <2>4 DEF build_single_elimination_round, q
  <2> DEFINE h == c \div 2
  <2>8. h \in {1, 2} /\ c = 2 * h
    BY <2>3, <2>7
  <2>9. b = [i \in 1..h |-> {Winner(q[2 * i - 1]), Winner(q[2 * i])}]
    BY <1>2, <2>4, <2>7 DEF build_single_elimination_round, q
  <2> HIDE DEF h
  <2>10. b = NextRound(w, h)
    <3>1. \A i \in 1..h : 2 * i - 1 \in 1..c /\ 2 * i \in 1..c
      BY <2>8
    <3>2. \A i \in 1..h : {Winner(q[2 * i - 1]), Winner(q[2 * i])} = {w[2 * i - 1], w[2 * i]}
      BY <3>1
    <3> HIDE DEF w, b
    <3> QED BY <2>9, <3>2 DEF NextRound
  <2>11. Field = {w[i] : i \in 1..c}
    BY <1>2, <2>4 DEF Field, q
  <2> HIDE DEF w, b
  <2>12. h \in Nat /\ \A i, j \in 1..(2 * h) : w[i] = w[j] => i = j
    BY <2>6, <2>8
  <2>13. IsRound(NextRound(w, h), {w[i] : i \in 1..(2 * h)})
    BY <2>12, NextRoundSeats
  <2>14. Len(NextRound(w, h)) = h
    BY <2>12 DEF NextRound
  <2>15. IsRound(b, Field)
    BY <2>8, <2>10, <2>11, <2>13
  <2> QED BY <2>8, <2>10, <2>14, <2>15 DEF b
<1> QED BY <1>1, <1>2
-----------------------------------------------------------------------------
(* The invariant holds. *)

\* There are finitely many players to seat.
LEMMA ActiveFinite ==
    ASSUME TypeInv
    PROVE  /\ active \subseteq joined /\ joined \subseteq Players
           /\ \A S \in SUBSET Players : IsFiniteSet(S) /\ Cardinality(S) \in Nat
           /\ format.arity \in 2..128 /\ (~Swiss => format.bracket = "SingleElimination")
<1>1. active \subseteq joined /\ joined \subseteq Players
  BY DEF active, TypeInv
<1>2. ASSUME NEW S \in SUBSET Players PROVE IsFiniteSet(S) /\ Cardinality(S) \in Nat
  BY RoundsConstants, FS_Subset, FS_CardinalityType
<1>3. format.arity \in 2..128 /\ (~Swiss => format.bracket = "SingleElimination")
  BY RoundsConstants DEF TypeInv, Swiss
<1> QED BY <1>1, <1>2, <1>3

\* A pairing, and its round.
LEMMA PairingIs ==
    ASSUME TypeInv, PairingsInv, NEW i \in Ids
    PROVE  /\ pairings[i] \in IsPairing
           /\ pairings[i].round \in Nat /\ pairings[i].round <= current_round
<1>1. pairings[i] \in IsPairing
  <2>1. pairings \in Seq(IsPairing) /\ i \in DOMAIN pairings
    BY DEF TypeInv, Ids
  <2> QED BY ONLY <2>1
<1>2. pairings[i].round <= current_round
  BY DEF PairingsInv
<1> QED BY <1>1, <1>2 DEF IsPairing

\* What generate_pairings adds.
Adds(b, o) ==
    /\ IsRound(b, Field)
    /\ pairings' = pairings \o Paired(b, current_round + 1)
    /\ Swiss => ByesAt(b, o, ByePlaces(o, Cardinality(active)))
    /\ ~Swiss => Len(b) \in {1, 2, 4}

\* It adds a round that seats whoever is to play.
LEMMA RoundBuilt ==
    ASSUME RoundsInv, NEW o, StartRound(o)
    PROVE  \E b : Adds(b, o)
<1> DEFINE n == Cardinality(active)
           b == IF Swiss THEN build_swiss_round(o) ELSE build_single_elimination_round(o)
<1>1. MayStart /\ o \in Standings /\ (Swiss \/ b # << >>) /\ pairings' = pairings \o Paired(b, current_round + 1)
  BY DEF StartRound, Paired
<1>2. TypeInv /\ PairingsInv /\ SwissInv /\ BracketInv
  BY DEF RoundsInv
<1>3. active \in SUBSET Players /\ IsFiniteSet(active) /\ n \in Nat /\ format.arity \in 2..128
  BY <1>2, ActiveFinite
<1>4. Lists(o, n) /\ Len(o) = n
  BY <1>1, <1>3, StandingsList
<1> HIDE DEF n
<1>5. CASE Swiss
  <2>1. b = build_swiss_round(o) /\ Field = active
    BY <1>5 DEF Field
  <2>2. IsRound(build_swiss_round(o), active) /\ ByesAt(build_swiss_round(o), o, ByePlaces(o, n))
    BY <1>3, <1>4, SwissRound
  <2> HIDE DEF b
  <2>3. Adds(b, o)
    BY <1>1, <1>5, <2>1, <2>2 DEF Adds, n
  <2> QED BY <2>3
<1>6. CASE ~Swiss
  <2>1. b = build_single_elimination_round(o)
    BY <1>6
  <2> HIDE DEF b
  <2>2. Unresolved = {}
    BY <1>1 DEF MayStart
  <2>3. IsRound(b, Field) /\ Len(b) \in {1, 2, 4}
    BY <1>1, <1>2, <1>3, <1>4, <1>6, <2>1, <2>2, BracketRound
  <2>4. Adds(b, o)
    BY <1>1, <1>6, <2>3 DEF Adds
  <2> QED BY <2>4
<1> QED BY <1>5, <1>6

\* Whoever is to play joined.
LEMMA FieldJoined ==
    ASSUME RoundsInv, Unresolved = {}
    PROVE  Field \subseteq joined
<1>1. TypeInv /\ PairingsInv /\ BracketInv
  BY DEF RoundsInv
<1>2. CASE Swiss \/ current_round = 0
  BY <1>1, <1>2, ActiveFinite DEF Field
<1>3. CASE ~(Swiss \/ current_round = 0)
  <2> DEFINE X == InRound(current_round)
             c == Cardinality(X)
             q == Round(current_round)
  <2>1. X \in SUBSET (1..Len(pairings)) /\ Len(pairings) \in Nat
    BY <1>1 DEF InRound, Ids, TypeInv
  <2>2. PICK at : Reads(q, at, pairings, X, c)
    BY <2>1, InOrderIs DEF Round, InRound
  <2>3. \A x \in X : x \in Ids
    BY DEF InRound
  <2> HIDE DEF c, X, q
  <2>4. ASSUME NEW k \in DOMAIN q PROVE Winner(q[k]) \in joined
    <3>1. at[k] \in Ids /\ q[k] = pairings[at[k]]
      BY <2>2, <2>3 DEF Reads
    <3>2. Winner(pairings[at[k]]) \in pairings[at[k]].players
      BY <1>1, <1>3, <3>1, WinnerPlays DEF Unresolved
    <3> QED BY <1>1, <3>1, <3>2 DEF PairingsInv
  <2> QED BY <1>3, <2>4 DEF Field, q
<1> QED BY <1>2, <1>3

\* A round in which each pairing of one player is a bye leaves two or more to
\* each of the others.
LEMMA StartsKeep ==
    ASSUME RoundsInv, NEW o, StartRound(o)
    PROVE  RoundsInv'
<1> DEFINE l == Len(pairings)
           r == current_round + 1
<1>1. PICK b : Adds(b, o)
  BY RoundBuilt
<1>2. TypeInv /\ PairingsInv /\ SwissInv /\ BracketInv
  BY DEF RoundsInv
<1>3. Unresolved = {} /\ current_round' = r /\ UNCHANGED <<format, joined, dropped>>
  BY DEF StartRound, MayStart
<1>4. Field \subseteq joined /\ joined \subseteq Players
  BY <1>2, <1>3, FieldJoined, ActiveFinite
<1>5. pairings \in Seq(IsPairing) /\ current_round \in Nat /\ r \in Nat /\ l \in Nat /\ Ids = 1..l
  BY <1>2 DEF TypeInv, Ids
<1>6. IsRound(b, Field) /\ pairings' = pairings \o Paired(b, r)
  BY <1>1 DEF Adds
<1>7. Follows(pairings', pairings, b, r)
  <2>1. Field \subseteq Players
    BY <1>4
  <2>2. Follows(pairings \o Paired(b, r), pairings, b, r)
    BY <1>5, <1>6, <2>1, Appended
  <2> QED BY <1>6, <2>2
<1>8. PICK m \in Nat : b \in [1..m -> SUBSET Field]
  BY <1>6 DEF IsRound
<1>9. DOMAIN b = 1..m /\ Len(b) = m
  BY <1>8
<1> HIDE DEF l
<1>10. /\ pairings' \in Seq(IsPairing) /\ Len(pairings') = l + m
       /\ \A i \in Ids : i \in Ids' /\ pairings'[i] = pairings[i]
       /\ \A i \in 1..m : l + i \in Ids' /\ pairings'[l + i] = Paired(b, r)[i]
       /\ \A i \in Ids' : i \in Ids \/ \E j \in 1..m : i = l + j
  BY <1>7, <1>9 DEF Follows, Ids, l
<1>11. ASSUME NEW i \in 1..m
       PROVE  /\ pairings'[l + i].round = r /\ pairings'[l + i].players = b[i]
              /\ pairings'[l + i].outcome = IF Cardinality(b[i]) = 1 THEN Bye ELSE Pending
              /\ b[i] \subseteq Field /\ b[i] # {}
  <2>1. pairings'[l + i] = Paired(b, r)[i] /\ i \in DOMAIN b
    BY <1>9, <1>10
  <2>2. b[i] \subseteq Field /\ b[i] # {}
    BY <1>6, <1>8, <1>9 DEF IsRound
  <2> QED BY <2>1, <2>2 DEF Paired
<1> HIDE DEF r
<1>12. TypeInv'
  BY <1>2, <1>3, <1>5, <1>10 DEF TypeInv
<1>13. PairingsInv'
  <2>1. r = current_round + 1
    BY DEF r
  <2>2. ASSUME NEW i \in Ids PROVE pairings[i].round \in Nat /\ pairings[i].round <= r
    <3>1. pairings[i].round \in Nat /\ pairings[i].round <= current_round
      BY <1>2, PairingIs
    <3> QED BY <1>5, <2>1, <3>1
  <2>3. ASSUME NEW i \in Ids
        PROVE  /\ pairings'[i].players # {} /\ pairings'[i].players \subseteq joined'
               /\ pairings'[i].round <= current_round'
    <3>1. pairings'[i] = pairings[i] /\ joined' = joined /\ current_round' = r
      BY <1>3, <1>10
    <3>2. pairings[i].players # {} /\ pairings[i].players \subseteq joined
      BY <1>2 DEF PairingsInv
    <3> QED BY <2>2, <3>1, <3>2
  <2>4. ASSUME NEW i \in 1..m
        PROVE  /\ pairings'[l + i].players # {} /\ pairings'[l + i].players \subseteq joined'
               /\ pairings'[l + i].round <= current_round'
    <3>1. r <= r
      BY <1>5
    <3> QED BY <1>3, <1>4, <1>11, <3>1
  <2> QED BY <1>10, <2>3, <2>4 DEF PairingsInv
<1>14. SwissInv'
  <2>1. SUFFICES ASSUME Swiss', NEW i \in Ids', pairings'[i].outcome = Pending
                 PROVE  Cardinality(pairings'[i].players \cap active') >= 2
    BY DEF SwissInv
  <2>2. Swiss /\ active' = active /\ Field = active
    BY <1>3, <2>1 DEF Swiss, active, Field
  <2>3. i \notin Ids
    BY <1>3, <1>10, <2>1 DEF Unresolved
  <2>4. PICK j \in 1..m : i = l + j
    BY <1>10, <2>3
  <2>5. pairings'[i].players = b[j] /\ b[j] \subseteq active /\ b[j] # {}
    BY <1>11, <2>2, <2>4
  <2>6. Cardinality(b[j]) # 1
    BY <1>11, <2>1, <2>4 DEF Bye, Pending, Outcome
  <2>7. pairings'[i].players \cap active' = b[j]
    BY <2>2, <2>5
  <2>8. b[j] \in SUBSET Players
    BY <1>2, <2>5, ActiveFinite
  <2>9. Cardinality(b[j]) \in Nat /\ IsFiniteSet(b[j])
    BY <1>2, <2>8, ActiveFinite
  <2>10. Cardinality(b[j]) # 0
    BY <2>5, <2>9, FS_EmptySet
  <2> QED BY <2>6, <2>7, <2>9, <2>10
<1>15. BracketInv'
  <2>1. SUFFICES ASSUME ~Swiss'
                 PROVE  /\ \A i \in Ids' : \/ pairings'[i].outcome \in {Pending, Bye}
                                           \/ /\ pairings'[i].outcome # Draw
                                              /\ pairings'[i].outcome.winner \in pairings'[i].players
                        /\ \A i, j \in Ids' : pairings'[i].round = pairings'[j].round =>
                              \A p \in pairings'[i].players : p \in pairings'[j].players => i = j
                        /\ current_round' # 0 => Cardinality(InRound(current_round)') \in {1, 2, 4}
    BY DEF BracketInv, InRound
  <2>2. ~Swiss /\ m \in {1, 2, 4}
    BY <1>1, <1>3, <1>9, <2>1 DEF Swiss, Adds
  <2>3. ASSUME NEW i \in Ids'
        PROVE  \/ pairings'[i].outcome \in {Pending, Bye}
               \/ pairings'[i].outcome # Draw /\ pairings'[i].outcome.winner \in pairings'[i].players
    <3>1. CASE i \in Ids
      BY <1>2, <1>10, <2>2, <3>1 DEF BracketInv
    <3>2. CASE i \notin Ids
      <4>1. PICK j \in 1..m : i = l + j
        BY <1>10, <3>2
      <4> QED BY <1>11, <4>1
    <3> QED BY <3>1, <3>2
  <2>4. ASSUME NEW i \in Ids, NEW j \in 1..m PROVE pairings'[i].round # pairings'[l + j].round
    <3>1. pairings[i].round \in Nat /\ pairings[i].round <= current_round
      BY <1>2, PairingIs
    <3>3. pairings'[i].round = pairings[i].round /\ pairings'[l + j].round = r /\ r = current_round + 1
      BY <1>10, <1>11 DEF r
    <3> QED BY <1>5, <3>1, <3>3
  <2>5. ASSUME NEW i \in Ids', NEW j \in Ids', pairings'[i].round = pairings'[j].round,
               NEW p \in pairings'[i].players, p \in pairings'[j].players
        PROVE  i = j
    <3>1. CASE i \in Ids /\ j \in Ids
      <4>1. pairings'[i] = pairings[i] /\ pairings'[j] = pairings[j]
        BY <1>10, <3>1
      <4> QED BY <1>2, <2>2, <2>5, <3>1, <4>1 DEF BracketInv
    <3>2. CASE i \in Ids /\ j \notin Ids
      BY <1>10, <2>4, <2>5, <3>2
    <3>3. CASE i \notin Ids /\ j \in Ids
      BY <1>10, <2>4, <2>5, <3>3
    <3>4. CASE i \notin Ids /\ j \notin Ids
      <4>1. PICK x \in 1..m : i = l + x
        BY <1>10, <3>4
      <4>2. PICK y \in 1..m : j = l + y
        BY <1>10, <3>4
      <4>3. p \in b[x] /\ p \in b[y]
        BY <1>11, <2>5, <4>1, <4>2
      <4>4. x = y
        BY <1>6, <1>9, <4>3 DEF IsRound
      <4> QED BY <4>1, <4>2, <4>4
    <3> QED BY <3>1, <3>2, <3>3, <3>4
  <2>6. Cardinality(InRound(current_round)') = m
    <3>1. InRound(current_round)' = {i \in Ids' : pairings'[i].round = r}
      BY <1>3 DEF InRound
    <3>2. ASSUME NEW i \in Ids PROVE pairings'[i].round # r
      <4>1. pairings[i].round \in Nat /\ pairings[i].round <= current_round
        BY <1>2, PairingIs
      <4>3. pairings'[i].round = pairings[i].round
        BY <1>10
      <4> QED BY <1>5, <4>1, <4>3 DEF r
    <3>3. {i \in Ids' : pairings'[i].round = r} = (l + 1)..(l + m)
      <4>1. Ids' = 1..(l + m)
        BY <1>10 DEF Ids
      <4>2. ASSUME NEW i \in (l + 1)..(l + m) PROVE i \in Ids' /\ pairings'[i].round = r
        <5>1. i - l \in 1..m /\ i = l + (i - l)
          BY <1>5
        <5> QED BY <1>10, <1>11, <5>1
      <4>3. ASSUME NEW i \in Ids', pairings'[i].round = r PROVE i \in (l + 1)..(l + m)
        <5>1. i \in 1..(l + m) /\ ~(i \in 1..l)
          BY <1>5, <3>2, <4>1, <4>3
        <5> QED BY <1>5, <5>1
      <4> QED BY <4>2, <4>3
    <3>4. Cardinality((l + 1)..(l + m)) = m
      <4>1. l + 1 \in Int /\ l + m \in Int
        BY <1>5
      <4>2. Cardinality((l + 1)..(l + m)) = IF l + 1 > l + m THEN 0 ELSE (l + m) - (l + 1) + 1
        BY <4>1, FS_Interval
      <4> QED BY <1>5, <4>2
    <3> QED BY <3>1, <3>3, <3>4
  <2> QED BY <2>2, <2>3, <2>5, <2>6
<1> QED BY <1>12, <1>13, <1>14, <1>15 DEF RoundsInv

\* A pairing that is decided in a bracket has a winner among its players.
Decided(pairing) ==
    \/ pairing.outcome \in {Pending, Bye}
    \/ pairing.outcome # Draw /\ pairing.outcome.winner \in pairing.players

\* A step that changes outcomes and hosts, and no table.
LEMMA OutcomesKeep ==
    ASSUME RoundsInv, UNCHANGED <<format, joined, current_round>>, dropped' \in SUBSET Players,
           pairings' \in Seq(IsPairing), Ids' = Ids,
           \A i \in Ids : pairings'[i].players = pairings[i].players /\ pairings'[i].round = pairings[i].round,
           Swiss => \A i \in Ids : pairings'[i].outcome = Pending => Cardinality(pairings[i].players \cap active') >= 2,
           ~Swiss => \A i \in Ids : Decided(pairings'[i])
    PROVE  RoundsInv'
<1>1. TypeInv /\ PairingsInv /\ SwissInv /\ BracketInv /\ (Swiss' <=> Swiss)
  BY DEF RoundsInv, Swiss
<1>2. TypeInv'
  BY <1>1 DEF TypeInv
<1>3. PairingsInv'
  BY <1>1 DEF PairingsInv
<1>4. SwissInv'
  BY <1>1 DEF SwissInv
<1>5. InRound(current_round)' = InRound(current_round)
  BY DEF InRound
<1>6. ASSUME ~Swiss, NEW i \in Ids, NEW j \in Ids, pairings'[i].round = pairings'[j].round,
             NEW p \in pairings'[i].players, p \in pairings'[j].players
      PROVE  i = j
  BY <1>1, <1>6 DEF BracketInv
<1>7. ~Swiss /\ current_round' # 0 => Cardinality(InRound(current_round)') \in {1, 2, 4}
  BY <1>1, <1>5 DEF BracketInv
<1>8. BracketInv'
  <2>1. SUFFICES ASSUME ~Swiss
                 PROVE  /\ \A i \in Ids : Decided(pairings'[i])
                        /\ \A i, j \in Ids : pairings'[i].round = pairings'[j].round =>
                              \A p \in pairings'[i].players : p \in pairings'[j].players => i = j
                        /\ current_round' # 0 => Cardinality(InRound(current_round)') \in {1, 2, 4}
    BY <1>1 DEF BracketInv, Decided, InRound
  <2> QED BY <1>6, <1>7, <2>1
<1> QED BY <1>2, <1>3, <1>4, <1>8 DEF RoundsInv

\* What the invariant says of one pairing.
LEMMA OutcomesNow ==
    ASSUME RoundsInv, NEW i \in Ids
    PROVE  /\ Swiss /\ pairings[i].outcome = Pending => Cardinality(pairings[i].players \cap active) >= 2
           /\ ~Swiss => Decided(pairings[i])
BY DEF RoundsInv, SwissInv, BracketInv, Decided

\* A pairing with another outcome, or another host, is one.
LEMMA PairingWith ==
    ASSUME NEW q \in IsPairing
    PROVE  /\ \A x \in Outcomes : [q EXCEPT !.outcome = x] \in IsPairing
           /\ \A h \in Nat : [q EXCEPT !.host = h] \in IsPairing
BY DEF IsPairing

\* A history with one pairing replaced.
LEMMA Replaced ==
    ASSUME NEW s \in Seq(IsPairing), NEW i \in DOMAIN s, NEW q \in IsPairing
    PROVE  /\ [s EXCEPT ![i] = q] \in Seq(IsPairing) /\ DOMAIN [s EXCEPT ![i] = q] = DOMAIN s
           /\ \A j \in DOMAIN s : [s EXCEPT ![i] = q][j] = IF j = i THEN q ELSE s[j]
OBVIOUS

\* A result decides a pairing.
LEMMA ResultKeeps ==
    ASSUME RoundsInv, NEW i \in Ids, NEW outcome \in {Draw} \cup {Outcome("Reported", w) : w \in Players},
           SetOutcome(i, outcome)
    PROVE  RoundsInv'
<1> DEFINE q == [pairings[i] EXCEPT !.outcome = outcome]
<1>1. TypeInv /\ PairingsInv
  BY DEF RoundsInv
<1>2. outcome \in Outcomes /\ outcome # Pending
  BY DEF Outcomes, Outcome, Draw, Pending
<1>3. pairings[i] \in IsPairing
  BY <1>1, PairingIs
<1>4. q \in IsPairing /\ q.outcome = outcome /\ q.players = pairings[i].players /\ q.round = pairings[i].round
  <2>1. q \in IsPairing
    BY <1>2, <1>3, PairingWith
  <2> QED BY <1>3, <2>1 DEF IsPairing
<1>5. pairings' = [pairings EXCEPT ![i] = q]
  BY DEF SetOutcome
<1> HIDE DEF q
<1>6. pairings \in Seq(IsPairing) /\ i \in DOMAIN pairings
  BY <1>1 DEF TypeInv, Ids
<1>7. /\ pairings' \in Seq(IsPairing) /\ Ids' = Ids
      /\ \A j \in Ids : pairings'[j] = IF j = i THEN q ELSE pairings[j]
  BY <1>4, <1>5, <1>6, Replaced DEF Ids
<1>8. UNCHANGED <<format, joined, dropped, current_round>> /\ active' = active /\ Valid(i, outcome)
  BY DEF SetOutcome, active
<1>9. ~Swiss => Decided(q)
  BY <1>4, <1>8 DEF Valid, Decided, Outcome, Draw
<1>10. dropped' \in SUBSET Players
  BY <1>1, <1>8 DEF TypeInv
<1>11. Swiss => \A j \in Ids : pairings'[j].outcome = Pending => Cardinality(pairings[j].players \cap active') >= 2
  BY <1>2, <1>4, <1>7, <1>8, OutcomesNow
<1>12. ~Swiss => \A j \in Ids : Decided(pairings'[j])
  BY <1>7, <1>9, OutcomesNow
<1>13. \A j \in Ids : pairings'[j].players = pairings[j].players /\ pairings'[j].round = pairings[j].round
  BY <1>4, <1>7
<1> QED BY <1>7, <1>8, <1>10, <1>11, <1>12, <1>13, OutcomesKeep

\* Hosting a table decides nothing.
LEMMA HostingKeeps ==
    ASSUME RoundsInv, NEW i \in Ids, BeginHosting(i)
    PROVE  RoundsInv'
<1> DEFINE q == [pairings[i] EXCEPT !.host = @ + 1]
<1>1. TypeInv /\ PairingsInv
  BY DEF RoundsInv
<1>2. pairings[i] \in IsPairing
  BY <1>1, PairingIs
<1>3. /\ q \in IsPairing /\ q.outcome = pairings[i].outcome
      /\ q.players = pairings[i].players /\ q.round = pairings[i].round
  BY <1>2 DEF IsPairing
<1>4. pairings' = [pairings EXCEPT ![i] = q]
  BY DEF BeginHosting
<1> HIDE DEF q
<1>5. pairings \in Seq(IsPairing) /\ i \in DOMAIN pairings
  BY <1>1 DEF TypeInv, Ids
<1>6. /\ pairings' \in Seq(IsPairing) /\ Ids' = Ids
      /\ \A j \in Ids : pairings'[j] = IF j = i THEN q ELSE pairings[j]
  BY <1>3, <1>4, <1>5, Replaced DEF Ids
<1>7. UNCHANGED <<format, joined, dropped, current_round>> /\ active' = active
  BY DEF BeginHosting, active
<1>8. dropped' \in SUBSET Players
  BY <1>1, <1>7 DEF TypeInv
<1>9. \A j \in Ids : /\ pairings'[j].players = pairings[j].players /\ pairings'[j].round = pairings[j].round
                     /\ pairings'[j].outcome = pairings[j].outcome
  BY <1>3, <1>6
<1>10. Swiss => \A j \in Ids : pairings'[j].outcome = Pending => Cardinality(pairings[j].players \cap active') >= 2
  BY <1>7, <1>9, OutcomesNow
<1>11. ~Swiss => \A j \in Ids : Decided(pairings'[j])
  BY <1>9, OutcomesNow DEF Decided
<1> QED BY <1>6, <1>7, <1>8, <1>9, <1>10, <1>11, OutcomesKeep

\* A drop decides the pairings that it leaves to one player.
LEMMA DropKeeps ==
    ASSUME RoundsInv, NEW p \in Players, drop_player(p)
    PROVE  RoundsInv'
<1>1. TypeInv /\ PairingsInv
  BY DEF RoundsInv
<1>2. p \in active /\ dropped' = dropped \cup {p} /\ UNCHANGED <<format, joined, current_round>>
  BY DEF drop_player
<1> DEFINE left(i) == CHOOSE x \in pairings[i].players : x \notin dropped \cup {p}
           q(i) == IF Settles(i, p) THEN [pairings[i] EXCEPT !.outcome = Outcome("Forfeit", left(i))] ELSE pairings[i]
<1>3. pairings' = [i \in Ids |-> q(i)]
  BY DEF drop_player
<1>4. ASSUME NEW i \in Ids
      PROVE  /\ q(i) \in IsPairing /\ q(i).players = pairings[i].players /\ q(i).round = pairings[i].round
             /\ Settles(i, p) => q(i).outcome = Outcome("Forfeit", left(i)) /\ left(i) \in pairings[i].players
             /\ ~Settles(i, p) => q(i).outcome = pairings[i].outcome
  <2>1. pairings[i] \in IsPairing /\ pairings[i].players \in SUBSET Players
    <3>1. pairings[i] \in IsPairing
      BY <1>1, PairingIs
    <3> QED BY <3>1 DEF IsPairing
  <2>2. CASE Settles(i, p)
    <3>1. Cardinality(pairings[i].players \ (dropped \cup {p})) = 1
      BY <2>2 DEF Settles
    <3>2. pairings[i].players \ (dropped \cup {p}) # {}
      BY <3>1, FS_EmptySet
    <3>3. left(i) \in pairings[i].players /\ left(i) \in Players
      BY <2>1, <3>2
    <3> DEFINE out == Outcome("Forfeit", left(i))
    <3>4. out \in Outcomes
      <4> HIDE DEF left
      <4> QED BY <3>3 DEF Outcomes
    <3>5. q(i) = [pairings[i] EXCEPT !.outcome = out]
      BY <2>2
    <3> HIDE DEF out, q, left
    <3>6. q(i) \in IsPairing
      BY <2>1, <3>4, <3>5, PairingWith
    <3>7. q(i).players = pairings[i].players /\ q(i).round = pairings[i].round /\ q(i).outcome = out
      BY <2>1, <3>5 DEF IsPairing
    <3> QED BY <2>2, <3>3, <3>6, <3>7 DEF out
  <2>3. CASE ~Settles(i, p)
    BY <2>1, <2>3
  <2> QED BY <2>2, <2>3
<1> HIDE DEF q, left
<1>4a. \A x : Outcome("Forfeit", x) # Pending /\ Outcome("Forfeit", x) # Draw /\ Outcome("Forfeit", x).winner = x
  BY DEF Outcome, Pending, Draw
<1>5. Ids = 1..Len(pairings) /\ Len(pairings) \in Nat
  BY <1>1 DEF TypeInv, Ids
<1>6. pairings' \in Seq(IsPairing) /\ Ids' = Ids /\ \A i \in Ids : pairings'[i] = q(i)
  <2>1. pairings' \in [1..Len(pairings) -> IsPairing]
    BY <1>3, <1>4, <1>5
  <2>2. \A i \in Ids : pairings'[i] = q(i)
    BY <1>3
  <2>3. pairings' \in Seq(IsPairing) /\ DOMAIN pairings' = 1..Len(pairings)
    BY <1>5, <2>1
  <2> QED BY <1>5, <2>2, <2>3 DEF Ids
<1>7. dropped' \in SUBSET Players
  BY <1>1, <1>2 DEF TypeInv
<1>8. ASSUME Swiss, NEW i \in Ids, pairings'[i].outcome = Pending
      PROVE  Cardinality(pairings[i].players \cap active') >= 2
  <2> DEFINE T == pairings[i].players
             rest == T \ (dropped \cup {p})
  <2>1. ~Settles(i, p) /\ pairings[i].outcome = Pending
    BY <1>4, <1>4a, <1>6, <1>8
  <2>2. Cardinality(T \cap active) >= 2
    BY <1>8, <2>1, OutcomesNow
  <2>3. T \subseteq joined /\ T \in SUBSET Players
    BY <1>1, ActiveFinite DEF PairingsInv
  <2>4. T \cap active' = rest /\ T \cap active = T \ dropped
    BY <1>2, <2>3 DEF active
  <2>5. CASE p \notin T
    <3>1. rest = T \ dropped
      BY <2>5
    <3> QED BY <2>2, <2>4, <3>1
  <2>6. CASE p \in T
    <3>1. Cardinality(rest) # 1
      BY <2>1, <2>6 DEF Settles
    <3>2. p \in T \ dropped /\ (T \ dropped) \ {p} = rest
      BY <1>2, <2>6 DEF active
    <3>3. T \ dropped \in SUBSET Players /\ rest \in SUBSET Players
      BY <2>3
    <3>4. IsFiniteSet(T \ dropped) /\ Cardinality(T \ dropped) \in Nat /\ Cardinality(rest) \in Nat
      BY <1>1, <3>3, ActiveFinite
    <3>5. Cardinality(rest) = Cardinality(T \ dropped) - 1
      <4> DEFINE U == T \ dropped
      <4>1. IsFiniteSet(U) /\ p \in U /\ rest = U \ {p}
        BY <3>2, <3>4
      <4> HIDE DEF U, rest
      <4>2. Cardinality(U \ {p}) = Cardinality(U) - 1
        BY <4>1, FS_RemoveElement
      <4> QED BY <4>1, <4>2 DEF U
    <3>6. Cardinality(T \ dropped) >= 2
      BY <2>2, <2>4
    <3>7. Cardinality(rest) >= 2
      <4> HIDE DEF rest, T
      <4> QED BY <3>1, <3>4, <3>5, <3>6
    <3> QED BY <2>4, <3>7
  <2> QED BY <2>5, <2>6
<1>9. ASSUME ~Swiss, NEW i \in Ids PROVE Decided(pairings'[i])
  <2>1. CASE Settles(i, p)
    BY <1>4, <1>4a, <1>6, <2>1 DEF Decided
  <2>2. CASE ~Settles(i, p)
    <3>1. Decided(pairings[i])
      BY <1>9, OutcomesNow
    <3>2. pairings'[i].outcome = pairings[i].outcome /\ pairings'[i].players = pairings[i].players
      BY <1>4, <1>6, <2>2
    <3> QED BY <3>1, <3>2 DEF Decided
  <2> QED BY <2>1, <2>2
<1>10. \A i \in Ids : pairings'[i].players = pairings[i].players /\ pairings'[i].round = pairings[i].round
  BY <1>4, <1>6
<1> QED BY <1>2, <1>6, <1>7, <1>8, <1>9, <1>10, OutcomesKeep

\* A player who joins is in no pairing yet.
LEMMA JoinKeeps ==
    ASSUME RoundsInv, NEW p \in Players, Join(p)
    PROVE  RoundsInv'
<1>1. TypeInv /\ PairingsInv /\ SwissInv /\ BracketInv
  BY DEF RoundsInv
<1>2. p \notin joined /\ joined' = joined \cup {p} /\ UNCHANGED <<format, dropped, pairings, current_round>>
  BY DEF Join
<1>3. TypeInv' /\ PairingsInv' /\ BracketInv'
  <2>1. TypeInv'
    BY <1>1, <1>2 DEF TypeInv
  <2>2. PairingsInv'
    BY <1>1, <1>2 DEF PairingsInv, Ids
  <2>3. BracketInv'
    BY <1>1, <1>2 DEF BracketInv, InRound, Ids, Swiss
  <2> QED BY <2>1, <2>2, <2>3
<1>4. SwissInv'
  <2>1. SUFFICES ASSUME Swiss, NEW i \in Ids, pairings[i].outcome = Pending
                 PROVE  Cardinality(pairings[i].players \cap active') >= 2
    BY <1>2 DEF SwissInv, Swiss, Ids
  <2>2. pairings[i].players \subseteq joined
    BY <1>1 DEF PairingsInv
  <2>3. pairings[i].players \cap active' = pairings[i].players \cap active
    BY <1>2, <2>2 DEF active
  <2> QED BY <1>1, <2>1, <2>3 DEF SwissInv
<1> QED BY <1>3, <1>4 DEF RoundsInv

\* What the invariant does not mention may change.
LEMMA RestKeeps ==
    ASSUME RoundsInv, UNCHANGED <<format, joined, dropped, pairings, current_round>>
    PROVE  RoundsInv'
BY DEF RoundsInv, TypeInv, PairingsInv, SwissInv, BracketInv, InRound, Ids, Swiss, active

\* An event without entries satisfies it.
LEMMA EmptyEvent ==
    ASSUME format \in Formats, joined = {}, dropped = {}, pairings = << >>, current_round = 0
    PROVE  RoundsInv
<1>1. Ids = {}
  BY DEF Ids
<1>2. TypeInv
  BY DEF TypeInv
<1> QED BY <1>1, <1>2 DEF RoundsInv, PairingsInv, SwissInv, BracketInv

\* And so does one that is gone.
LEMMA GoneEvent ==
    ASSUME RoundsInv, format' = format, joined' = {}, dropped' = {}, pairings' = << >>, current_round' = 0
    PROVE  RoundsInv'
<1>1. Ids' = {}
  BY DEF Ids
<1>2. TypeInv'
  BY DEF RoundsInv, TypeInv
<1> QED BY <1>1, <1>2 DEF RoundsInv, PairingsInv, SwissInv, BracketInv

\* Every step but the start of a round leaves the rounds' number, or clears it,
\* and keeps the invariant.
LEMMA OtherSteps ==
    ASSUME RoundsInv, [RNext]_rvars, ~\E o \in Standings : StartRound(o)
    PROVE  RoundsInv' /\ current_round' \in {current_round, 0}
<1>1. ASSUME NEW p \in Players, Join(p) PROVE RoundsInv' /\ current_round' \in {current_round, 0}
  BY <1>1, JoinKeeps DEF Join
<1>2. ASSUME NEW p \in Players, drop_player(p) PROVE RoundsInv' /\ current_round' \in {current_round, 0}
  BY <1>2, DropKeeps DEF drop_player
<1>3. ASSUME NEW i \in Ids, NEW outcome \in {Draw} \cup {Outcome("Reported", w) : w \in Players}, SetOutcome(i, outcome)
      PROVE  RoundsInv' /\ current_round' \in {current_round, 0}
  BY <1>3, ResultKeeps DEF SetOutcome
<1>4. ASSUME NEW i \in Ids, BeginHosting(i) PROVE RoundsInv' /\ current_round' \in {current_round, 0}
  BY <1>4, HostingKeeps DEF BeginHosting
<1>5. ASSUME complete_tournament \/ TimePasses \/ UNCHANGED rvars PROVE RoundsInv' /\ current_round' \in {current_round, 0}
  BY <1>5, RestKeeps DEF complete_tournament, TimePasses, rvars
<1>6. ASSUME Sweep PROVE RoundsInv' /\ current_round' \in {current_round, 0}
  BY <1>6, RestKeeps, GoneEvent DEF Sweep
<1>7. ASSUME NEW i \in Ids, NEW outcome \in {Draw} \cup {Outcome("Reported", w) : w \in Players},
             ReportHosted(i, outcome) \/ \E p \in Players : Report(p, i, outcome)
      PROVE  SetOutcome(i, outcome)
  BY <1>7 DEF ReportHosted, Report
<1>8. \/ \E p \in Players : Join(p) \/ drop_player(p)
      \/ \E i \in Ids, outcome \in {Draw} \cup {Outcome("Reported", w) : w \in Players} : SetOutcome(i, outcome)
      \/ \E i \in Ids : BeginHosting(i)
      \/ complete_tournament \/ TimePasses \/ UNCHANGED rvars
      \/ Sweep
  BY <1>7 DEF RNext
<1> QED BY <1>1, <1>2, <1>3, <1>4, <1>5, <1>6, <1>8

-----------------------------------------------------------------------------
(* The theorems. *)

\* The invariant of the rounds holds in every tournament, whoever joins, drops
\* and reports in whatever order.
THEOREM RoundsInvariant == RSpec => []RoundsInv
<1>1. RInit => RoundsInv
  BY EmptyEvent DEF RInit
<1>2. RoundsInv /\ [RNext]_rvars => RoundsInv'
  BY StartsKeep, OtherSteps
<1> QED BY <1>1, <1>2, PTL DEF RSpec

\* drop_player settles what a drop leaves to one player, so a Swiss event never
\* waits for a pairing that fewer than two of its players can still play: for
\* any number of players, pods of any size and any number of rounds.
THEOREM SwissIsPlayed == RSpec => []SwissStillPlayed
<1>1. RoundsInv => SwissStillPlayed
  BY DEF RoundsInv, SwissInv, SwissStillPlayed, Unresolved
<1> QED BY <1>1, RoundsInvariant, PTL

\* A step that starts a round is generate_pairings.
LEMMA OnlyStarts ==
    ASSUME RoundsInv, [RNext]_rvars, NewRound
    PROVE  \E o \in Standings : StartRound(o)
<1>1. SUFFICES ASSUME ~\E o \in Standings : StartRound(o) PROVE FALSE
  OBVIOUS
<1>2. current_round' \in {current_round, 0}
  BY <1>1, OtherSteps
<1>3. current_round \in Nat
  BY DEF RoundsInv, TypeInv
<1> QED BY <1>2, <1>3 DEF NewRound

\* The pairings generate_pairings adds, as they are in the history.
LEMMA StartFollows ==
    ASSUME RoundsInv, NEW o, StartRound(o)
    PROVE  \E b : Adds(b, o) /\ Follows(pairings', pairings, b, current_round + 1)
<1>1. PICK b : Adds(b, o)
  BY RoundBuilt
<1>2. TypeInv /\ Unresolved = {}
  BY DEF RoundsInv, StartRound, MayStart
<1>3. Field \subseteq Players
  BY <1>2, FieldJoined, ActiveFinite
<1>4. pairings \in Seq(IsPairing) /\ current_round + 1 \in Nat
  BY <1>2 DEF TypeInv
<1>5. IsRound(b, Field) /\ pairings' = pairings \o Paired(b, current_round + 1)
  BY <1>1 DEF Adds
<1>6. Follows(pairings \o Paired(b, current_round + 1), pairings, b, current_round + 1)
  BY <1>3, <1>4, <1>5, Appended
<1> QED BY <1>1, <1>5, <1>6

\* Every round seats everybody who is still in the event exactly once, and in a
\* bracket the winners of the round before: neither the greedy pass nor the
\* trades of repair_rematches lose or double a player, however large the field
\* and the pods are.
THEOREM RoundSeatsEverybody == RSpec => RoundSeatsField
<1>1. ASSUME RoundsInv, [RNext]_rvars, NewRound
      PROVE  /\ UNION {pairings'[i].players : i \in NewIds} = Field
             /\ \A p \in Field : Cardinality(Seated(p)) = 1
  <2>1. PICK o \in Standings : StartRound(o)
    BY <1>1, OnlyStarts
  <2>2. PICK b : Adds(b, o) /\ Follows(pairings', pairings, b, current_round + 1)
    BY <1>1, <2>1, StartFollows
  <2>3. pairings \in Seq(IsPairing) /\ IsRound(b, Field)
    BY <1>1, <2>2 DEF RoundsInv, TypeInv, Adds
  <2>4. /\ UNION {pairings'[i].players : i \in (Len(pairings) + 1)..Len(pairings')} = Field
        /\ \A p \in Field : Cardinality({i \in (Len(pairings) + 1)..Len(pairings') : p \in pairings'[i].players}) = 1
    BY <2>2, <2>3, SeatsField
  <2> QED BY <2>4 DEF NewIds, Seated
<1>2. RoundsInv /\ [RNext]_rvars =>
        [NewRound =>
            LET last == Round(current_round)
                field == IF Swiss \/ current_round = 0 THEN active ELSE {Winner(last[i]) : i \in DOMAIN last}
            IN  /\ UNION {pairings'[i].players : i \in NewIds} = field
                /\ \A p \in field : Cardinality(Seated(p)) = 1]_rvars
  BY <1>1 DEF Field
<1> QED BY <1>2, RoundsInvariant, PTL DEF RSpec, RoundSeatsField

\* Nobody has a second bye while somebody who is in the event has had none and
\* plays: what select_fair promises survives the split of the field and the
\* building of the pods.
THEOREM ByesAreSpread == RSpec => ByesSpread
<1>1. ASSUME RoundsInv, [RNext]_rvars, NewRound, Swiss, NEW p \in active, NEW q \in active, had_bye(p), ~had_bye(q),
             NEW i \in Seated(p), pairings'[i].outcome = Bye
      PROVE  \E j \in Seated(q) : pairings'[j].outcome = Bye
  <2>1. PICK o \in Standings : StartRound(o)
    BY <1>1, OnlyStarts
  <2>2. PICK b : Adds(b, o) /\ Follows(pairings', pairings, b, current_round + 1)
    BY <1>1, <2>1, StartFollows
  <2> DEFINE n == Cardinality(active)
             l == Len(pairings)
             byes == partition_round(n).byes
             fresh == {k \in 1..n : ~had_bye(o[k])}
             B == ByePlaces(o, n)
  <2>3. TypeInv /\ IsFiniteSet(active) /\ n \in Nat /\ format.arity \in 2..128
    BY <1>1, ActiveFinite DEF RoundsInv
  <2>4. Lists(o, n)
    BY <2>1, <2>3, StandingsList
  <2>5. IsRound(b, active) /\ ByesAt(b, o, B)
    BY <1>1, <2>2 DEF Adds, Field
  <2>6. (\E k \in B : k \notin fresh) => (1..n) \cap fresh \subseteq B
    <3>1. 1..n \in SUBSET (1..n) /\ Cardinality(1..n) = n
      BY <2>3, FS_Interval
    <3>2. byes \in 0..n
      BY <2>3, PartitionSum
    <3>3. B = select_fair(1..n, byes, fresh)
      BY DEF ByePlaces
    <3> HIDE DEF B, byes, fresh, n
    <3>4. byes \in Nat /\ byes <= Cardinality(1..n)
      BY <2>3, <3>1, <3>2
    <3> QED BY <2>3, <3>1, <3>3, <3>4, FairChoice
  <2>7. B \subseteq 1..n
    BY FairWithin DEF ByePlaces
  <2> HIDE DEF B, byes, n
  <2>8. PICK m \in Nat : b \in [1..m -> SUBSET active]
    BY <2>5 DEF IsRound
  <2>9. DOMAIN b = 1..m /\ Len(b) = m
    BY <2>8
  <2>10. l \in Nat /\ NewIds = (l + 1)..(l + m) /\ DOMAIN pairings = 1..l
    BY <2>2, <2>3, <2>9 DEF NewIds, Follows, TypeInv
  <2>11. ASSUME NEW j \in 1..m
         PROVE  /\ l + j \in NewIds /\ pairings'[l + j].players = b[j]
                /\ pairings'[l + j].outcome = IF Cardinality(b[j]) = 1 THEN Bye ELSE Pending
    <3>1. l + j \in NewIds
      BY <2>10
    <3>2. pairings'[l + j] = Paired(b, current_round + 1)[j]
      BY <2>2, <2>9 DEF Follows
    <3> QED BY <2>9, <3>1, <3>2 DEF Paired
  <2> HIDE DEF l
  <2>12. PICK j \in 1..m : i = l + j
    <3>1. i \in (l + 1)..(l + m)
      BY <2>10 DEF Seated
    <3>2. i - l \in 1..m /\ i = l + (i - l)
      BY <2>10, <3>1
    <3> QED BY <3>2
  <2>13. p \in b[j] /\ Cardinality(b[j]) = 1 /\ IsFiniteSet(b[j])
    <3>1. p \in b[j]
      BY <2>11, <2>12 DEF Seated
    <3>2. Cardinality(b[j]) = 1
      BY <1>1, <2>11, <2>12 DEF Bye, Pending, Outcome
    <3>3. IsFiniteSet(b[j])
      BY <2>3, <2>8, FS_Subset
    <3> QED BY <3>1, <3>2, <3>3
  <2>14. \E x : b[j] = {x}
    BY <2>13, FS_Singleton
  <2>15. PICK k \in B : b[j] = {o[k]}
    BY <2>5, <2>9, <2>14 DEF ByesAt
  <2>16. p = o[k] /\ k \notin fresh
    <3>1. p = o[k]
      BY <2>13, <2>15
    <3> QED BY <1>1, <3>1
  <2>17. PICK x \in 1..n : o[x] = q
    BY <2>4 DEF Lists
  <2>18. x \in B
    <3>1. x \in fresh
      BY <1>1, <2>17
    <3> QED BY <2>6, <2>16, <2>17, <3>1
  <2>19. PICK y \in 1..m : b[y] = {q}
    BY <2>5, <2>9, <2>17, <2>18 DEF ByesAt
  <2>20. Cardinality(b[y]) = 1
    BY <2>19, FS_Singleton
  <2>21. l + y \in Seated(q) /\ pairings'[l + y].outcome = Bye
    BY <2>11, <2>19, <2>20 DEF Seated
  <2> QED BY <2>21
<1>2. RoundsInv /\ [RNext]_rvars =>
        [NewRound /\ Swiss =>
            \A p, q \in active :
                had_bye(p) /\ ~had_bye(q) /\ (\E i \in Seated(p) : pairings'[i].outcome = Bye)
                    => \E i \in Seated(q) : pairings'[i].outcome = Bye]_rvars
  BY <1>1
<1> QED BY <1>2, RoundsInvariant, PTL DEF RSpec, ByesSpread

-----------------------------------------------------------------------------
(* Rematches in a small field. *)

\* Ways to pair the players of P without a rematch.
Partners(P) == {f \in [P -> P] : \A p \in P : f[p] # p /\ f[f[p]] = p /\ ~have_faced(p, f[p])}

\* Whoever has met a player has been met by them.
LEMMA FacedBoth ==
    ASSUME NEW p, NEW q
    PROVE  have_faced(p, q) <=> have_faced(q, p)
<1>1. {p, q} = {q, p}
  OBVIOUS
<1> QED BY <1>1 DEF have_faced

\* Two are two.
LEMMA PairCount ==
    ASSUME NEW x, NEW y, x # y
    PROVE  Cardinality({x, y}) = 2
<1>1. IsFiniteSet({x}) /\ Cardinality({x}) = 1
  BY FS_Singleton
<1>2. Cardinality({x} \cup {y}) = Cardinality({x}) + 1
  BY <1>1, FS_AddElement
<1>3. {x, y} = {x} \cup {y}
  OBVIOUS
<1>4. Cardinality({x} \cup {y}) = 2
  BY <1>1, <1>2
<1> QED BY <1>3, <1>4, Zenon

\* The rematches at a table of two.
LEMMA PairConflicts ==
    ASSUME NEW pod, DOMAIN pod = 1..2
    PROVE  /\ Rematches(pod) = IF have_faced(pod[1], pod[2]) THEN {<<1, 2>>} ELSE {}
           /\ pod_conflicts(pod) = IF have_faced(pod[1], pod[2]) THEN 1 ELSE 0
<1>1. Rematches(pod) = IF have_faced(pod[1], pod[2]) THEN {<<1, 2>>} ELSE {}
  <2>1. ASSUME NEW e \in Rematches(pod) PROVE e = <<1, 2>> /\ have_faced(pod[1], pod[2])
    <3>1. e \in (1..2) \X (1..2) /\ e[1] < e[2] /\ have_faced(pod[e[1]], pod[e[2]])
      BY <2>1 DEF Rematches
    <3>2. e[1] = 1 /\ e[2] = 2
      BY <3>1
    <3> QED BY <3>1, <3>2
  <2>2. ASSUME have_faced(pod[1], pod[2]) PROVE <<1, 2>> \in Rematches(pod)
    BY <2>2 DEF Rematches
  <2> QED BY <2>1, <2>2
<1> QED BY <1>1, FS_EmptySet, FS_Singleton DEF pod_conflicts

\* Two tables of two, and the players at them.
TwoPairs(pods, P) == Table(pods, [i \in 1..2 |-> 2], P)
Conflicts(pods) == pod_conflicts(pods[1]) + pod_conflicts(pods[2])

\* Two tables of two seat four players.
LEMMA FourSeats ==
    ASSUME NEW P, NEW pods, TwoPairs(pods, P)
    PROVE  \E a, b, c, d : /\ P = {a, b, c, d} /\ a # b /\ a # c /\ a # d /\ b # c /\ b # d /\ c # d
                           /\ DOMAIN pods = 1..2 /\ DOMAIN pods[1] = 1..2 /\ DOMAIN pods[2] = 1..2
                           /\ pods[1][1] = a /\ pods[1][2] = b /\ pods[2][1] = c /\ pods[2][2] = d
<1> DEFINE sizes == [i \in 1..2 |-> 2]
           a == pods[1][1]
           b == pods[1][2]
           c == pods[2][1]
           d == pods[2][2]
<1>1. DOMAIN sizes = 1..2 /\ sizes[1] = 2 /\ sizes[2] = 2 /\ \A i \in 1..2 : sizes[i] = 2
  OBVIOUS
<1> HIDE DEF sizes
<1>2. /\ DOMAIN pods = 1..2 /\ \A i \in 1..2 : pods[i] \in [1..2 -> P]
      /\ \A i, j \in 1..2 : \A x \in 1..2, y \in 1..2 : pods[i][x] = pods[j][y] => i = j /\ x = y
      /\ \A p \in P : \E i \in 1..2 : \E x \in 1..2 : pods[i][x] = p
  BY <1>1, SMTT(30) DEF Table, TwoPairs, sizes
<1>3. a \in P /\ b \in P /\ c \in P /\ d \in P /\ DOMAIN pods[1] = 1..2 /\ DOMAIN pods[2] = 1..2
  BY <1>2
<1>4. a # b /\ a # c /\ a # d /\ b # c /\ b # d /\ c # d
  BY <1>2
<1>5. P = {a, b, c, d}
  <2>1. ASSUME NEW p \in P PROVE p \in {a, b, c, d}
    <3>1. PICK i \in 1..2, x \in 1..2 : pods[i][x] = p
      BY <1>2
    <3>2. i \in {1, 2} /\ x \in {1, 2}
      OBVIOUS
    <3> QED BY <3>1, <3>2
  <2> HIDE DEF a, b, c, d
  <2> QED BY <1>3, <2>1
<1> QED BY <1>2, <1>3, <1>4, <1>5

\* The rematches at two tables of two.
LEMMA ConflictsOfTwo ==
    ASSUME NEW pods, DOMAIN pods[1] = 1..2, DOMAIN pods[2] = 1..2
    PROVE  /\ pod_conflicts(pods[1]) = IF have_faced(pods[1][1], pods[1][2]) THEN 1 ELSE 0
           /\ pod_conflicts(pods[2]) = IF have_faced(pods[2][1], pods[2][2]) THEN 1 ELSE 0
           /\ Conflicts(pods) \in Nat
<1>1. /\ pod_conflicts(pods[1]) = IF have_faced(pods[1][1], pods[1][2]) THEN 1 ELSE 0
      /\ pod_conflicts(pods[2]) = IF have_faced(pods[2][1], pods[2][2]) THEN 1 ELSE 0
  BY PairConflicts
<1> QED BY <1>1 DEF Conflicts

\* What an exchange between them is.
LEMMA ExchangeOfTwo ==
    ASSUME NEW pods, DOMAIN pods = 1..2, DOMAIN pods[1] = 1..2, DOMAIN pods[2] = 1..2,
           NEW i \in 1..2, NEW j \in 1..2, i # j, NEW x \in 1..2, NEW y \in 1..2
    PROVE  LET q == Swapped(pods, <<i, j, x, y>>)
           IN  /\ DOMAIN q = 1..2 /\ DOMAIN q[1] = 1..2 /\ DOMAIN q[2] = 1..2
               /\ \A z \in 1..2 : q[i][z] = IF z = x THEN pods[j][y] ELSE pods[i][z]
               /\ \A z \in 1..2 : q[j][z] = IF z = y THEN pods[i][x] ELSE pods[j][z]
<1> DEFINE q == Swapped(pods, <<i, j, x, y>>)
<1>1. q = [pods EXCEPT ![i] = [pods[i] EXCEPT ![x] = pods[j][y]], ![j] = [pods[j] EXCEPT ![y] = pods[i][x]]]
  BY DEF Swapped
<1>2. DOMAIN pods[i] = 1..2 /\ DOMAIN pods[j] = 1..2 /\ {i, j} = 1..2
  OBVIOUS
<1> HIDE DEF q
<1>3. DOMAIN q = 1..2 /\ q[i] = [pods[i] EXCEPT ![x] = pods[j][y]] /\ q[j] = [pods[j] EXCEPT ![y] = pods[i][x]]
  BY <1>1
<1>4. DOMAIN q[i] = 1..2 /\ DOMAIN q[j] = 1..2
  BY <1>2, <1>3
<1>5. DOMAIN q[1] = 1..2 /\ DOMAIN q[2] = 1..2
  BY <1>2, <1>4
<1>6. \A z \in 1..2 : q[i][z] = IF z = x THEN pods[j][y] ELSE pods[i][z]
  BY <1>2, <1>3
<1>7. \A z \in 1..2 : q[j][z] = IF z = y THEN pods[i][x] ELSE pods[j][z]
  BY <1>2, <1>3
<1> QED BY <1>3, <1>5, <1>6, <1>7 DEF q

\* An exchange that is an improvement leaves fewer rematches.
LEMMA ImprovingOfTwo ==
    ASSUME NEW pods, DOMAIN pods = 1..2, DOMAIN pods[1] = 1..2, DOMAIN pods[2] = 1..2,
           NEW i \in 1..2, NEW j \in 1..2, i # j, NEW x \in 1..2, NEW y \in 1..2
    PROVE  <<i, j, x, y>> \in Improving(pods) <=>
               pod_conflicts(pods[i]) > 0 /\ Conflicts(Swapped(pods, <<i, j, x, y>>)) < Conflicts(pods)
<1> DEFINE s == <<i, j, x, y>>
           q == Swapped(pods, s)
           between(ps, t) == pod_conflicts(ps[t[1]]) + pod_conflicts(ps[t[2]])
<1>1. /\ DOMAIN q = 1..2 /\ DOMAIN q[1] = 1..2 /\ DOMAIN q[2] = 1..2
  BY ExchangeOfTwo, SMTT(30)
<1>2. /\ pod_conflicts(pods[1]) \in Nat /\ pod_conflicts(pods[2]) \in Nat
      /\ pod_conflicts(q[1]) \in Nat /\ pod_conflicts(q[2]) \in Nat
  <2> HIDE DEF q
  <2> QED BY <1>1, ConflictsOfTwo
<1>3. between(q, s) = Conflicts(q) /\ between(pods, s) = Conflicts(pods)
  <2>1. between(q, s) = pod_conflicts(q[i]) + pod_conflicts(q[j])
        /\ between(pods, s) = pod_conflicts(pods[i]) + pod_conflicts(pods[j])
    OBVIOUS
  <2> HIDE DEF q, between
  <2>2. (i = 1 /\ j = 2) \/ (i = 2 /\ j = 1)
    OBVIOUS
  <2> QED BY <1>2, <2>1, <2>2 DEF Conflicts
<1>4. s \in Improving(pods) <=>
        /\ s \in UNION {{<<k, l, z, w>> : z \in DOMAIN pods[k], w \in DOMAIN pods[l]} :
                           k \in {h \in DOMAIN pods : pod_conflicts(pods[h]) > 0}, l \in DOMAIN pods}
        /\ s[1] # s[2] /\ between(q, s) < between(pods, s)
  BY DEF Improving
<1>5. DOMAIN pods[i] = 1..2 /\ DOMAIN pods[j] = 1..2
  OBVIOUS
<1>6. s \in UNION {{<<k, l, z, w>> : z \in DOMAIN pods[k], w \in DOMAIN pods[l]} :
                           k \in {h \in DOMAIN pods : pod_conflicts(pods[h]) > 0}, l \in DOMAIN pods}
        <=> pod_conflicts(pods[i]) > 0
  <2> DEFINE K == {h \in DOMAIN pods : pod_conflicts(pods[h]) > 0}
             L == DOMAIN pods
             Of(k, l) == {<<k, l, z, w>> : z \in DOMAIN pods[k], w \in DOMAIN pods[l]}
  <2>1. ASSUME pod_conflicts(pods[i]) > 0 PROVE s \in UNION {Of(k, l) : k \in K, l \in L}
    <3>1. i \in K /\ j \in L
      BY <2>1
    <3>2. s \in Of(i, j)
      BY <1>5
    <3> HIDE DEF K, L, Of, s
    <3> QED BY <3>1, <3>2
  <2>2. ASSUME s \in UNION {Of(k, l) : k \in K, l \in L} PROVE pod_conflicts(pods[i]) > 0
    <3>1. PICK k \in K, l \in L : s \in Of(k, l)
      <4> HIDE DEF K, L, Of, s
      <4> QED BY <2>2
    <3>2. \E z, w : s = <<k, l, z, w>>
      BY <3>1
    <3>3. k = i
      BY <3>2
    <3> QED BY <3>1, <3>3
  <2> QED BY <2>1, <2>2
<1> HIDE DEF q, between
<1>7. s[1] # s[2]
  OBVIOUS
<1> HIDE DEF s
<1>8. s \in Improving(pods) <=> pod_conflicts(pods[i]) > 0 /\ Conflicts(q) < Conflicts(pods)
  BY <1>3, <1>4, <1>6, <1>7
<1> QED BY <1>8 DEF q, s

\* Where the four could be paired without a rematch, one exchange does it.
LEMMA ExchangeExists ==
    ASSUME NEW P, NEW pods, TwoPairs(pods, P), Partners(P) # {}, Conflicts(pods) > 0
    PROVE  Improving(pods) # {}
<1>1. PICK a, b, c, d : /\ P = {a, b, c, d} /\ a # b /\ a # c /\ a # d /\ b # c /\ b # d /\ c # d
                        /\ DOMAIN pods = 1..2 /\ DOMAIN pods[1] = 1..2 /\ DOMAIN pods[2] = 1..2
                        /\ pods[1][1] = a /\ pods[1][2] = b /\ pods[2][1] = c /\ pods[2][2] = d
  BY FourSeats
<1>2. PICK f \in [P -> P] : \A p \in P : f[p] # p /\ f[f[p]] = p /\ ~have_faced(p, f[p])
  BY DEF Partners
<1>3. /\ pod_conflicts(pods[1]) = IF have_faced(a, b) THEN 1 ELSE 0
      /\ pod_conflicts(pods[2]) = IF have_faced(c, d) THEN 1 ELSE 0
  BY <1>1, ConflictsOfTwo
<1>4. have_faced(a, b) \/ have_faced(c, d)
  BY <1>3 DEF Conflicts
<1>5. (~have_faced(a, c) /\ ~have_faced(b, d)) \/ (~have_faced(a, d) /\ ~have_faced(c, b))
  <2>1. f[a] \in {b, c, d} /\ f[b] \in {a, c, d} /\ f[c] \in {a, b, d}
    BY <1>1, <1>2
  <2>2. f[f[a]] = a /\ f[f[b]] = b /\ f[f[c]] = c
    BY <1>1, <1>2
  <2>3. ~have_faced(a, f[a]) /\ ~have_faced(b, f[b]) /\ ~have_faced(c, f[c])
    BY <1>1, <1>2
  <2>4. CASE f[a] = b
    <3>1. f[b] = a /\ f[c] = d
      BY <1>1, <2>1, <2>2, <2>4
    <3> QED BY <1>4, <2>3, <2>4, <3>1
  <2>5. CASE f[a] = c
    <3>1. f[c] = a /\ f[b] = d
      BY <1>1, <2>1, <2>2, <2>5
    <3> QED BY <2>3, <2>5, <3>1
  <2>6. CASE f[a] = d
    <3>1. f[d] = a /\ f[b] = c
      BY <1>1, <2>1, <2>2, <2>6
    <3> QED BY <2>3, <2>6, <3>1, FacedBoth
  <2> QED BY <2>1, <2>4, <2>5, <2>6
<1>6. ASSUME NEW i \in 1..2, NEW j \in 1..2, i # j, NEW x \in 1..2, NEW y \in 1..2, pod_conflicts(pods[i]) > 0,
             LET q == Swapped(pods, <<i, j, x, y>>)
             IN  ~have_faced(q[1][1], q[1][2]) /\ ~have_faced(q[2][1], q[2][2])
      PROVE  Improving(pods) # {}
  <2> DEFINE q == Swapped(pods, <<i, j, x, y>>)
  <2>1. DOMAIN q[1] = 1..2 /\ DOMAIN q[2] = 1..2
    BY <1>1, <1>6, ExchangeOfTwo, SMTT(30)
  <2>2. ~have_faced(q[1][1], q[1][2]) /\ ~have_faced(q[2][1], q[2][2])
    BY <1>6
  <2> HIDE DEF q
  <2>3. Conflicts(q) = 0
    BY <2>1, <2>2, ConflictsOfTwo DEF Conflicts
  <2>4. <<i, j, x, y>> \in Improving(pods)
    BY <1>1, <1>6, <2>3, ImprovingOfTwo DEF q
  <2> QED BY <2>4
<1>7. ASSUME NEW i \in 1..2, NEW j \in 1..2, i # j, NEW x \in 1..2, NEW y \in 1..2
      PROVE  LET q == Swapped(pods, <<i, j, x, y>>)
             IN  /\ \A z \in 1..2 : q[i][z] = IF z = x THEN pods[j][y] ELSE pods[i][z]
                 /\ \A z \in 1..2 : q[j][z] = IF z = y THEN pods[i][x] ELSE pods[j][z]
  BY <1>1, <1>7, ExchangeOfTwo, SMTT(30)
<1>8. CASE pod_conflicts(pods[1]) > 0 /\ ~have_faced(a, c) /\ ~have_faced(b, d)
  <2> DEFINE q == Swapped(pods, <<1, 2, 2, 1>>)
  <2>1. q[1][1] = a /\ q[1][2] = c /\ q[2][1] = b /\ q[2][2] = d
    <3>1. /\ \A z \in 1..2 : q[1][z] = IF z = 2 THEN pods[2][1] ELSE pods[1][z]
          /\ \A z \in 1..2 : q[2][z] = IF z = 1 THEN pods[1][2] ELSE pods[2][z]
      BY <1>7
    <3> HIDE DEF q
    <3> QED BY <1>1, <3>1
  <2>2. ~have_faced(q[1][1], q[1][2]) /\ ~have_faced(q[2][1], q[2][2])
    BY <1>8, <2>1
  <2> QED BY <1>6, <1>8, <2>2
<1>9. CASE pod_conflicts(pods[1]) > 0 /\ ~have_faced(a, d) /\ ~have_faced(c, b)
  <2> DEFINE q == Swapped(pods, <<1, 2, 2, 2>>)
  <2>1. q[1][1] = a /\ q[1][2] = d /\ q[2][1] = c /\ q[2][2] = b
    <3>1. /\ \A z \in 1..2 : q[1][z] = IF z = 2 THEN pods[2][2] ELSE pods[1][z]
          /\ \A z \in 1..2 : q[2][z] = IF z = 2 THEN pods[1][2] ELSE pods[2][z]
      BY <1>7
    <3> HIDE DEF q
    <3> QED BY <1>1, <3>1
  <2>2. ~have_faced(q[1][1], q[1][2]) /\ ~have_faced(q[2][1], q[2][2])
    BY <1>9, <2>1
  <2> QED BY <1>6, <1>9, <2>2
<1>10. CASE pod_conflicts(pods[2]) > 0 /\ ~have_faced(a, c) /\ ~have_faced(b, d)
  <2> DEFINE q == Swapped(pods, <<2, 1, 1, 2>>)
  <2>1. q[1][1] = a /\ q[1][2] = c /\ q[2][1] = b /\ q[2][2] = d
    <3>1. /\ \A z \in 1..2 : q[2][z] = IF z = 1 THEN pods[1][2] ELSE pods[2][z]
          /\ \A z \in 1..2 : q[1][z] = IF z = 2 THEN pods[2][1] ELSE pods[1][z]
      BY <1>7
    <3> HIDE DEF q
    <3> QED BY <1>1, <3>1
  <2>2. ~have_faced(q[1][1], q[1][2]) /\ ~have_faced(q[2][1], q[2][2])
    BY <1>10, <2>1
  <2> QED BY <1>6, <1>10, <2>2
<1>11. CASE pod_conflicts(pods[2]) > 0 /\ ~have_faced(a, d) /\ ~have_faced(c, b)
  <2> DEFINE q == Swapped(pods, <<2, 1, 2, 2>>)
  <2>1. q[1][1] = a /\ q[1][2] = d /\ q[2][1] = c /\ q[2][2] = b
    <3>1. /\ \A z \in 1..2 : q[2][z] = IF z = 2 THEN pods[1][2] ELSE pods[2][z]
          /\ \A z \in 1..2 : q[1][z] = IF z = 2 THEN pods[2][2] ELSE pods[1][z]
      BY <1>7
    <3> HIDE DEF q
    <3> QED BY <1>1, <3>1
  <2>2. ~have_faced(q[1][1], q[1][2]) /\ ~have_faced(q[2][1], q[2][2])
    BY <1>11, <2>1
  <2> QED BY <1>6, <1>11, <2>2
<1> QED BY <1>3, <1>4, <1>5, <1>8, <1>9, <1>10, <1>11

\* So each round of the repair leaves fewer rematches, until there are none.
LEMMA RepairedLess ==
    ASSUME NEW P, NEW pods, TwoPairs(pods, P), Partners(P) # {}
    PROVE  /\ TwoPairs(Repaired(pods), P) /\ Conflicts(pods) \in Nat /\ Conflicts(Repaired(pods)) \in Nat
           /\ Conflicts(pods) = 0 => Conflicts(Repaired(pods)) = 0
           /\ Conflicts(pods) > 0 => Conflicts(Repaired(pods)) < Conflicts(pods)
<1> DEFINE sizes == [i \in 1..2 |-> 2]
<1>1. sizes \in [1..2 -> Nat] /\ \A i \in 1..2 : sizes[i] = 2
  OBVIOUS
<1>2. Table(pods, sizes, P)
  BY DEF TwoPairs
<1> HIDE DEF sizes
<1>3. Table(Repaired(pods), sizes, P)
  BY <1>1, <1>2, RepairedKeeps
<1>4. TwoPairs(Repaired(pods), P)
  BY <1>3 DEF TwoPairs, sizes
<1>5. /\ DOMAIN pods = 1..2 /\ DOMAIN pods[1] = 1..2 /\ DOMAIN pods[2] = 1..2
  BY FourSeats
<1>6. DOMAIN Repaired(pods)[1] = 1..2 /\ DOMAIN Repaired(pods)[2] = 1..2
  BY <1>4, FourSeats
<1>7. Conflicts(pods) \in Nat /\ Conflicts(Repaired(pods)) \in Nat
  BY <1>5, <1>6, ConflictsOfTwo
<1>8. ASSUME Improving(pods) # {} PROVE Conflicts(Repaired(pods)) < Conflicts(pods)
  <2>1. PICK i \in 1..2, j \in 1..2 : \E x \in 1..sizes[i], y \in 1..sizes[j] :
               /\ i # j /\ <<i, j, x, y>> \in Improving(pods)
               /\ Repaired(pods) = Swapped(pods, <<i, j, x, y>>)
    <3>1. Exchanged(pods, 2, sizes)
      BY <1>1, <1>2, <1>8, FirstImproving
    <3> QED BY <3>1 DEF Exchanged
  <2>2. PICK x \in 1..2, y \in 1..2 : /\ i # j /\ <<i, j, x, y>> \in Improving(pods)
                                      /\ Repaired(pods) = Swapped(pods, <<i, j, x, y>>)
    BY <1>1, <2>1
  <2>3. Conflicts(Swapped(pods, <<i, j, x, y>>)) < Conflicts(pods)
    BY <1>5, <2>2, ImprovingOfTwo
  <2> QED BY <2>2, <2>3
<1>9. ASSUME Conflicts(pods) = 0 PROVE Conflicts(Repaired(pods)) = 0
  <2>1. CASE Improving(pods) = {}
    BY <1>9, <2>1 DEF Repaired
  <2>2. CASE Improving(pods) # {}
    BY <1>7, <1>8, <1>9, <2>2
  <2> QED BY <2>1, <2>2
<1>10. ASSUME Conflicts(pods) > 0 PROVE Conflicts(Repaired(pods)) < Conflicts(pods)
  BY <1>8, <1>10, ExchangeExists
<1> QED BY <1>4, <1>7, <1>9, <1>10

\* As often as there are rematches is often enough.
LEMMA RepairSettles ==
    ASSUME NEW P, NEW pods, TwoPairs(pods, P), Partners(P) # {}
    PROVE  Conflicts(repair_rematches(pods)) = 0
<1> DEFINE R == UNION {{i} \X Rematches(pods[i]) : i \in DOMAIN pods}
           n == Cardinality(R)
           g == CHOOSE g : IsRepair(g, pods, n)
<1>1. DOMAIN pods = 1..2 /\ DOMAIN pods[1] = 1..2 /\ DOMAIN pods[2] = 1..2
  BY FourSeats
<1>2. n \in Nat /\ n = Conflicts(pods)
  <2> DEFINE e == <<1, <<1, 2>>>>
             h == <<2, <<1, 2>>>>
  <2>1. R = ({1} \X Rematches(pods[1])) \cup ({2} \X Rematches(pods[2]))
    BY <1>1
  <2>2. /\ Rematches(pods[1]) = IF have_faced(pods[1][1], pods[1][2]) THEN {<<1, 2>>} ELSE {}
        /\ Rematches(pods[2]) = IF have_faced(pods[2][1], pods[2][2]) THEN {<<1, 2>>} ELSE {}
    BY <1>1, PairConflicts
  <2>3. /\ pod_conflicts(pods[1]) = IF have_faced(pods[1][1], pods[1][2]) THEN 1 ELSE 0
        /\ pod_conflicts(pods[2]) = IF have_faced(pods[2][1], pods[2][2]) THEN 1 ELSE 0
    BY <1>1, PairConflicts
  <2>4. {1} \X {<<1, 2>>} = {e} /\ {2} \X {<<1, 2>>} = {h} /\ {1} \X {} = {} /\ {2} \X {} = {} /\ e # h
    OBVIOUS
  <2>5. Cardinality({}) = 0 /\ Cardinality({e}) = 1 /\ Cardinality({h}) = 1 /\ Cardinality({e, h}) = 2
    <3>1. Cardinality({}) = 0 /\ Cardinality({e}) = 1 /\ Cardinality({h}) = 1
      BY FS_EmptySet, FS_Singleton
    <3>2. Cardinality({e, h}) = 2
      BY <2>4, PairCount, Zenon
    <3> QED BY <3>1, <3>2
  <2> HIDE DEF R, e, h
  <2>6. CASE have_faced(pods[1][1], pods[1][2]) /\ have_faced(pods[2][1], pods[2][2])
    <3>1. R = {e, h}
      BY <2>1, <2>2, <2>4, <2>6
    <3> QED BY <2>3, <2>5, <2>6, <3>1 DEF Conflicts
  <2>7. CASE have_faced(pods[1][1], pods[1][2]) /\ ~have_faced(pods[2][1], pods[2][2])
    <3>1. R = {e}
      BY <2>1, <2>2, <2>4, <2>7
    <3> QED BY <2>3, <2>5, <2>7, <3>1 DEF Conflicts
  <2>8. CASE ~have_faced(pods[1][1], pods[1][2]) /\ have_faced(pods[2][1], pods[2][2])
    <3>1. R = {h}
      BY <2>1, <2>2, <2>4, <2>8
    <3> QED BY <2>3, <2>5, <2>8, <3>1 DEF Conflicts
  <2>9. CASE ~have_faced(pods[1][1], pods[1][2]) /\ ~have_faced(pods[2][1], pods[2][2])
    <3>1. R = {}
      BY <2>1, <2>2, <2>4, <2>9
    <3> QED BY <2>3, <2>5, <2>9, <3>1 DEF Conflicts
  <2> QED BY <2>6, <2>7, <2>8, <2>9
<1>3. IsRepair(g, pods, n)
  <2> HIDE DEF n
  <2> QED BY <1>2, RepairExists
<1>4. repair_rematches(pods) = g[n]
  BY DEF repair_rematches, IsRepair
<1> HIDE DEF g, n
<1> DEFINE S == {k \in Nat : k <= n => /\ TwoPairs(g[k], P)
                                       /\ Conflicts(g[k]) \in Nat /\ Conflicts(g[k]) <= n - k}
<1>5. 0 \in S
  <2>1. g[0] = pods
    BY <1>2, <1>3 DEF IsRepair
  <2> QED BY <1>2, <2>1
<1>6. ASSUME NEW k \in Nat, k \in S PROVE k + 1 \in S
  <2>1. SUFFICES ASSUME k + 1 <= n
                 PROVE  TwoPairs(g[k + 1], P) /\ Conflicts(g[k + 1]) \in Nat /\ Conflicts(g[k + 1]) <= n - (k + 1)
    OBVIOUS
  <2>2. k <= n /\ k + 1 \in 0..n /\ (k + 1) - 1 = k /\ k + 1 # 0
    BY <1>2, <2>1
  <2>3. g[k + 1] = Repaired(g[(k + 1) - 1])
    BY <1>3, <2>2 DEF IsRepair
  <2>4. g[k + 1] = Repaired(g[k])
    BY <2>2, <2>3
  <2>5. TwoPairs(g[k], P) /\ Conflicts(g[k]) \in Nat /\ Conflicts(g[k]) <= n - k
    BY <1>6, <2>2
  <2>6. /\ TwoPairs(Repaired(g[k]), P) /\ Conflicts(Repaired(g[k])) \in Nat
        /\ Conflicts(g[k]) = 0 => Conflicts(Repaired(g[k])) = 0
        /\ Conflicts(g[k]) > 0 => Conflicts(Repaired(g[k])) < Conflicts(g[k])
    BY <2>5, RepairedLess
  <2> QED BY <1>2, <2>1, <2>4, <2>5, <2>6
<1> HIDE DEF S
<1>7. n \in S
  BY <1>2, <1>5, <1>6, Inductive
<1>8. Conflicts(g[n]) \in Nat /\ Conflicts(g[n]) <= n - n
  BY <1>2, <1>7 DEF S
<1> QED BY <1>2, <1>4, <1>8

\* In the round b, m pods come first and c byes after them.
Laid(b, pods, m, bye, c) ==
    /\ DOMAIN b = 1..(m + c)
    /\ \A i \in 1..m : b[i] = Range(pods[i])
    /\ \A i \in (m + 1)..(m + c) : b[i] = {bye[i - m]}

\* So they do.
LEMMA InAllIs ==
    ASSUME NEW m \in Nat, NEW pods, DOMAIN pods = 1..m, NEW c \in Nat, NEW bye, DOMAIN bye = 1..c
    PROVE  Laid(InAll(pods, bye), pods, m, bye, c)
<1> DEFINE u == [i \in 1..m |-> Range(pods[i])]
           v == [i \in 1..c |-> {bye[i]}]
           S == {Range(pods[i]) : i \in 1..m} \cup {{bye[i]} : i \in 1..c}
<1>1. u \in [1..m -> S] /\ v \in [1..c -> S]
  OBVIOUS
<1>2. (\A i \in 1..m : u[i] = Range(pods[i])) /\ (\A i \in 1..c : v[i] = {bye[i]})
  OBVIOUS
<1>3. InAll(pods, bye) = u \o v
  BY DEF InAll
<1> HIDE DEF u, v, S
<1>4. u \in Seq(S) /\ v \in Seq(S) /\ Len(u) = m /\ Len(v) = c
  BY <1>1
<1>5. /\ u \o v \in Seq(S) /\ Len(u \o v) = m + c
      /\ \A i \in 1..(m + c) : (u \o v)[i] = IF i <= m THEN u[i] ELSE v[i - m]
  BY <1>4, Concat
<1>6. DOMAIN (u \o v) = 1..(m + c)
  BY <1>5
<1>7. ASSUME NEW i \in 1..m PROVE (u \o v)[i] = Range(pods[i])
  <2>1. i \in 1..(m + c) /\ i <= m
    OBVIOUS
  <2> QED BY <1>2, <1>5, <2>1
<1>8. ASSUME NEW i \in (m + 1)..(m + c) PROVE (u \o v)[i] = {bye[i - m]}
  <2>1. i \in 1..(m + c) /\ ~(i <= m) /\ i - m \in 1..c
    OBVIOUS
  <2> QED BY <1>2, <1>5, <2>1
<1> QED BY <1>3, <1>6, <1>7, <1>8 DEF Laid

\* Who plays a match of two in the round b.
Playing(b) == {p \in active : \E i \in DOMAIN b : p \in b[i] /\ Cardinality(b[i]) = 2}

\* At one or two tables of two nobody meets again who need not.
LEMMA FreshTables ==
    ASSUME NEW m \in 0..2, NEW sizes \in [1..m -> Nat], \A i \in 1..m : sizes[i] = 2,
           NEW P, NEW g, Table(g, sizes, P), Partners(P) # {}, NEW r, r = repair_rematches(g), Table(r, sizes, P)
    PROVE  \A i \in 1..m : ~have_faced(r[i][1], r[i][2])
<1>1. CASE m = 0
  BY <1>1
<1>2. CASE m = 1
  <2>1. DOMAIN sizes = 1..1 /\ sizes[1] = 2
    BY <1>2
  <2>2. /\ r[1] \in [1..2 -> P] /\ \A p \in P : \E i \in 1..1 : \E x \in 1..sizes[i] : r[i][x] = p
    <3>1. 1 \in DOMAIN sizes
      BY <2>1
    <3>2. r[1] \in [1..sizes[1] -> P] /\ \A p \in P : \E i \in DOMAIN sizes : \E x \in 1..sizes[i] : r[i][x] = p
      BY <3>1 DEF Table
    <3> QED BY <2>1, <3>2
  <2>3. \A p \in P : p \in {r[1][1], r[1][2]}
    <3>1. ASSUME NEW p \in P PROVE p \in {r[1][1], r[1][2]}
      <4>1. PICK x \in 1..2 : r[1][x] = p
        BY <2>1, <2>2
      <4>2. x = 1 \/ x = 2
        OBVIOUS
      <4> QED BY <4>1, <4>2
    <3> QED BY <3>1
  <2>4. PICK f \in [P -> P] : \A p \in P : f[p] # p /\ f[f[p]] = p /\ ~have_faced(p, f[p])
    BY DEF Partners
  <2>5. r[1][1] \in P
    BY <2>2
  <2>6. f[r[1][1]] = r[1][2]
    BY <2>3, <2>4, <2>5
  <2>7. ~have_faced(r[1][1], r[1][2])
    BY <2>4, <2>5, <2>6
  <2> QED BY <1>2, <2>7
<1>3. CASE m = 2
  <2>1. sizes = [i \in 1..2 |-> 2]
    BY <1>3
  <2>2. TwoPairs(g, P) /\ TwoPairs(r, P)
    BY <2>1 DEF TwoPairs
  <2>3. Conflicts(r) = 0
    BY <2>2, RepairSettles
  <2>4. DOMAIN r[1] = 1..2 /\ DOMAIN r[2] = 1..2
    BY <2>2, FourSeats
  <2>5. ~have_faced(r[1][1], r[1][2]) /\ ~have_faced(r[2][1], r[2][2])
    BY <2>3, <2>4, ConflictsOfTwo DEF Conflicts
  <2>6. ASSUME NEW i \in 1..2 PROVE ~have_faced(r[i][1], r[i][2])
    <3>1. i = 1 \/ i = 2
      OBVIOUS
    <3> QED BY <2>5, <3>1
  <2> QED BY <1>3, <2>6
<1> QED BY <1>1, <1>2, <1>3

\* In a round of a small field nobody meets again who need not.
LEMMA SmallRound ==
    ASSUME format.arity = 2, NEW n \in 0..5, NEW o, Lists(o, n), Len(o) = n,
           NEW b, b = build_swiss_round(o), Partners(Playing(b)) # {}, NEW k \in DOMAIN b, Cardinality(b[k]) = 2
    PROVE  \E p, q \in b[k] : p # q /\ ~have_faced(p, q)
<1> DEFINE byes == ByePlaces(o, n)
           P == At(o, (1..n) \ byes)
           bye == InOrder(o, byes)
           c == Cardinality(byes)
<1>1. format.arity \in 2..128 /\ n \in Nat /\ format.arity \in Nat
  OBVIOUS
<1>2. PICK m, sizes, g : SwissPods(o, n, m, sizes, g)
  BY <1>1, SwissSeats
<1> DEFINE r == repair_rematches(g)
<1>3. /\ b = InAll(r, bye) /\ byes \in SUBSET (1..n) /\ c \in Nat
      /\ m \in Nat /\ sizes \in [1..m -> Nat] /\ \A i \in 1..m : sizes[i] >= 2 /\ sizes[i] <= format.arity
      /\ Table(g, sizes, P) /\ 2 * m <= n
  BY <1>2 DEF SwissPods
<1> HIDE DEF byes
<1>4. m \in 0..2 /\ \A i \in 1..m : sizes[i] = 2
  <2>1. m \in 0..2
    BY <1>3
  <2>2. ASSUME NEW i \in 1..m PROVE sizes[i] = 2
    <3>1. sizes[i] \in Nat /\ sizes[i] >= 2 /\ sizes[i] <= 2
      BY <1>3
    <3> QED BY <3>1
  <2> QED BY <2>1, <2>2
<1>5. P \subseteq active
  BY <1>3 DEF At, Lists
<1> HIDE DEF P
<1>6. Table(r, sizes, P)
  BY <1>1, <1>3, RepairKeeps
<1>7. DOMAIN bye = 1..c
  BY DEF InOrder
<1> HIDE DEF bye, c, r
<1>8. /\ DOMAIN r = 1..m
      /\ \A i \in 1..m : r[i] \in [1..2 -> P]
      /\ \A i, j \in 1..m : \A x \in 1..2, y \in 1..2 : r[i][x] = r[j][y] => i = j /\ x = y
      /\ \A p \in P : \E i \in 1..m : \E x \in 1..2 : r[i][x] = p
  <2>1. DOMAIN sizes = 1..m
    BY <1>3
  <2>2. /\ DOMAIN r = 1..m
        /\ \A i \in 1..m : r[i] \in [1..sizes[i] -> P]
        /\ \A i, j \in 1..m : \A x \in 1..sizes[i], y \in 1..sizes[j] : r[i][x] = r[j][y] => i = j /\ x = y
        /\ \A p \in P : \E i \in 1..m : \E x \in 1..sizes[i] : r[i][x] = p
    BY <1>6, <2>1 DEF Table
  <2>3. ASSUME NEW i \in 1..m, NEW j \in 1..m, NEW x \in 1..2, NEW y \in 1..2, r[i][x] = r[j][y] PROVE i = j /\ x = y
    BY <1>4, <2>2, <2>3
  <2>4. \A i \in 1..m : r[i] \in [1..2 -> P]
    BY <1>4, <2>2
  <2>5. ASSUME NEW p \in P PROVE \E i \in 1..m : \E x \in 1..2 : r[i][x] = p
    <3>1. PICK i \in 1..m : \E x \in 1..sizes[i] : r[i][x] = p
      BY <2>2
    <3> QED BY <1>4, <3>1
  <2> QED BY <2>2, <2>3, <2>4, <2>5
<1>9. /\ DOMAIN b = 1..(m + c)
      /\ \A i \in 1..m : b[i] = Range(r[i])
      /\ \A i \in (m + 1)..(m + c) : b[i] = {bye[i - m]}
  <2>1. m \in Nat /\ DOMAIN r = 1..m /\ c \in Nat /\ DOMAIN bye = 1..c
    BY <1>3, <1>7, <1>8
  <2>2. Laid(InAll(r, bye), r, m, bye, c)
    BY <2>1, InAllIs
  <2> QED BY <1>3, <2>2 DEF Laid
<1>10. ASSUME NEW i \in 1..m
       PROVE  /\ b[i] = {r[i][1], r[i][2]} /\ r[i][1] # r[i][2] /\ r[i][1] \in P /\ r[i][2] \in P
              /\ Cardinality(b[i]) = 2 /\ i \in DOMAIN b
  <2>1. r[i] \in [1..2 -> P] /\ b[i] = Range(r[i]) /\ r[i][1] # r[i][2]
    BY <1>8, <1>9
  <2>2. b[i] = {r[i][1], r[i][2]} /\ r[i][1] \in P /\ r[i][2] \in P
    <3>1. DOMAIN r[i] = {1, 2} /\ r[i][1] \in P /\ r[i][2] \in P
      BY <2>1
    <3> QED BY <2>1, <3>1 DEF Range
  <2>3. Cardinality({r[i][1], r[i][2]}) = 2
    <3>1. r[i][1] # r[i][2]
      BY <2>1
    <3> QED BY <3>1, PairCount, Zenon
  <2>4. i \in 1..(m + c)
    BY <1>3
  <2> QED BY <1>9, <2>1, <2>2, <2>3, <2>4
<1>11. ASSUME NEW i \in DOMAIN b, Cardinality(b[i]) = 2 PROVE i \in 1..m
  <2>1. SUFFICES ASSUME i \notin 1..m PROVE FALSE
    OBVIOUS
  <2>2. i \in (m + 1)..(m + c)
    BY <1>3, <1>9, <2>1
  <2>3. Cardinality({bye[i - m]}) = 1
    BY FS_Singleton
  <2>4. b[i] = {bye[i - m]}
    BY <1>9, <2>2
  <2> QED BY <1>11, <2>3, <2>4
<1>12. Playing(b) = P
  <2>1. ASSUME NEW p \in Playing(b) PROVE p \in P
    <3>1. PICK i \in DOMAIN b : p \in b[i] /\ Cardinality(b[i]) = 2
      BY <2>1 DEF Playing
    <3>2. i \in 1..m
      BY <1>11, <3>1
    <3> QED BY <1>10, <3>1, <3>2
  <2>2. ASSUME NEW p \in P PROVE p \in Playing(b)
    <3>1. PICK i \in 1..m, x \in 1..2 : r[i][x] = p
      BY <1>8
    <3>2. x = 1 \/ x = 2
      OBVIOUS
    <3>3. p \in b[i] /\ Cardinality(b[i]) = 2 /\ i \in DOMAIN b
      BY <1>10, <3>1, <3>2
    <3> QED BY <1>5, <3>3 DEF Playing
  <2> QED BY <2>1, <2>2
<1>13. \A i \in 1..m : ~have_faced(r[i][1], r[i][2])
  <2>1. Partners(P) # {} /\ r = repair_rematches(g)
    BY <1>12 DEF r
  <2> QED BY <1>3, <1>4, <1>6, <2>1, FreshTables
<1>14. k \in 1..m
  BY <1>11
<1> QED BY <1>10, <1>13, <1>14

\* In a field of at most five the exchanges of repair_rematches are enough: if
\* those who play a match of two can be paired without a rematch, they are,
\* whatever the standings and the history, dropped players included.
THEOREM NobodyMeetsAgain == RSpec => NoNeedlessRematch
<1> DEFINE HaveMet(p, q) == \E i \in Ids : {p, q} \subseteq pairings[i].players
           playing == {p \in active : \E i \in Seated(p) : Cardinality(pairings'[i].players) = 2}
           again == {i \in NewIds : Cardinality(pairings'[i].players) = 2
                                  /\ \A p, q \in pairings'[i].players : p # q => HaveMet(p, q)}
           arrangements == {f \in [playing -> playing] : \A p \in playing : f[p] # p /\ f[f[p]] = p /\ ~HaveMet(p, f[p])}
<1>1. ASSUME RoundsInv, [RNext]_rvars, NewRound, Swiss, format.arity = 2, Cardinality(active) <= 5, arrangements # {}
      PROVE  again = {}
  <2>1. PICK o \in Standings : StartRound(o)
    BY <1>1, OnlyStarts
  <2> DEFINE n == Cardinality(active)
             b == build_swiss_round(o)
             l == Len(pairings)
  <2>2. TypeInv /\ IsFiniteSet(active) /\ n \in 0..5 /\ active \subseteq Players /\ format.arity \in 2..128
    <3>1. TypeInv
      BY <1>1 DEF RoundsInv
    <3>2. active \in SUBSET Players /\ format.arity \in 2..128
      BY <3>1, ActiveFinite
    <3>3. IsFiniteSet(active) /\ n \in Nat
      BY <3>1, <3>2, ActiveFinite
    <3> HIDE DEF n
    <3>4. n <= 5
      BY <1>1 DEF n
    <3> QED BY <3>1, <3>2, <3>3, <3>4
  <2>3. Lists(o, n) /\ Len(o) = n
    BY <2>1, <2>2, StandingsList
  <2>4. IsRound(b, active)
    <3>1. n \in Nat
      BY <2>2
    <3> HIDE DEF n
    <3> QED BY <2>2, <2>3, <3>1, SwissRound
  <2>5. pairings' = pairings \o Paired(b, current_round + 1)
    BY <1>1, <2>1 DEF StartRound, Paired
  <2>6. pairings \in Seq(IsPairing) /\ current_round + 1 \in Nat
    BY <2>2 DEF TypeInv
  <2> HIDE DEF b, n
  <2>7. Follows(pairings', pairings, b, current_round + 1)
    BY <2>2, <2>4, <2>5, <2>6, Appended
  <2>8. PICK w \in Nat : b \in [1..w -> SUBSET active]
    BY <2>4 DEF IsRound
  <2>9. DOMAIN b = 1..w /\ Len(b) = w
    BY <2>8
  <2>10. l \in Nat /\ NewIds = (l + 1)..(l + w)
    BY <2>6, <2>7, <2>9 DEF NewIds, Follows
  <2>11. ASSUME NEW j \in 1..w PROVE l + j \in NewIds /\ pairings'[l + j].players = b[j]
    <3>1. l + j \in NewIds
      BY <2>10
    <3>2. pairings'[l + j] = Paired(b, current_round + 1)[j]
      BY <2>7, <2>9 DEF Follows
    <3> QED BY <2>9, <3>1, <3>2 DEF Paired
  <2> HIDE DEF l
  <2>12. ASSUME NEW i \in NewIds PROVE \E j \in 1..w : i = l + j
    <3>1. i - l \in 1..w /\ i = l + (i - l)
      BY <2>10
    <3> QED BY <3>1
  <2>13. playing = Playing(b)
    <3>1. ASSUME NEW p \in playing PROVE p \in Playing(b)
      <4>1. PICK i \in NewIds : p \in pairings'[i].players /\ Cardinality(pairings'[i].players) = 2
        BY <3>1 DEF Seated
      <4>2. PICK j \in 1..w : i = l + j
        BY <2>12
      <4>3. p \in b[j] /\ Cardinality(b[j]) = 2 /\ j \in DOMAIN b
        BY <2>9, <2>11, <4>1, <4>2
      <4> QED BY <3>1, <4>3 DEF Playing
    <3>2. ASSUME NEW p \in Playing(b) PROVE p \in playing
      <4>1. PICK j \in 1..w : p \in b[j] /\ Cardinality(b[j]) = 2
        BY <2>9, <3>2 DEF Playing
      <4>2. l + j \in Seated(p) /\ Cardinality(pairings'[l + j].players) = 2
        BY <2>11, <4>1 DEF Seated
      <4> QED BY <3>2, <4>2 DEF Playing
    <3> HIDE DEF playing
    <3> QED BY <3>1, <3>2
  <2>14. arrangements = Partners(playing)
    BY DEF Partners, have_faced
  <2> HIDE DEF playing, arrangements
  <2>15. Partners(Playing(b)) # {}
    BY <1>1, <2>13, <2>14
  <2>16. ASSUME NEW i \in again PROVE FALSE
    <3>1. PICK j \in 1..w : i = l + j
      BY <2>12, <2>16
    <3>2. Cardinality(b[j]) = 2 /\ \A p, q \in b[j] : p # q => have_faced(p, q)
      BY <2>11, <2>16, <3>1 DEF have_faced
    <3>3. b = build_swiss_round(o) /\ j \in DOMAIN b
      BY <2>9 DEF b
    <3>4. \E p, q \in b[j] : p # q /\ ~have_faced(p, q)
      BY <1>1, <2>2, <2>3, <2>15, <3>2, <3>3, SmallRound
    <3> QED BY <3>2, <3>4
  <2> QED BY <2>16
<1>2. RoundsInv /\ [RNext]_rvars =>
        [NewRound /\ Swiss /\ format.arity = 2 /\ Cardinality(active) <= 5 => (arrangements # {} => again = {})]_rvars
  <2> HIDE DEF arrangements, again
  <2> QED BY <1>1
<1>3. RoundsInv /\ [RNext]_rvars =>
        [NewRound /\ Swiss /\ format.arity = 2 /\ Cardinality(active) <= 5 =>
            LET Met(p, q) == \E i \in Ids : {p, q} \subseteq pairings[i].players
                paired == {p \in active : \E i \in Seated(p) : Cardinality(pairings'[i].players) = 2}
                met == {i \in NewIds : Cardinality(pairings'[i].players) = 2
                                       /\ \A p, q \in pairings'[i].players : p # q => Met(p, q)}
                partner == {m \in [paired -> paired] :
                              \A p \in paired : m[p] # p /\ m[m[p]] = p /\ ~Met(p, m[p])}
            IN  partner # {} => met = {}]_rvars
  BY <1>2
<1> QED BY <1>3, RoundsInvariant, PTL DEF RSpec, NoNeedlessRematch
=============================================================================
