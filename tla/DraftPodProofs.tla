--------------------------- MODULE DraftPodProofs ---------------------------
(***************************************************************************)
(* Theorems on DraftPod.                                                   *)
(***************************************************************************)
EXTENDS DraftPod, TLAPS, WellFoundedInduction, FiniteSetTheorems

-----------------------------------------------------------------------------
(* Induction over the naturals, with a set in the place of a predicate.    *)

\* A set of numbers that is not empty has a least one.
LEMMA LeastNumber ==
    ASSUME NEW T, T \subseteq Nat, T # {}
    PROVE  \E x \in T : \A y \in T : x <= y
<1> DEFINE R == OpToRel(<, Nat)
<1>1. IsWellFoundedOn(R, Nat)
  BY NatLessThanWellFounded, Zenon
<1>2. PICK x \in T : \A y \in T : ~(<<y, x>> \in R)
  <2> HIDE DEF R
  <2> QED BY <1>1, WFMin
<1>3. ASSUME NEW y \in T PROVE x <= y
  <2>1. x \in Nat /\ y \in Nat
    OBVIOUS
  <2>2. ~(y < x)
    BY <1>2, <2>1 DEF OpToRel
  <2> QED BY <2>1, <2>2
<1> QED BY <1>3

\* A set with zero, and with each number's successor, has all numbers.
LEMMA Inductive ==
    ASSUME NEW S, 0 \in S, \A n \in Nat : n \in S => n + 1 \in S
    PROVE  \A n \in Nat : n \in S
<1> DEFINE T == {n \in Nat : n \notin S}
<1>1. SUFFICES ASSUME T # {} PROVE FALSE
  OBVIOUS
<1>2. PICK x \in T : \A y \in T : x <= y
  BY <1>1, LeastNumber
<1>3. x \in Nat /\ x # 0
  BY <1>2
<1>4. x - 1 \in Nat /\ x - 1 \notin T
  BY <1>2, <1>3
<1> QED BY <1>2, <1>3, <1>4

-----------------------------------------------------------------------------
(* Sums. *)

IsSum(g, f, n) == g = [k \in 0..n |-> IF k = 0 THEN 0 ELSE g[k - 1] + f[k - 1]]

\* The recursion of Total has a solution.
LEMMA SumExists ==
    ASSUME NEW f, NEW n \in Nat
    PROVE  \E g : IsSum(g, f, n)
<1> DEFINE S == {m \in Nat : \E g : IsSum(g, f, m)}
<1>1. 0 \in S
  <2> DEFINE g0 == [k \in 0..0 |-> 0]
  <2>1. IsSum(g0, f, 0)
    BY DEF IsSum
  <2> QED BY <2>1
<1>2. ASSUME NEW m \in Nat, m \in S PROVE m + 1 \in S
  <2>1. PICK g : IsSum(g, f, m)
    BY <1>2
  <2> DEFINE h == [k \in 0..(m + 1) |-> IF k = m + 1 THEN g[m] + f[m] ELSE g[k]]
  <2>2. ASSUME NEW k \in 0..(m + 1) PROVE h[k] = IF k = 0 THEN 0 ELSE h[k - 1] + f[k - 1]
    <3>1. CASE k = 0
      BY <2>1, <3>1 DEF IsSum
    <3>2. CASE k = m + 1
      BY <3>2
    <3>3. CASE k \in 1..m
      <4>1. g[k] = g[k - 1] + f[k - 1]
        BY <2>1, <3>3 DEF IsSum
      <4> QED BY <3>3, <4>1
    <3> QED BY <3>1, <3>2, <3>3
  <2>3. IsSum(h, f, m + 1)
    BY <2>2 DEF IsSum
  <2> HIDE DEF h
  <2> QED BY <2>3
<1> HIDE DEF S
<1>3. n \in S
  BY <1>1, <1>2, Inductive
<1> QED BY <1>3 DEF S

\* Total is what the recursion says.
LEMMA TotalIs ==
    ASSUME NEW f, NEW n \in Nat
    PROVE  \E g : IsSum(g, f, n) /\ Total(f, n) = g[n]
<1> DEFINE g == CHOOSE g : IsSum(g, f, n)
<1>1. IsSum(g, f, n)
  BY SumExists
<1>2. Total(f, n) = g[n]
  BY DEF Total, IsSum
<1> QED BY <1>1, <1>2

\* Two solutions agree as far as both go.
LEMMA SumsAgree ==
    ASSUME NEW f, NEW n \in Nat, NEW m \in Nat, n <= m,
           NEW g, IsSum(g, f, n), NEW h, IsSum(h, f, m)
    PROVE  g[n] = h[n]
<1> DEFINE S == {k \in Nat : k <= n => g[k] = h[k]}
<1>1. 0 \in S
  BY DEF IsSum
<1>2. ASSUME NEW k \in Nat, k \in S PROVE k + 1 \in S
  <2>1. SUFFICES ASSUME k + 1 <= n PROVE g[k + 1] = h[k + 1]
    OBVIOUS
  <2>2. k + 1 \in 0..n /\ k + 1 \in 0..m /\ (k + 1) - 1 = k /\ k + 1 # 0
    BY <2>1
  <2>3. g[k + 1] = g[(k + 1) - 1] + f[(k + 1) - 1]
    BY <2>2 DEF IsSum
  <2>4. h[k + 1] = h[(k + 1) - 1] + f[(k + 1) - 1]
    BY <2>2 DEF IsSum
  <2>5. g[k] = h[k]
    BY <1>2, <2>1
  <2> QED BY <2>2, <2>3, <2>4, <2>5
<1> HIDE DEF S
<1>3. n \in S
  BY <1>1, <1>2, Inductive
<1> QED BY <1>3 DEF S

\* Nobody has nothing.
LEMMA TotalZero ==
    ASSUME NEW f
    PROVE  Total(f, 0) = 0
<1>1. PICK g : IsSum(g, f, 0) /\ Total(f, 0) = g[0]
  BY TotalIs
<1> QED BY <1>1 DEF IsSum

\* One more seat.
LEMMA TotalStep ==
    ASSUME NEW f, NEW n \in Nat
    PROVE  Total(f, n + 1) = Total(f, n) + f[n]
<1>1. PICK g : IsSum(g, f, n) /\ Total(f, n) = g[n]
  BY TotalIs
<1>2. PICK h : IsSum(h, f, n + 1) /\ Total(f, n + 1) = h[n + 1]
  BY TotalIs
<1>3. g[n] = h[n]
  BY <1>1, <1>2, SumsAgree
<1>4. n + 1 \in 0..(n + 1) /\ (n + 1) - 1 = n /\ n + 1 # 0
  OBVIOUS
<1>5. h[n + 1] = h[(n + 1) - 1] + f[(n + 1) - 1]
  BY <1>2, <1>4 DEF IsSum
<1> QED BY <1>1, <1>2, <1>3, <1>4, <1>5

\* Sums of numbers are numbers.
LEMMA TotalType ==
    ASSUME NEW f, NEW n \in Nat, \A k \in 0..(n - 1) : f[k] \in Int
    PROVE  Total(f, n) \in Int
<1> DEFINE S == {k \in Nat : k <= n => Total(f, k) \in Int}
<1>1. 0 \in S
  BY TotalZero
<1>2. ASSUME NEW k \in Nat, k \in S PROVE k + 1 \in S
  BY <1>2, TotalStep
<1> HIDE DEF S
<1>3. n \in S
  BY <1>1, <1>2, Inductive
<1> QED BY <1>3 DEF S

\* Only what the seats have counts.
LEMMA TotalSame ==
    ASSUME NEW f, NEW g, NEW n \in Nat, \A k \in 0..(n - 1) : f[k] = g[k]
    PROVE  Total(f, n) = Total(g, n)
<1> DEFINE S == {k \in Nat : k <= n => Total(f, k) = Total(g, k)}
<1>1. 0 \in S
  BY TotalZero
<1>2. ASSUME NEW k \in Nat, k \in S PROVE k + 1 \in S
  BY <1>2, TotalStep
<1> HIDE DEF S
<1>3. n \in S
  BY <1>1, <1>2, Inductive
<1> QED BY <1>3 DEF S

\* Seats that have the same.
LEMMA TotalConst ==
    ASSUME NEW f, NEW n \in Nat, NEW c \in Int, \A k \in 0..(n - 1) : f[k] = c
    PROVE  Total(f, n) = n * c
<1> DEFINE S == {k \in Nat : k <= n => Total(f, k) = k * c}
<1>1. 0 \in S
  BY TotalZero
<1>2. ASSUME NEW k \in Nat, k \in S PROVE k + 1 \in S
  <2>1. (k + 1) * c = k * c + c /\ k * c \in Int
    OBVIOUS
  <2> QED BY <1>2, <2>1, TotalStep
<1> HIDE DEF S
<1>3. n \in S
  BY <1>1, <1>2, Inductive
<1> QED BY <1>3 DEF S

\* Sums add up.
LEMMA TotalPlus ==
    ASSUME NEW f, NEW g, NEW h, NEW n \in Nat,
           \A k \in 0..(n - 1) : f[k] \in Int /\ g[k] \in Int /\ h[k] = f[k] + g[k]
    PROVE  Total(h, n) = Total(f, n) + Total(g, n)
<1> DEFINE S == {k \in Nat : k <= n => /\ Total(f, k) \in Int /\ Total(g, k) \in Int
                                       /\ Total(h, k) = Total(f, k) + Total(g, k)}
<1>1. 0 \in S
  BY TotalZero
<1>2. ASSUME NEW k \in Nat, k \in S PROVE k + 1 \in S
  <2>1. SUFFICES ASSUME k + 1 <= n
                 PROVE  /\ Total(f, k + 1) \in Int /\ Total(g, k + 1) \in Int
                        /\ Total(h, k + 1) = Total(f, k + 1) + Total(g, k + 1)
    OBVIOUS
  <2>2. /\ Total(f, k) \in Int /\ Total(g, k) \in Int
        /\ Total(h, k) = Total(f, k) + Total(g, k)
    BY <1>2, <2>1
  <2>3. f[k] \in Int /\ g[k] \in Int /\ h[k] = f[k] + g[k]
    BY <2>1
  <2>4. /\ Total(f, k + 1) = Total(f, k) + f[k] /\ Total(g, k + 1) = Total(g, k) + g[k]
        /\ Total(h, k + 1) = Total(h, k) + h[k]
    BY TotalStep
  <2> QED BY <2>2, <2>3, <2>4
<1> HIDE DEF S
<1>3. n \in S
  BY <1>1, <1>2, Inductive
<1> QED BY <1>3 DEF S

\* What goes round the table stays at the table.
LEMMA TotalRound ==
    ASSUME NEW f, NEW g, NEW n \in Nat, n # 0, \A k \in 0..(n - 1) : f[k] \in Int,
           g[0] = f[n - 1], \A k \in 1..(n - 1) : g[k] = f[k - 1]
    PROVE  Total(g, n) = Total(f, n)
<1> DEFINE S == {k \in Nat : k + 1 <= n => Total(f, k) \in Int /\ Total(g, k + 1) = f[n - 1] + Total(f, k)}
<1>1. 0 \in S
  BY TotalZero, TotalStep
<1>2. ASSUME NEW k \in Nat, k \in S PROVE k + 1 \in S
  <2>1. SUFFICES ASSUME (k + 1) + 1 <= n
                 PROVE  Total(f, k + 1) \in Int /\ Total(g, (k + 1) + 1) = f[n - 1] + Total(f, k + 1)
    OBVIOUS
  <2>2. Total(f, k) \in Int /\ Total(g, k + 1) = f[n - 1] + Total(f, k)
    BY <1>2, <2>1
  <2>3. f[k] \in Int /\ f[n - 1] \in Int /\ g[k + 1] = f[(k + 1) - 1] /\ (k + 1) - 1 = k
    BY <2>1
  <2>4. Total(f, k + 1) = Total(f, k) + f[k] /\ Total(g, (k + 1) + 1) = Total(g, k + 1) + g[k + 1]
    BY TotalStep
  <2> QED BY <2>2, <2>3, <2>4
<1> HIDE DEF S
<1>3. n - 1 \in Nat /\ (n - 1) + 1 = n /\ (n - 1) + 1 <= n
  OBVIOUS
<1>4. n - 1 \in S
  BY <1>1, <1>2, <1>3, Inductive
<1>5. Total(f, n - 1) \in Int /\ Total(g, n) = f[n - 1] + Total(f, n - 1)
  BY <1>3, <1>4 DEF S
<1>6. Total(f, n) = Total(f, n - 1) + f[n - 1] /\ f[n - 1] \in Int
  BY <1>3, TotalStep
<1> QED BY <1>5, <1>6

-----------------------------------------------------------------------------
(* The table. *)

\* One seat on, and one back, around a table.
LEMMA Turn ==
    ASSUME NEW n \in Nat \ {0}, NEW s \in 0..(n - 1)
    PROVE  /\ (s + 1) % n = IF s = n - 1 THEN 0 ELSE s + 1
           /\ (s + n - 1) % n = IF s = 0 THEN n - 1 ELSE s - 1
OBVIOUS

\* The booster that is opened next was counted as to come.
LEMMA Opened ==
    ASSUME NEW packs \in Nat, NEW number \in Nat, NEW size \in Nat
    PROVE  /\ size + (packs - (number + 1) - 1) * size = (packs - number - 1) * size
           /\ (number + 1) * size = number * size + size
           /\ number * size \in Nat /\ (packs - number - 1) * size \in Int
OBVIOUS

-----------------------------------------------------------------------------
(* What is true of every pod, in memory and on disk. *)

PodFields ==
    {"kind", "status", "claimed", "bots", "current_pack_number", "pick_number", "current_pack", "picked",
     "pool", "decks", "current_round", "pairings", "match_wins"}

Later == {"Deckbuilding", "Pairing", "MatchInProgress", "RoundComplete", "Complete"}

Formed(p) ==
    /\ DOMAIN p = PodFields /\ p.kind \in Kinds /\ p.status \in {"Lobby", "Drafting"} \cup Later
    /\ p.claimed \subseteq SeatsOf(p) /\ p.picked \subseteq SeatsOf(p)
    /\ p.current_pack_number \in Nat /\ p.pick_number \in Nat
    /\ p.current_pack \in [SeatsOf(p) -> Nat] /\ p.pool \in [SeatsOf(p) -> Nat]

\* The cards of the boosters opened before, and of those still to be opened.
Past(p) == p.current_pack_number * p.kind.size
Rest(p) == (p.kind.packs - p.current_pack_number - 1) * p.kind.size
Taken(p, s) == IF s \in p.picked THEN 1 ELSE 0

\* What a seat has, and has in front of it, and is to get.
Cards(p) == [s \in SeatsOf(p) |-> p.pool[s] + IF p.status = "Drafting" THEN p.current_pack[s] + Rest(p) ELSE 0]

Empty(p) ==
    /\ p.current_pack_number = 0 /\ p.pick_number = 0 /\ p.picked = {}
    /\ \A s \in SeatsOf(p) : p.pool[s] = 0

\* A window in which every step is one card: the packs shrink in step.
InStep(p) ==
    /\ p.pick_number < p.kind.size
    /\ \A s \in SeatsOf(p) : /\ p.current_pack[s] = p.kind.size - p.pick_number - Taken(p, s)
                             /\ p.pool[s] = Past(p) + p.pick_number + Taken(p, s)

Fair(p) ==
    /\ p.status = "Lobby" => Empty(p)
    /\ p.status = "Drafting" => /\ p.current_pack_number < p.kind.packs
                                /\ p.kind.per_pick = 1 => InStep(p)
    /\ p.status \in Later /\ p.kind.per_pick = 1 => \A s \in SeatsOf(p) : p.pool[s] = Past(p)
    /\ p.status # "Lobby" => Total(Cards(p), p.kind.seats) = p.kind.seats * p.kind.packs * p.kind.size

Sound(p) == p = NoRow \/ (Formed(p) /\ Fair(p))

\* The numbers of a kind.
LEMMA KindNumbers ==
    ASSUME NEW k \in Kinds
    PROVE  /\ k.seats \in Nat \ {0} /\ k.seats <= MaxPod /\ k.per_pick \in 1..2
           /\ k.size \in Nat \ {0} /\ k.packs \in Nat \ {0} /\ k.restarts \in Nat
BY DraftConstants

\* The products a pod's shares are made of are numbers.
LEMMA ShareNumbers ==
    ASSUME NEW p, Formed(p)
    PROVE  Past(p) \in Nat /\ Rest(p) \in Int
<1>1. /\ p.kind \in Kinds /\ p.current_pack_number \in Nat
      /\ p.kind.size \in Nat /\ p.kind.packs \in Nat
  BY KindNumbers DEF Formed
<1> QED BY <1>1, Opened DEF Past, Rest

\* The seat that a pack comes from is a neighbour.
LEMMA PassedOn ==
    ASSUME NEW p, Formed(p), NEW d \in SeatsOf(p)
    PROVE  (CHOOSE s \in SeatsOf(p) : next_seat(p, s) = d)
               = IF p.current_pack_number % 2 = 0
                 THEN IF d = 0 THEN p.kind.seats - 1 ELSE d - 1
                 ELSE IF d = p.kind.seats - 1 THEN 0 ELSE d + 1
<1> DEFINE n == p.kind.seats
           from == IF p.current_pack_number % 2 = 0
                   THEN IF d = 0 THEN n - 1 ELSE d - 1
                   ELSE IF d = n - 1 THEN 0 ELSE d + 1
<1>1. n \in Nat \ {0} /\ SeatsOf(p) = 0..(n - 1)
  BY KindNumbers DEF Formed, SeatsOf
<1> HIDE DEF n
<1>2. ASSUME NEW s \in SeatsOf(p)
      PROVE  next_seat(p, s) = IF p.current_pack_number % 2 = 0
                               THEN IF s = n - 1 THEN 0 ELSE s + 1
                               ELSE IF s = 0 THEN n - 1 ELSE s - 1
  BY <1>1, Turn DEF next_seat, n
<1>3. from \in SeatsOf(p) /\ next_seat(p, from) = d
  BY <1>1, <1>2
<1>4. ASSUME NEW s \in SeatsOf(p), next_seat(p, s) = d PROVE s = from
  BY <1>1, <1>2, <1>4
<1> HIDE DEF from
<1>5. (CHOOSE s \in SeatsOf(p) : next_seat(p, s) = d) = from
  BY <1>3, <1>4
<1> QED BY <1>5 DEF from, n

\* Packs that are passed around make the same number of cards.
LEMMA PassKeepsCards ==
    ASSUME NEW p, Formed(p), p.status = "Drafting", NEW q, Formed(q), q.status = "Drafting",
           q.kind = p.kind, q.pool = p.pool, Rest(q) = Rest(p),
           \A d \in SeatsOf(p) : q.current_pack[d] = p.current_pack[CHOOSE s \in SeatsOf(p) : next_seat(p, s) = d]
    PROVE  Total(Cards(q), p.kind.seats) = Total(Cards(p), p.kind.seats)
<1> DEFINE n == p.kind.seats
           pk == p.current_pack
           qk == q.current_pack
           other == [s \in SeatsOf(p) |-> p.pool[s] + Rest(p)]
<1>1. n \in Nat \ {0} /\ SeatsOf(p) = 0..(n - 1) /\ SeatsOf(q) = 0..(n - 1)
  BY KindNumbers DEF Formed, SeatsOf
<1>2. Rest(p) \in Int
  BY ShareNumbers
<1>3. ASSUME NEW k \in 0..(n - 1)
      PROVE  /\ pk[k] \in Int /\ qk[k] \in Int /\ other[k] \in Int
             /\ Cards(p)[k] = pk[k] + other[k] /\ Cards(q)[k] = qk[k] + other[k]
  <2>1. p.pool[k] \in Nat /\ p.current_pack[k] \in Nat /\ q.current_pack[k] \in Nat
    BY <1>1 DEF Formed
  <2>2. Cards(p)[k] = p.pool[k] + (p.current_pack[k] + Rest(p)) /\ Cards(q)[k] = p.pool[k] + (q.current_pack[k] + Rest(p))
    BY <1>1 DEF Cards
  <2>3. other[k] = p.pool[k] + Rest(p)
    BY <1>1
  <2> HIDE DEF other
  <2> QED BY <1>2, <2>1, <2>2, <2>3
<1>4. \A d \in 0..(n - 1) : qk[d] = IF p.current_pack_number % 2 = 0
                                   THEN IF d = 0 THEN pk[n - 1] ELSE pk[d - 1]
                                   ELSE IF d = n - 1 THEN pk[0] ELSE pk[d + 1]
  <2> SUFFICES ASSUME NEW d \in SeatsOf(p)
               PROVE  qk[d] = IF p.current_pack_number % 2 = 0
                              THEN IF d = 0 THEN pk[n - 1] ELSE pk[d - 1]
                              ELSE IF d = n - 1 THEN pk[0] ELSE pk[d + 1]
    BY <1>1
  <2> DEFINE from == CHOOSE s \in SeatsOf(p) : next_seat(p, s) = d
  <2>1. from = IF p.current_pack_number % 2 = 0
               THEN IF d = 0 THEN p.kind.seats - 1 ELSE d - 1
               ELSE IF d = p.kind.seats - 1 THEN 0 ELSE d + 1
    BY PassedOn
  <2>2. qk[d] = pk[from]
    OBVIOUS
  <2> HIDE DEF from
  <2> QED BY <2>1, <2>2
<1> HIDE DEF n, pk, qk, other
<1>5. Total(Cards(p), n) = Total(pk, n) + Total(other, n)
  BY <1>1, <1>3, TotalPlus
<1>6. Total(Cards(q), n) = Total(qk, n) + Total(other, n)
  BY <1>1, <1>3, TotalPlus
<1>7. Total(qk, n) = Total(pk, n)
  <2>1. CASE p.current_pack_number % 2 = 0
    <3>1. qk[0] = pk[n - 1] /\ \A k \in 1..(n - 1) : qk[k] = pk[k - 1]
      BY <1>1, <1>4, <2>1
    <3> QED BY <1>1, <1>3, <3>1, TotalRound
  <2>2. CASE p.current_pack_number % 2 # 0
    <3>1. pk[0] = qk[n - 1] /\ \A k \in 1..(n - 1) : pk[k] = qk[k - 1]
      BY <1>1, <1>4, <2>2
    <3> QED BY <1>1, <1>3, <3>1, TotalRound
  <2> QED BY <2>1, <2>2
<1> QED BY <1>5, <1>6, <1>7 DEF n

\* Closing a window, when it is complete, loses no card and leaves the seats
\* even.
LEMMA FinishKeeps ==
    ASSUME NEW p, Formed(p), Fair(p), p.status = "Drafting"
    PROVE  /\ Formed(finish_pick(p)) /\ Fair(finish_pick(p))
           /\ finish_pick(p).kind = p.kind /\ finish_pick(p).status \in {"Drafting", "Deckbuilding"}
<1> DEFINE n == p.kind.seats
           q == finish_pick(p)
<1>0. p.kind \in Kinds /\ n \in Nat \ {0} /\ SeatsOf(p) = 0..(n - 1) /\ p.kind.size \in Nat \ {0} /\ p.kind.packs \in Nat \ {0}
  BY KindNumbers DEF Formed, SeatsOf
<1>1. p.current_pack_number \in Nat /\ p.pick_number \in Nat /\ p.current_pack_number < p.kind.packs
  BY DEF Formed, Fair
<1>2. CASE ~RoundComplete(p)
  <2>1. q = p
    BY <1>2 DEF finish_pick
  <2> QED BY <2>1
<1>3. CASE RoundComplete(p) /\ \E s \in SeatsOf(p) : p.current_pack[s] > 0
  <2> DEFINE passed == [d \in SeatsOf(p) |-> p.current_pack[CHOOSE s \in SeatsOf(p) : next_seat(p, s) = d]]
  <2>1. q = [[p EXCEPT !.picked = {}] EXCEPT !.pick_number = @ + 1, !.current_pack = passed]
    BY <1>3 DEF finish_pick
  <2>2. \A d \in SeatsOf(p) : passed[d] \in Nat /\ \E s \in SeatsOf(p) : passed[d] = p.current_pack[s]
    <3> SUFFICES ASSUME NEW d \in SeatsOf(p)
                 PROVE  \E s \in SeatsOf(p) : passed[d] = p.current_pack[s]
      BY DEF Formed
    <3> DEFINE from == CHOOSE s \in SeatsOf(p) : next_seat(p, s) = d
    <3>1. from = IF p.current_pack_number % 2 = 0
                 THEN IF d = 0 THEN p.kind.seats - 1 ELSE d - 1
                 ELSE IF d = p.kind.seats - 1 THEN 0 ELSE d + 1
      BY PassedOn
    <3>2. passed[d] = p.current_pack[from]
      OBVIOUS
    <3> HIDE DEF from, passed
    <3>3. from \in SeatsOf(p)
      BY <1>0, <3>1
    <3> QED BY <3>2, <3>3
  <2> HIDE DEF passed, q
  <2>3. /\ DOMAIN q = PodFields /\ q.kind = p.kind /\ q.status = p.status /\ q.claimed = p.claimed /\ q.picked = {}
        /\ q.current_pack_number = p.current_pack_number /\ q.pick_number = p.pick_number + 1
        /\ q.current_pack = passed /\ q.pool = p.pool
    BY <2>1 DEF Formed, PodFields
  <2>4. SeatsOf(q) = SeatsOf(p) /\ Rest(q) = Rest(p) /\ Past(q) = Past(p)
    BY <2>3 DEF SeatsOf, Rest, Past
  <2>5. passed \in [SeatsOf(p) -> Nat]
    BY <2>2 DEF passed
  <2>6. Formed(q)
    BY <1>1, <2>3, <2>4, <2>5 DEF Formed
  <2>7. Total(Cards(q), n) = Total(Cards(p), n)
    <3>1. \A d \in SeatsOf(p) : q.current_pack[d] = p.current_pack[CHOOSE s \in SeatsOf(p) : next_seat(p, s) = d]
      BY <2>3 DEF passed
    <3> QED BY <2>3, <2>4, <2>6, <3>1, PassKeepsCards
  <2>8. ASSUME p.kind.per_pick = 1 PROVE InStep(q)
    <3>1. InStep(p)
      BY <2>8 DEF Fair
    <3> DEFINE size == p.kind.size
               pn == p.pick_number
               past == Past(p)
    <3>2. size \in Nat /\ pn \in Nat /\ past \in Nat /\ pn < size
      BY <1>0, <1>1, <3>1, ShareNumbers DEF InStep
    <3>3. ASSUME NEW s \in SeatsOf(p)
          PROVE  s \in p.picked /\ p.current_pack[s] = size - pn - 1 /\ p.pool[s] = past + pn + 1
      <4>1. /\ p.current_pack[s] = size - pn - Taken(p, s) /\ p.pool[s] = past + pn + Taken(p, s)
            /\ ~(p.current_pack[s] > 0 /\ s \notin p.picked)
        BY <1>3, <3>1 DEF InStep, RoundComplete, OwesPick
      <4> HIDE DEF size, pn, past
      <4> QED BY <3>2, <4>1 DEF Taken
    <3>4. PICK s \in SeatsOf(p) : p.current_pack[s] > 0
      BY <1>3
    <3>5. /\ q.kind.size = size /\ q.pick_number = pn + 1 /\ Past(q) = past /\ q.picked = {}
          /\ \A d \in SeatsOf(q) : q.pool[d] = past + pn + 1 /\ q.current_pack[d] = size - pn - 1
      BY <2>2, <2>3, <2>4, <3>3
    <3>6. pn + 1 < size
      <4>1. p.current_pack[s] = size - pn - 1
        BY <3>3
      <4> HIDE DEF size, pn, past
      <4> QED BY <3>2, <3>4, <4>1
    <3>7. ASSUME NEW d \in SeatsOf(q)
          PROVE  q.current_pack[d] = size - (pn + 1) - 0 /\ q.pool[d] = past + (pn + 1) + 0
      <4>1. q.pool[d] = past + pn + 1 /\ q.current_pack[d] = size - pn - 1
        BY <3>5
      <4> HIDE DEF size, pn, past
      <4> QED BY <3>2, <4>1
    <3>8. \A d \in SeatsOf(q) : Taken(q, d) = 0
      BY <3>5 DEF Taken
    <3> HIDE DEF size, pn, past
    <3> QED BY <3>5, <3>6, <3>7, <3>8 DEF InStep
  <2>9. Fair(q)
    BY <1>1, <2>3, <2>7, <2>8 DEF Fair, Later
  <2> QED BY <2>3, <2>6, <2>9 DEF q
<1>4. CASE RoundComplete(p) /\ ~(\E s \in SeatsOf(p) : p.current_pack[s] > 0)
  <2>0. \A s \in SeatsOf(p) : p.current_pack[s] = 0 /\ p.pool[s] \in Nat
    BY <1>4 DEF Formed
  <2>1. ASSUME p.kind.per_pick = 1
        PROVE  \A s \in SeatsOf(p) : p.pool[s] = Past(p) + p.kind.size
    <3>1. InStep(p)
      BY <2>1 DEF Fair
    <3> DEFINE size == p.kind.size
               pn == p.pick_number
               past == Past(p)
    <3>2. size \in Nat /\ pn \in Nat /\ past \in Nat /\ pn < size
      BY <1>0, <1>1, <3>1, ShareNumbers DEF InStep
    <3>3. ASSUME NEW s \in SeatsOf(p) PROVE p.pool[s] = past + size
      <4>1. /\ p.current_pack[s] = size - pn - Taken(p, s) /\ p.pool[s] = past + pn + Taken(p, s)
            /\ p.current_pack[s] = 0
        BY <2>0, <3>1 DEF InStep
      <4> HIDE DEF size, pn, past
      <4> QED BY <3>2, <4>1 DEF Taken
    <3> QED BY <3>3
  <2>2. CASE p.current_pack_number + 1 >= p.kind.packs
    <3>1. q = [[p EXCEPT !.picked = {}] EXCEPT !.current_pack_number = @ + 1, !.status = "Deckbuilding"]
      BY <1>4, <2>2 DEF finish_pick
    <3> HIDE DEF q
    <3>2. /\ DOMAIN q = PodFields /\ q.kind = p.kind /\ q.status = "Deckbuilding" /\ q.claimed = p.claimed /\ q.picked = {}
          /\ q.current_pack_number = p.current_pack_number + 1 /\ q.pick_number = p.pick_number
          /\ q.current_pack = p.current_pack /\ q.pool = p.pool
      BY <3>1 DEF Formed, PodFields
    <3>3. SeatsOf(q) = SeatsOf(p)
      BY <3>2 DEF SeatsOf
    <3>4. Formed(q)
      BY <1>1, <3>2, <3>3 DEF Formed, Later
    <3>5. Past(q) = Past(p) + p.kind.size
      <4> DEFINE size == p.kind.size
                 packs == p.kind.packs
                 number == p.current_pack_number
      <4>1. size \in Nat /\ packs \in Nat /\ number \in Nat
        BY <1>0, <1>1
      <4>2. /\ Past(p) = number * size /\ Past(q) = (number + 1) * size
        BY <3>2 DEF Past
      <4>3. (number + 1) * size = number * size + size
        <5> HIDE DEF size, packs, number
        <5> QED BY ONLY <4>1, Opened
      <4> QED BY ONLY <4>2, <4>3
    <3>6. Rest(p) = 0
      <4>1. p.kind.packs - p.current_pack_number - 1 = 0
        BY <1>0, <1>1, <2>2
      <4> QED BY <1>0, <4>1 DEF Rest
    <3>7. ASSUME NEW s \in 0..(n - 1) PROVE Cards(q)[s] = Cards(p)[s]
      BY <1>0, <2>0, <3>2, <3>3, <3>6 DEF Cards
    <3>8. Total(Cards(q), n) = Total(Cards(p), n)
      <4> HIDE DEF n
      <4> QED BY <1>0, <3>7, TotalSame
    <3>9. Fair(q)
      BY <2>1, <3>2, <3>3, <3>5, <3>8 DEF Fair, Later
    <3> QED BY <3>2, <3>4, <3>9 DEF q
  <2>3. CASE ~(p.current_pack_number + 1 >= p.kind.packs)
    <3>1. q = [[p EXCEPT !.picked = {}] EXCEPT !.current_pack_number = @ + 1, !.pick_number = 0,
                            !.current_pack = [s \in SeatsOf(p) |-> p.kind.size]]
      BY <1>4, <2>3 DEF finish_pick
    <3> HIDE DEF q
    <3>2. /\ DOMAIN q = PodFields /\ q.kind = p.kind /\ q.status = "Drafting" /\ q.claimed = p.claimed /\ q.picked = {}
          /\ q.current_pack_number = p.current_pack_number + 1 /\ q.pick_number = 0
          /\ q.current_pack = [s \in SeatsOf(p) |-> p.kind.size] /\ q.pool = p.pool
      BY <3>1 DEF Formed, PodFields
    <3>3. SeatsOf(q) = SeatsOf(p)
      BY <3>2 DEF SeatsOf
    <3>4. Formed(q)
      BY <1>0, <1>1, <3>2, <3>3 DEF Formed, Later
    <3>5. Past(q) = Past(p) + p.kind.size /\ p.kind.size + Rest(q) = Rest(p)
      <4> DEFINE size == p.kind.size
                 packs == p.kind.packs
                 number == p.current_pack_number
      <4>1. size \in Nat /\ packs \in Nat /\ number \in Nat
        BY <1>0, <1>1
      <4>2. /\ Past(p) = number * size /\ Past(q) = (number + 1) * size
            /\ Rest(p) = (packs - number - 1) * size /\ Rest(q) = (packs - (number + 1) - 1) * size
        BY <3>2 DEF Past, Rest
      <4>3. /\ (number + 1) * size = number * size + size
            /\ size + (packs - (number + 1) - 1) * size = (packs - number - 1) * size
        <5> HIDE DEF size, packs, number
        <5> QED BY ONLY <4>1, Opened
      <4> QED BY ONLY <4>2, <4>3
    <3>6. Rest(p) \in Int /\ Rest(q) \in Int /\ Past(p) \in Nat
      BY <3>4, ShareNumbers
    <3>7. ASSUME NEW s \in 0..(n - 1) PROVE Cards(q)[s] = Cards(p)[s]
      BY <1>0, <2>0, <3>2, <3>3, <3>5, <3>6 DEF Cards
    <3>8. Total(Cards(q), n) = Total(Cards(p), n)
      <4> HIDE DEF n
      <4> QED BY <1>0, <3>7, TotalSame
    <3>9. ASSUME p.kind.per_pick = 1 PROVE InStep(q)
      <4>1. \A s \in SeatsOf(q) : Taken(q, s) = 0 /\ q.current_pack[s] = q.kind.size /\ q.pool[s] = Past(q)
        BY <2>1, <3>2, <3>3, <3>5, <3>9 DEF Taken
      <4>2. q.pick_number = 0 /\ q.kind.size \in Nat \ {0} /\ Past(q) \in Nat
        BY <1>0, <3>2, <3>4, ShareNumbers
      <4> QED BY <4>1, <4>2 DEF InStep
    <3>10. q.current_pack_number < q.kind.packs
      BY <1>0, <1>1, <2>3, <3>2
    <3> QED BY <3>2, <3>4, <3>8, <3>9, <3>10 DEF Fair, Later, q
  <2> QED BY <2>2, <2>3
<1> QED BY <1>2, <1>3, <1>4

\* A step of any seats: what leaves a pack enters the pool.
LEMMA TakeKeeps ==
    ASSUME NEW p, Formed(p), Fair(p), p.status = "Drafting", NEW q, NEW n,
           DOMAIN q = PodFields, q.kind = p.kind, q.status = p.status, q.claimed = p.claimed,
           q.current_pack_number = p.current_pack_number, q.pick_number = p.pick_number,
           q.picked \subseteq SeatsOf(p),
           q.current_pack = [s \in SeatsOf(p) |-> p.current_pack[s] - n[s]],
           q.pool = [s \in SeatsOf(p) |-> p.pool[s] + n[s]],
           \A s \in SeatsOf(p) : n[s] \in Nat /\ n[s] <= p.current_pack[s],
           p.kind.per_pick = 1 => \A s \in SeatsOf(p) : Taken(q, s) = Taken(p, s) + n[s]
    PROVE  Formed(q) /\ Fair(q)
<1>1. SeatsOf(q) = SeatsOf(p) /\ Rest(q) = Rest(p) /\ Past(q) = Past(p) /\ Rest(p) \in Int /\ Past(p) \in Nat
  BY ShareNumbers DEF SeatsOf, Rest, Past
<1>2. ASSUME NEW s \in SeatsOf(p)
      PROVE  /\ p.current_pack[s] \in Nat /\ p.pool[s] \in Nat /\ n[s] \in Nat
             /\ q.current_pack[s] = p.current_pack[s] - n[s] /\ q.pool[s] = p.pool[s] + n[s]
             /\ q.current_pack[s] \in Nat /\ q.pool[s] \in Nat
  BY DEF Formed
<1>3. Formed(q)
  BY <1>1, <1>2 DEF Formed
<1>4. p.kind.seats \in Nat /\ SeatsOf(p) = 0..(p.kind.seats - 1)
  BY KindNumbers DEF Formed, SeatsOf
<1>5. ASSUME NEW s \in 0..(p.kind.seats - 1) PROVE Cards(q)[s] = Cards(p)[s]
  <2>1. s \in SeatsOf(p)
    BY <1>4
  <2>2. /\ Cards(p)[s] = p.pool[s] + (p.current_pack[s] + Rest(p))
        /\ Cards(q)[s] = (p.pool[s] + n[s]) + ((p.current_pack[s] - n[s]) + Rest(p))
    BY <1>1, <1>2, <2>1 DEF Cards
  <2> DEFINE a == p.pool[s]
             b == p.current_pack[s]
             c == n[s]
             r == Rest(p)
  <2>3. a \in Nat /\ b \in Nat /\ c \in Nat /\ r \in Int
    BY <1>1, <1>2, <2>1
  <2>4. Cards(p)[s] = a + (b + r) /\ Cards(q)[s] = (a + c) + ((b - c) + r)
    BY <2>2
  <2> HIDE DEF a, b, c, r
  <2> QED BY <2>3, <2>4
<1>6. Total(Cards(q), p.kind.seats) = Total(Cards(p), p.kind.seats)
  BY <1>4, <1>5, TotalSame
<1>7. ASSUME p.kind.per_pick = 1 PROVE InStep(q)
  <2> DEFINE size == p.kind.size
             pn == p.pick_number
             past == Past(p)
  <2>1. InStep(p)
    BY <1>7 DEF Fair
  <2>2. size \in Nat /\ pn \in Nat /\ past \in Nat /\ pn < size
    BY <1>1, <2>1, KindNumbers DEF InStep, Formed
  <2>3. ASSUME NEW s \in SeatsOf(p)
        PROVE  q.current_pack[s] = size - pn - Taken(q, s) /\ q.pool[s] = past + pn + Taken(q, s)
    <3>1. /\ p.current_pack[s] = size - pn - Taken(p, s) /\ p.pool[s] = past + pn + Taken(p, s)
          /\ Taken(q, s) = Taken(p, s) + n[s] /\ Taken(p, s) \in Nat
      BY <1>7, <2>1 DEF InStep, Taken
    <3> HIDE DEF size, pn, past
    <3> QED BY <1>2, <2>2, <3>1
  <2> QED BY <1>1, <2>2, <2>3 DEF InStep
<1>8. Fair(q)
  BY <1>6, <1>7 DEF Fair, Later
<1> QED BY <1>3, <1>8

\* The count of a step, and the smaller of two numbers.
LEMMA StepCount ==
    ASSUME NEW p, Formed(p), NEW s \in SeatsOf(p), p.current_pack[s] > 0
    PROVE  /\ required_pick_count(p, s) \in 1..p.current_pack[s]
           /\ p.kind.per_pick = 1 => required_pick_count(p, s) = 1
<1> DEFINE a == p.kind.per_pick
           b == p.current_pack[s]
           m == IF a <= b THEN a ELSE b
<1>1. a \in 1..2 /\ b \in Nat /\ b > 0
  BY KindNumbers DEF Formed
<1> HIDE DEF a, b
<1>2. m \in {a, b} /\ \A y \in {a, b} : m <= y
  BY <1>1
<1>3. ASSUME NEW x \in {a, b}, \A y \in {a, b} : x <= y PROVE x = m
  BY <1>1, <1>2, <1>3
<1>4. Min({a, b}) = m
  <2> HIDE DEF m
  <2> QED BY <1>2, <1>3 DEF Min
<1>5. required_pick_count(p, s) = m
  BY <1>4 DEF required_pick_count, a, b
<1>6. m \in 1..b /\ (a = 1 => m = 1)
  BY <1>1
<1> QED BY <1>5, <1>6 DEF a, b

\* One seat picks.
LEMMA PickKeeps ==
    ASSUME NEW p, Formed(p), Fair(p), NEW s \in SeatsOf(p), MayPick(p, s),
           NEW n \in 1..p.current_pack[s], p.kind.per_pick = 1 => n = 1
    PROVE  /\ Formed(Picked(p, s, n)) /\ Fair(Picked(p, s, n))
           /\ Picked(p, s, n).kind = p.kind /\ Picked(p, s, n).status \in {"Drafting", "Deckbuilding"}
<1> DEFINE q == [p EXCEPT !.current_pack[s] = @ - n, !.pool[s] = @ + n, !.picked = @ \cup {s}]
           ns == [u \in SeatsOf(p) |-> IF u = s THEN n ELSE 0]
<1>1. p.status = "Drafting" /\ s \notin p.picked
  BY DEF MayPick, OwesPick
<1>2. p.current_pack \in [SeatsOf(p) -> Nat] /\ p.pool \in [SeatsOf(p) -> Nat] /\ n \in Nat /\ n <= p.current_pack[s]
  BY DEF Formed
<1>3. /\ DOMAIN q = PodFields /\ q.kind = p.kind /\ q.status = p.status /\ q.claimed = p.claimed
      /\ q.current_pack_number = p.current_pack_number /\ q.pick_number = p.pick_number
      /\ q.picked = p.picked \cup {s}
      /\ q.current_pack = [p.current_pack EXCEPT ![s] = @ - n]
      /\ q.pool = [p.pool EXCEPT ![s] = @ + n]
  BY DEF Formed, PodFields
<1> HIDE DEF q
<1>4. \A u \in SeatsOf(p) : ns[u] \in Nat /\ ns[u] <= p.current_pack[u]
  BY <1>2
<1>5. q.current_pack = [u \in SeatsOf(p) |-> p.current_pack[u] - ns[u]]
  BY <1>2, <1>3
<1>6. q.pool = [u \in SeatsOf(p) |-> p.pool[u] + ns[u]]
  BY <1>2, <1>3
<1>7. ASSUME p.kind.per_pick = 1 PROVE \A u \in SeatsOf(p) : Taken(q, u) = Taken(p, u) + ns[u]
  BY <1>1, <1>3, <1>7 DEF Taken
<1>8. q.picked \subseteq SeatsOf(p)
  BY <1>3 DEF Formed
<1> HIDE DEF ns
<1>9. Formed(q) /\ Fair(q)
  BY <1>1, <1>3, <1>4, <1>5, <1>6, <1>7, <1>8, TakeKeeps
<1>10. Picked(p, s, n) = finish_pick(q)
  BY DEF Picked, q
<1> QED BY <1>1, <1>3, <1>9, <1>10, FinishKeeps

\* The timer picks for every seat that has not.
LEMMA AutoKeeps ==
    ASSUME NEW p, Formed(p), Fair(p), p.status = "Drafting"
    PROVE  /\ Formed(AutoPicked(p)) /\ Fair(AutoPicked(p))
           /\ AutoPicked(p).kind = p.kind /\ AutoPicked(p).status \in {"Drafting", "Deckbuilding"}
<1> DEFINE n == [s \in SeatsOf(p) |-> IF OwesPick(p, s) THEN required_pick_count(p, s) ELSE 0]
           q == [p EXCEPT !.current_pack = [s \in SeatsOf(p) |-> @[s] - n[s]],
                          !.pool = [s \in SeatsOf(p) |-> @[s] + n[s]],
                          !.picked = @ \cup {s \in SeatsOf(p) : OwesPick(p, s)}]
<1>1. ASSUME NEW s \in SeatsOf(p)
      PROVE  /\ n[s] \in Nat /\ n[s] <= p.current_pack[s]
             /\ p.kind.per_pick = 1 => n[s] = IF OwesPick(p, s) THEN 1 ELSE 0
  <2>1. p.current_pack[s] \in Nat
    BY DEF Formed
  <2>2. CASE OwesPick(p, s)
    <3>1. required_pick_count(p, s) \in 1..p.current_pack[s] /\ (p.kind.per_pick = 1 => required_pick_count(p, s) = 1)
      BY <2>2, StepCount DEF OwesPick
    <3>2. n[s] = required_pick_count(p, s)
      BY <2>2
    <3> HIDE DEF n
    <3> QED BY <2>1, <2>2, <3>1, <3>2
  <2>3. CASE ~OwesPick(p, s)
    BY <2>1, <2>3
  <2> QED BY <2>2, <2>3
<1>2. AutoPicked(p) = finish_pick(q)
  BY DEF AutoPicked
<1> HIDE DEF n
<1>3. /\ DOMAIN q = PodFields /\ q.kind = p.kind /\ q.status = p.status /\ q.claimed = p.claimed
      /\ q.current_pack_number = p.current_pack_number /\ q.pick_number = p.pick_number
      /\ q.picked = p.picked \cup {s \in SeatsOf(p) : OwesPick(p, s)}
      /\ q.current_pack = [s \in SeatsOf(p) |-> p.current_pack[s] - n[s]]
      /\ q.pool = [s \in SeatsOf(p) |-> p.pool[s] + n[s]]
  BY DEF Formed, PodFields
<1> HIDE DEF q
<1>4. ASSUME p.kind.per_pick = 1 PROVE \A s \in SeatsOf(p) : Taken(q, s) = Taken(p, s) + n[s]
  BY <1>1, <1>3, <1>4 DEF Taken, OwesPick
<1>5. q.picked \subseteq SeatsOf(p)
  BY <1>3 DEF Formed
<1>6. Formed(q) /\ Fair(q)
  BY <1>1, <1>3, <1>4, <1>5, TakeKeeps
<1> QED BY <1>2, <1>3, <1>6, FinishKeeps

-----------------------------------------------------------------------------
(* Steps that deal no cards, and the start. *)

\* What a step leaves of a pod's cards, seats and kind decides.
LEMMA SameCards ==
    ASSUME NEW p, Formed(p), Fair(p), NEW q, DOMAIN q = PodFields,
           q.kind = p.kind, q.claimed \subseteq SeatsOf(p), q.picked = p.picked,
           q.current_pack_number = p.current_pack_number, q.pick_number = p.pick_number,
           q.current_pack = p.current_pack, q.pool = p.pool,
           q.status = p.status \/ (p.status \in Later /\ q.status \in Later)
    PROVE  Formed(q) /\ Fair(q)
<1>1. SeatsOf(q) = SeatsOf(p) /\ Rest(q) = Rest(p) /\ Past(q) = Past(p)
  BY DEF SeatsOf, Rest, Past
<1>2. Formed(q)
  BY <1>1 DEF Formed
<1>3. Cards(q) = Cards(p)
  BY <1>1 DEF Cards, Later
<1>4. Empty(p) => Empty(q)
  BY <1>1 DEF Empty
<1>5. InStep(p) => InStep(q)
  BY <1>1 DEF InStep, Taken
<1>6. Fair(q)
  BY <1>1, <1>3, <1>4, <1>5 DEF Fair, Later
<1> QED BY <1>2, <1>6

\* A product of three.
LEMMA Threefold ==
    ASSUME NEW a \in Nat, NEW b \in Nat, NEW c \in Nat
    PROVE  a * (b * c) = a * b * c /\ b * c \in Nat
OBVIOUS

\* The first boosters are opened.
LEMMA StartKeeps ==
    ASSUME NEW p, Formed(p), Fair(p), p.status = "Lobby"
    PROVE  LET q == [p EXCEPT !.status = "Drafting", !.current_pack = [s \in SeatsOf(p) |-> p.kind.size]]
           IN  Formed(q) /\ Fair(q) /\ q.status = "Drafting"
<1> DEFINE q == [p EXCEPT !.status = "Drafting", !.current_pack = [s \in SeatsOf(p) |-> p.kind.size]]
<1>1. /\ DOMAIN q = PodFields /\ q.kind = p.kind /\ q.status = "Drafting" /\ q.claimed = p.claimed /\ q.picked = p.picked
      /\ q.current_pack_number = p.current_pack_number /\ q.pick_number = p.pick_number
      /\ q.current_pack = [s \in SeatsOf(p) |-> p.kind.size] /\ q.pool = p.pool
  BY DEF Formed, PodFields
<1> HIDE DEF q
<1>2. Empty(p)
  BY DEF Fair
<1>3. SeatsOf(q) = SeatsOf(p)
  BY <1>1 DEF SeatsOf
<1>4. p.kind.size \in Nat \ {0} /\ p.kind.packs \in Nat \ {0} /\ p.kind.seats \in Nat /\ SeatsOf(p) = 0..(p.kind.seats - 1)
  BY KindNumbers DEF Formed, SeatsOf
<1>5. Formed(q)
  BY <1>1, <1>3, <1>4 DEF Formed
<1> DEFINE size == p.kind.size
           packs == p.kind.packs
           seats == p.kind.seats
<1>6. Past(q) = 0 * size /\ Rest(q) = (packs - 0 - 1) * size
  BY <1>1, <1>2 DEF Past, Rest, Empty
<1>7. Past(q) = 0 /\ size + Rest(q) = packs * size /\ Rest(q) \in Int /\ packs * size \in Nat
  <2> HIDE DEF size, packs
  <2>1. size \in Nat /\ packs \in Nat
    BY <1>4 DEF size, packs
  <2>2. size + (packs - 0 - 1) * size = packs * size /\ 0 * size = 0 /\ (packs - 0 - 1) * size \in Int /\ packs * size \in Nat
    BY <2>1
  <2> QED BY <1>6, <2>2
<1>8. ASSUME NEW s \in 0..(seats - 1) PROVE Cards(q)[s] = packs * size
  <2>1. Cards(q)[s] = 0 + (size + Rest(q))
    BY <1>1, <1>2, <1>3, <1>4 DEF Cards, Empty
  <2> HIDE DEF size, packs
  <2> QED BY <1>7, <2>1
<1>9. Total(Cards(q), seats) = seats * packs * size
  <2>1. seats \in Nat /\ packs \in Nat /\ size \in Nat
    BY <1>4
  <2> HIDE DEF size, packs, seats
  <2>2. Total(Cards(q), seats) = seats * (packs * size)
    BY <1>7, <1>8, <2>1, TotalConst
  <2> QED BY <2>1, <2>2, Threefold
<1>10. InStep(q)
  <2>1. ASSUME NEW s \in SeatsOf(q)
        PROVE  Taken(q, s) = 0 /\ q.current_pack[s] = size /\ q.pool[s] = 0
    BY <1>1, <1>2, <1>3 DEF Taken, Empty
  <2>2. q.pick_number = 0 /\ q.kind.size = size /\ size \in Nat \ {0}
    BY <1>1, <1>2, <1>4 DEF Empty
  <2> HIDE DEF size
  <2> QED BY <1>7, <2>1, <2>2 DEF InStep
<1>11. Fair(q)
  BY <1>1, <1>2, <1>4, <1>9, <1>10 DEF Fair, Later, Empty
<1> QED BY <1>1, <1>5, <1>11 DEF q

-----------------------------------------------------------------------------
(* The sweep of the absent. *)

\* One seat of the sweep.
LEMMA SweptKeeps ==
    ASSUME NEW p, Sound(p), NEW s, p # NoRow => s \in SeatsOf(p)
    PROVE  /\ Sound(Swept(p, s))
           /\ Swept(p, s) # NoRow => p # NoRow /\ Swept(p, s).kind = p.kind
           /\ Swept(p, s).status = "Drafting" => p.status = "Drafting"
<1>1. CASE p = NoRow
  <2>1. p.status = "Gone"
    BY <1>1 DEF NoRow
  <2>2. Swept(p, s) = p
    BY <2>1 DEF Swept
  <2> QED BY <1>1, <2>1, <2>2
<1>2. CASE Formed(p) /\ Fair(p)
  <2>0. p # NoRow /\ s \in SeatsOf(p)
    BY <1>2 DEF Formed, NoRow, Later
  <2>1. CASE p.status = "Drafting"
    <3>1. Swept(p, s) = pick_random(p, s)
      BY <2>1 DEF Swept
    <3>2. CASE MayPick(p, s)
      <4>1. pick_random(p, s) = Picked(p, s, required_pick_count(p, s))
        BY <3>2 DEF pick_random
      <4>2. /\ required_pick_count(p, s) \in 1..p.current_pack[s]
            /\ p.kind.per_pick = 1 => required_pick_count(p, s) = 1
        BY <1>2, <2>0, <3>2, StepCount DEF MayPick, OwesPick
      <4>3. PICK n \in 1..p.current_pack[s] : n = required_pick_count(p, s)
        BY <4>2
      <4>4. /\ Formed(Picked(p, s, n)) /\ Fair(Picked(p, s, n))
            /\ Picked(p, s, n).kind = p.kind /\ Picked(p, s, n).status \in {"Drafting", "Deckbuilding"}
        BY <1>2, <2>0, <3>2, <4>2, <4>3, PickKeeps
      <4> QED BY <2>0, <2>1, <3>1, <4>1, <4>3, <4>4 DEF Sound
    <3>3. CASE ~MayPick(p, s)
      BY <1>2, <2>0, <2>1, <3>1, <3>3 DEF pick_random, Sound
    <3> QED BY <3>2, <3>3
  <2>2. CASE p.status = "Lobby" /\ s = Host
    <3>1. Swept(p, s) = NoRow
      BY <2>2 DEF Swept
    <3> QED BY <3>1 DEF Sound, NoRow
  <2>3. CASE p.status = "Lobby" /\ s # Host
    <3> DEFINE q == [p EXCEPT !.claimed = @ \ {s}, !.bots = @ \ {s}]
    <3>1. Swept(p, s) = q
      BY <2>3 DEF Swept
    <3>2. /\ DOMAIN q = PodFields /\ q.kind = p.kind /\ q.status = p.status /\ q.claimed = p.claimed \ {s}
          /\ q.picked = p.picked /\ q.current_pack_number = p.current_pack_number
          /\ q.pick_number = p.pick_number /\ q.current_pack = p.current_pack /\ q.pool = p.pool
      BY <1>2 DEF Formed, PodFields
    <3> HIDE DEF q
    <3>3. q.claimed \subseteq SeatsOf(p)
      BY <1>2, <3>2 DEF Formed
    <3>4. Formed(q) /\ Fair(q)
      BY <1>2, <3>2, <3>3, SameCards
    <3> QED BY <2>0, <2>3, <3>1, <3>2, <3>4 DEF Sound
  <2>4. CASE p.status \notin {"Drafting", "Lobby"}
    <3>1. Swept(p, s) = p
      BY <2>4 DEF Swept
    <3> QED BY <2>0, <3>1
  <2> QED BY <2>1, <2>2, <2>3, <2>4
<1> QED BY <1>1, <1>2 DEF Sound

InTurn(g, order, n) == g = [i \in 0..n |-> IF i = 0 THEN pod ELSE Swept(g[i - 1], order[i])]

\* The recursion of SweptInTurn has a solution.
LEMMA TurnsExist ==
    ASSUME NEW order, NEW n \in Nat
    PROVE  \E g : InTurn(g, order, n)
<1> DEFINE S == {m \in Nat : \E g : InTurn(g, order, m)}
<1>1. 0 \in S
  <2> DEFINE g0 == [i \in 0..0 |-> pod]
  <2>1. InTurn(g0, order, 0)
    BY DEF InTurn
  <2> QED BY <2>1
<1>2. ASSUME NEW m \in Nat, m \in S PROVE m + 1 \in S
  <2>1. PICK g : InTurn(g, order, m)
    BY <1>2
  <2> DEFINE h == [i \in 0..(m + 1) |-> IF i = m + 1 THEN Swept(g[m], order[m + 1]) ELSE g[i]]
  <2>2. ASSUME NEW i \in 0..(m + 1) PROVE h[i] = IF i = 0 THEN pod ELSE Swept(h[i - 1], order[i])
    <3>1. CASE i = 0
      BY <2>1, <3>1 DEF InTurn
    <3>2. CASE i = m + 1
      BY <3>2
    <3>3. CASE i \in 1..m
      <4>1. g[i] = Swept(g[i - 1], order[i])
        BY <2>1, <3>3 DEF InTurn
      <4> QED BY <3>3, <4>1
    <3> QED BY <3>1, <3>2, <3>3
  <2>3. InTurn(h, order, m + 1)
    BY <2>2 DEF InTurn
  <2> HIDE DEF h
  <2> QED BY <2>3
<1> HIDE DEF S
<1>3. n \in S
  BY <1>1, <1>2, Inductive
<1> QED BY <1>3 DEF S

\* The sweep keeps the pod sound, and starts no drafting.
LEMMA SweepKeeps ==
    ASSUME Sound(pod), NEW order \in Seq(SeatsOf(pod)), pod # NoRow
    PROVE  /\ Sound(SweptInTurn(order))
           /\ SweptInTurn(order).status = "Drafting" => pod.status = "Drafting"
<1> DEFINE g == CHOOSE g : InTurn(g, order, Len(order))
           Good(p) == /\ Sound(p)
                      /\ p.status = "Drafting" => pod.status = "Drafting"
                      /\ p # NoRow => p.kind = pod.kind
           S == {k \in Nat : k <= Len(order) => Good(g[k])}
<1>1. Len(order) \in Nat /\ \A i \in 1..Len(order) : order[i] \in SeatsOf(pod)
  OBVIOUS
<1>2. InTurn(g, order, Len(order))
  BY <1>1, TurnsExist
<1>3. SweptInTurn(order) = g[Len(order)]
  BY DEF SweptInTurn, InTurn
<1> HIDE DEF g
<1>4. 0 \in S
  <2>1. g[0] = pod
    BY <1>1, <1>2 DEF InTurn
  <2> QED BY <2>1
<1>5. ASSUME NEW k \in Nat, k \in S PROVE k + 1 \in S
  <2>1. SUFFICES ASSUME k + 1 <= Len(order) PROVE Good(g[k + 1])
    OBVIOUS
  <2>2. k + 1 \in 0..Len(order) /\ (k + 1) - 1 = k /\ k + 1 # 0 /\ k + 1 \in 1..Len(order)
    BY <1>1, <2>1
  <2>3. g[k + 1] = Swept(g[(k + 1) - 1], order[k + 1])
    BY <1>2, <2>2 DEF InTurn
  <2>4. Good(g[k])
    BY <1>1, <1>5, <2>1
  <2>5. PICK p : p = g[k]
    OBVIOUS
  <2>6. PICK s : s = order[k + 1]
    OBVIOUS
  <2>7. Sound(p) /\ (p # NoRow => s \in SeatsOf(p) /\ p.kind = pod.kind) /\ (p.status = "Drafting" => pod.status = "Drafting")
    BY <1>1, <2>2, <2>4, <2>5, <2>6 DEF SeatsOf
  <2>8. /\ Sound(Swept(p, s))
        /\ Swept(p, s) # NoRow => p # NoRow /\ Swept(p, s).kind = p.kind
        /\ Swept(p, s).status = "Drafting" => p.status = "Drafting"
    BY <2>7, SweptKeeps
  <2>9. g[k + 1] = Swept(p, s)
    BY <2>2, <2>3, <2>5, <2>6
  <2> QED BY <2>7, <2>8, <2>9
<1> HIDE DEF S
<1>6. Len(order) \in S
  BY <1>1, <1>4, <1>5, Inductive
<1>7. Good(g[Len(order)])
  BY <1>1, <1>6 DEF S
<1> QED BY <1>3, <1>7

-----------------------------------------------------------------------------
(* The steps, pod by pod. *)

\* The least of some numbers is one of them.
LEMMA MinIn ==
    ASSUME NEW S, S \subseteq Nat, S # {}
    PROVE  Min(S) \in S
<1>1. \E x \in S : \A y \in S : x <= y
  BY LeastNumber
<1> QED BY <1>1 DEF Min

\* A pod that exists is formed and fair.
LEMMA ExistsFormed ==
    ASSUME Sound(pod), Exists
    PROVE  Formed(pod) /\ Fair(pod)
BY DEF Sound, Exists, NoRow

\* A formed pod exists.
LEMMA FormedExists ==
    ASSUME NEW p, Formed(p)
    PROVE  p # NoRow /\ p.status # "Gone"
BY DEF Formed, NoRow, Later

\* A report changes results, records and the state of the round.
LEMMA ReportedKeeps ==
    ASSUME Sound(pod), NEW i, NEW w, MayReport(i, w)
    PROVE  Sound(Reported(i, w)) /\ Reported(i, w).status \in Later
<1> DEFINE a == Undone(pod, i)
           b == [a EXCEPT !.pairings[i].complete = TRUE, !.pairings[i].winner = w]
           c == Recorded(b, i, w)
           d == IF AllComplete(c) THEN [c EXCEPT !.status = IF Over(c) THEN "Complete" ELSE "RoundComplete"] ELSE c
           Kept(q) == /\ DOMAIN q = PodFields /\ q.kind = pod.kind /\ q.claimed = pod.claimed /\ q.picked = pod.picked
                      /\ q.current_pack_number = pod.current_pack_number /\ q.pick_number = pod.pick_number
                      /\ q.current_pack = pod.current_pack /\ q.pool = pod.pool
<1>1. Formed(pod) /\ Fair(pod) /\ pod.status \in Later
  BY ExistsFormed DEF MayReport, Later
<1>2. Kept(a) /\ a.status = pod.status
  <2>0. Kept(pod)
    BY <1>1 DEF Formed
  <2>1. \E x : a = pod \/ a = [pod EXCEPT !.match_wins = x]
    BY DEF Undone
  <2> HIDE DEF a
  <2> QED BY <2>0, <2>1 DEF PodFields
<1> HIDE DEF a
<1>3. Kept(b) /\ b.status = pod.status
  BY <1>2 DEF PodFields
<1> HIDE DEF b
<1>4. Kept(c) /\ c.status = pod.status
  <2>1. \E x : c = b \/ c = [b EXCEPT !.match_wins = x]
    BY DEF Recorded
  <2> HIDE DEF c
  <2> QED BY <1>3, <2>1 DEF PodFields
<1> HIDE DEF c
<1>5. Kept(d) /\ d.status \in Later
  BY <1>1, <1>4 DEF PodFields, Later
<1>6. Reported(i, w) = d
  BY DEF Reported, a, b, c
<1> HIDE DEF d
<1>7. d.claimed \subseteq SeatsOf(pod)
  BY <1>1, <1>5 DEF Formed
<1>8. Formed(d) /\ Fair(d)
  BY <1>1, <1>5, <1>7, SameCards
<1> QED BY <1>5, <1>6, <1>8 DEF Sound

\* A step that changes none of what a pod's cards depend on.
LEMMA Untouched ==
    ASSUME NEW p, Formed(p), Fair(p), NEW q, DOMAIN q = PodFields,
           \A f \in PodFields \ {"status", "claimed", "bots", "decks", "current_round", "pairings", "match_wins"} : q[f] = p[f],
           q.claimed \subseteq SeatsOf(p), q.status = p.status \/ (p.status \in Later /\ q.status \in Later)
    PROVE  Sound(q)
<1>1. /\ q.kind = p.kind /\ q.picked = p.picked
      /\ q.current_pack_number = p.current_pack_number /\ q.pick_number = p.pick_number
      /\ q.current_pack = p.current_pack /\ q.pool = p.pool
  BY DEF PodFields
<1>2. Formed(q) /\ Fair(q)
  BY <1>1, SameCards
<1> QED BY <1>2 DEF Sound

\* The lapsed seats, in any order.
LEMMA SweepOrder ==
    ASSUME Sound(pod), Exists, NEW order \in SetToSeqs({s \in Claimed : presence[s] = "expired"})
    PROVE  order \in Seq(SeatsOf(pod))
<1> DEFINE expired == {s \in Claimed : presence[s] = "expired"}
<1>1. Formed(pod)
  BY ExistsFormed
<1>2. expired \subseteq SeatsOf(pod)
  BY <1>1 DEF Claimed, Formed
<1>3. IsFiniteSet(SeatsOf(pod))
  <2>1. pod.kind.seats - 1 \in Int
    BY <1>1, KindNumbers DEF Formed
  <2> QED BY <2>1, FS_Interval DEF SeatsOf
<1> HIDE DEF expired
<1>4. Cardinality(expired) \in Nat
  BY <1>2, <1>3, FS_Subset, FS_CardinalityType
<1>5. order \in [1..Cardinality(expired) -> expired]
  BY DEF SetToSeqs, expired
<1>6. PICK n \in Nat : n = Cardinality(expired)
  BY <1>4
<1>7. order \in [1..n -> SeatsOf(pod)]
  BY <1>2, <1>5, <1>6
<1> QED BY <1>7

\* Every step keeps the pod sound; drafting is begun by the host and carried
\* on by a restart.
LEMMA StepKeepsSound ==
    ASSUME Sound(pod), Sound(row), DNext
    PROVE  Sound(pod') /\ Sound(row')
<1>1. CASE JoinDraft
  <2> DEFINE open == SeatsOf(pod) \ pod.claimed
             q == [pod EXCEPT !.claimed = @ \cup {Min(open)}, !.bots = @ \ {Min(open)}]
  <2>1. pod.status = "Lobby" /\ open # {} /\ pod' = q /\ row' = row
    BY <1>1 DEF JoinDraft
  <2>2. Formed(pod) /\ Fair(pod)
    BY <2>1, ExistsFormed DEF Exists
  <2>3. Min(open) \in open
    <3>1. open \subseteq Nat
      BY <2>2, KindNumbers DEF SeatsOf, Formed
    <3> HIDE DEF open
    <3> QED BY <2>1, <3>1, MinIn
  <2>4. /\ DOMAIN q = PodFields /\ q.claimed \subseteq SeatsOf(pod) /\ q.status = pod.status
        /\ \A f \in PodFields \ {"status", "claimed", "bots", "decks", "current_round", "pairings", "match_wins"} : q[f] = pod[f]
    BY <2>2, <2>3 DEF Formed, PodFields
  <2> HIDE DEF q
  <2>5. Sound(q)
    BY <2>2, <2>4, Untouched
  <2> QED BY <2>1, <2>5
<1>2. CASE StartDraft
  <2>1. Formed(pod) /\ Fair(pod) /\ pod.status = "Lobby"
    BY <1>2, ExistsFormed DEF StartDraft, Free, here
  <2>2. pod' = [pod EXCEPT !.status = "Drafting", !.current_pack = [s \in SeatsOf(pod) |-> pod.kind.size]] /\ row' = row
    BY <1>2 DEF StartDraft, Handled
  <2>3. PICK p : p = pod
    OBVIOUS
  <2>4. LET q == [p EXCEPT !.status = "Drafting", !.current_pack = [s \in SeatsOf(p) |-> p.kind.size]]
        IN  Formed(q) /\ Fair(q) /\ q.status = "Drafting"
    BY <2>1, <2>3, StartKeeps
  <2> QED BY <2>2, <2>3, <2>4 DEF Sound
<1>3. CASE AdvanceRound
  <2>1. Formed(pod) /\ Fair(pod) /\ pod.status = "RoundComplete"
    BY <1>3, ExistsFormed DEF AdvanceRound, Free, here
  <2> DEFINE q == [pod EXCEPT !.status = "Pairing"]
  <2>2. pod' = q /\ row' = row
    BY <1>3 DEF AdvanceRound, Handled
  <2>3. /\ DOMAIN q = PodFields /\ q.claimed \subseteq SeatsOf(pod) /\ pod.status \in Later /\ q.status \in Later
        /\ \A f \in PodFields \ {"status", "claimed", "bots", "decks", "current_round", "pairings", "match_wins"} : q[f] = pod[f]
    BY <2>1 DEF Formed, PodFields, Later
  <2> HIDE DEF q
  <2> QED BY <2>1, <2>2, <2>3, Untouched
<1>4. CASE Sweep
  <2> DEFINE expired == {s \in Claimed : presence[s] = "expired"}
  <2>1. PICK order \in SetToSeqs(expired) : pod' = SweptInTurn(order)
    BY <1>4 DEF Sweep
  <2>2. expired # {} /\ row' = row
    BY <1>4 DEF Sweep
  <2>3. Exists
    BY <2>2 DEF Claimed
  <2>4. Formed(pod) /\ pod # NoRow
    BY <2>3, ExistsFormed, FormedExists
  <2>8. order \in Seq(SeatsOf(pod))
    BY <2>1, <2>3, SweepOrder
  <2>9. Sound(SweptInTurn(order))
    BY <2>4, <2>8, SweepKeeps
  <2> QED BY <2>1, <2>2, <2>9
<1>5. CASE Save
  BY <1>5 DEF Save
<1>6. CASE Restart
  BY <1>6 DEF Restart
<1>7. ASSUME NEW s \in Seats, Disconnect(s) \/ GraceExpires(s) \/ ReconnectDraft(s) PROVE Sound(pod') /\ Sound(row')
  BY <1>7 DEF Disconnect, GraceExpires, ReconnectDraft
<1>8. ASSUME NEW s \in Seats, HandlerTail(s) PROVE Sound(pod') /\ Sound(row')
  <2>1. row' = row /\ (pod' = pod \/ (Exists /\ pod.status = "Pairing" /\ \E o \in Pools : pod' = Paired(o)))
    BY <1>8 DEF HandlerTail
  <2>2. CASE Exists /\ pod.status = "Pairing" /\ \E o \in Pools : pod' = Paired(o)
    <3>1. PICK o \in Pools : pod' = Paired(o)
      BY <2>2
    <3>2. Formed(pod) /\ Fair(pod)
      BY <2>2, ExistsFormed
    <3> DEFINE q == Paired(o)
    <3>3. \E x, y, z : q = [pod EXCEPT !.status = "MatchInProgress", !.current_round = x, !.match_wins = y, !.pairings = z]
      BY DEF Paired
    <3> HIDE DEF q
    <3>4. /\ DOMAIN q = PodFields /\ q.claimed \subseteq SeatsOf(pod) /\ pod.status \in Later /\ q.status \in Later
          /\ \A f \in PodFields \ {"status", "claimed", "bots", "decks", "current_round", "pairings", "match_wins"} : q[f] = pod[f]
      BY <2>2, <3>2, <3>3 DEF Formed, PodFields, Later
    <3>5. Sound(q)
      BY <3>2, <3>4, Untouched
    <3> QED BY <2>1, <3>1, <3>5 DEF q
  <2> QED BY <2>1, <2>2
<1>9. ASSUME NEW s \in Seats, Pick(s) PROVE Sound(pod') /\ Sound(row')
  <2>1. PICK n \in StepSizes(pod, s) : Handled(s, Picked(pod, s, n))
    BY <1>9 DEF Pick
  <2>2. Free(s) /\ MayPick(pod, s)
    BY <1>9 DEF Pick
  <2>3. Formed(pod) /\ Fair(pod) /\ s \in SeatsOf(pod)
    BY <2>2, ExistsFormed DEF Free, here, Formed
  <2>4. pod.current_pack[s] > 0 /\ pod.current_pack[s] \in Nat
    BY <2>2, <2>3 DEF MayPick, OwesPick, Formed
  <2>5. PICK p : p = pod
    OBVIOUS
  <2>6. /\ required_pick_count(p, s) \in 1..p.current_pack[s]
        /\ p.kind.per_pick = 1 => required_pick_count(p, s) = 1
    BY <2>3, <2>4, <2>5, StepCount
  <2>7. n \in 1..p.current_pack[s] /\ (p.kind.per_pick = 1 => n = 1)
    BY <2>1, <2>4, <2>5, <2>6 DEF StepSizes
  <2>8. /\ Formed(Picked(p, s, n)) /\ Fair(Picked(p, s, n))
    BY <2>2, <2>3, <2>5, <2>7, PickKeeps
  <2>9. pod' = Picked(p, s, n) /\ row' = row
    BY <2>1, <2>5 DEF Handled
  <2> QED BY <2>8, <2>9 DEF Sound
<1>10. ASSUME NEW s \in Seats, SubmitDeck(s) PROVE Sound(pod') /\ Sound(row')
  <2>1. Formed(pod) /\ Fair(pod) /\ pod.status = "Deckbuilding"
    BY <1>10, ExistsFormed DEF SubmitDeck, Free, here
  <2>2. /\ \E x, y : y \in Later /\ pod' = [pod EXCEPT !.decks = x, !.status = y]
        /\ row' = row
    <3> DEFINE decks == pod.decks \cup {s}
               st == IF SeatsOf(pod) \ pod.bots \subseteq decks
                     THEN IF pod.kind.pairs THEN "Pairing" ELSE "Complete"
                     ELSE pod.status
    <3>1. pod' = [pod EXCEPT !.decks = decks, !.status = st] /\ row' = row
      BY <1>10, <2>1 DEF SubmitDeck, Handled, Formed, PodFields
    <3>2. st \in Later
      BY <2>1 DEF Later
    <3> QED BY <3>1, <3>2
  <2>3. PICK x, y : y \in Later /\ pod' = [pod EXCEPT !.decks = x, !.status = y]
    BY <2>2
  <2> DEFINE q == [pod EXCEPT !.decks = x, !.status = y]
  <2>4. /\ DOMAIN q = PodFields /\ q.claimed \subseteq SeatsOf(pod) /\ pod.status \in Later /\ q.status \in Later
        /\ \A f \in PodFields \ {"status", "claimed", "bots", "decks", "current_round", "pairings", "match_wins"} : q[f] = pod[f]
    BY <2>1, <2>3 DEF Formed, PodFields, Later
  <2>5. pod' = q
    BY <2>3
  <2> HIDE DEF q
  <2>6. Sound(q)
    BY <2>1, <2>4, Untouched
  <2> QED BY <2>2, <2>5, <2>6
<1>11. ASSUME NEW s \in Seats, ReplaceSeatWithBot(s) PROVE Sound(pod') /\ Sound(row')
  <2>1. Formed(pod) /\ Fair(pod)
    BY <1>11, ExistsFormed DEF ReplaceSeatWithBot, Free, here
  <2> DEFINE q == [pod EXCEPT !.bots = @ \cup {s}]
  <2>2. pod' = q /\ row' = row
    BY <1>11 DEF ReplaceSeatWithBot, Handled
  <2>3. /\ DOMAIN q = PodFields /\ q.claimed \subseteq SeatsOf(pod) /\ q.status = pod.status
        /\ \A f \in PodFields \ {"status", "claimed", "bots", "decks", "current_round", "pairings", "match_wins"} : q[f] = pod[f]
    BY <2>1 DEF Formed, PodFields
  <2> HIDE DEF q
  <2>4. Sound(q)
    BY <2>1, <2>3, Untouched
  <2> QED BY <2>2, <2>4
<1>12. ASSUME NEW t \in Timers, TimerExpires(t) PROVE Sound(pod') /\ Sound(row')
  <2>1. row' = row /\ (pod' = pod \/ (Exists /\ pod.status = "Drafting" /\ pod' = AutoPicked(pod)))
    BY <1>12 DEF TimerExpires
  <2>2. CASE Exists /\ pod.status = "Drafting" /\ pod' = AutoPicked(pod)
    <3>1. PICK p : p = pod
      OBVIOUS
    <3>2. Formed(AutoPicked(p)) /\ Fair(AutoPicked(p))
      BY <2>2, <3>1, ExistsFormed, AutoKeeps
    <3> QED BY <2>1, <2>2, <3>1, <3>2 DEF Sound
  <2> QED BY <2>1, <2>2
<1>13. ASSUME NEW t \in Timers, RegisterTimer(t) \/ TimerTick(t) \/ TimerRearms(t) PROVE Sound(pod') /\ Sound(row')
  BY <1>13 DEF RegisterTimer, TimerTick, TimerRearms
<1>14. ASSUME NEW s \in Seats, ArmTimer(s) PROVE Sound(pod') /\ Sound(row')
  BY <1>14 DEF ArmTimer
<1>15. ASSUME NEW i, NEW w, ReportMatchResult(i, w) \/ GameOver(i, w) PROVE Sound(pod') /\ Sound(row')
  <2>1. row' = row /\ (pod' = pod \/ \E v : MayReport(i, v) /\ pod' = Reported(i, v))
    BY <1>15 DEF ReportMatchResult, GameOver, Handled
  <2>2. ASSUME NEW v, MayReport(i, v), pod' = Reported(i, v) PROVE Sound(pod')
    BY <2>2, ReportedKeeps
  <2> QED BY <2>1, <2>2
<1> QED BY <1>1, <1>2, <1>3, <1>4, <1>5, <1>6, <1>7, <1>8, <1>9, <1>10, <1>11, <1>12, <1>13, <1>14, <1>15
        DEF DNext, TaskStep

\* A new pod is sound, and there is no row.
LEMMA SoundAtFirst ==
    ASSUME DInit
    PROVE  Sound(pod) /\ Sound(row)
<1>1. PICK k \in Kinds :
        pod = [kind |-> k, status |-> "Lobby", claimed |-> {Host}, bots |-> {},
               current_pack_number |-> 0, pick_number |-> 0, current_pack |-> [s \in 0..(k.seats - 1) |-> 0], picked |-> {},
               pool |-> [s \in 0..(k.seats - 1) |-> 0], decks |-> {}, current_round |-> 0, pairings |-> << >>,
               match_wins |-> [s \in 0..(k.seats - 1) |-> 0]]
  BY DEF DInit
<1>2. /\ DOMAIN pod = PodFields /\ pod.kind = k /\ pod.status = "Lobby" /\ pod.claimed = {Host} /\ pod.picked = {}
      /\ pod.current_pack_number = 0 /\ pod.pick_number = 0
      /\ pod.current_pack = [s \in 0..(k.seats - 1) |-> 0] /\ pod.pool = [s \in 0..(k.seats - 1) |-> 0]
  BY <1>1 DEF PodFields
<1>3. k.seats \in Nat \ {0} /\ SeatsOf(pod) = 0..(k.seats - 1)
  BY <1>2, KindNumbers DEF SeatsOf
<1>4. Formed(pod)
  BY <1>2, <1>3 DEF Formed, Host
<1>5. Fair(pod)
  BY <1>2, <1>3 DEF Fair, Empty, Later
<1> QED BY <1>4, <1>5 DEF Sound, DInit

\* Every pod, in memory and on disk, is sound.
LEMMA AlwaysSound == DSpec => [](Sound(pod) /\ Sound(row))
<1>1. DInit => Sound(pod) /\ Sound(row)
  BY SoundAtFirst
<1>2. Sound(pod) /\ Sound(row) /\ [DNext]_dvars => (Sound(pod) /\ Sound(row))'
  <2> SUFFICES ASSUME Sound(pod), Sound(row), [DNext]_dvars PROVE Sound(pod') /\ Sound(row')
    BY DEF Sound, Formed, Fair, NoRow, Empty, InStep, Cards, Past, Rest, Taken, SeatsOf, Later, PodFields
  <2>1. CASE UNCHANGED dvars
    BY <2>1 DEF dvars
  <2> QED BY <2>1, StepKeepsSound
<1> QED BY <1>1, <1>2, PTL DEF DSpec

\* The cards of a sound pod add up, and its seats are even.
LEMMA SoundIsFair ==
    ASSUME Sound(pod)
    PROVE  FairPools
<1> SUFFICES ASSUME Exists, pod.status # "Lobby"
             PROVE  /\ Total([s \in SeatsOf(pod) |-> pod.pool[s] + IF Drafting THEN Left(s) ELSE 0], pod.kind.seats)
                          = pod.kind.seats * pod.kind.packs * pod.kind.size
                    /\ pod.kind.per_pick = 1 => \A s \in SeatsOf(pod) :
                        pod.pool[s] = pod.current_pack_number * pod.kind.size
                                        + IF Drafting THEN pod.pick_number + Cardinality(pod.picked \cap {s}) ELSE 0
  BY DEF FairPools
<1>1. Formed(pod) /\ Fair(pod)
  BY ExistsFormed
<1>2. [s \in SeatsOf(pod) |-> pod.pool[s] + IF Drafting THEN Left(s) ELSE 0] = Cards(pod)
  BY DEF Cards, Left, Rest, Drafting
<1>3. Total(Cards(pod), pod.kind.seats) = pod.kind.seats * pod.kind.packs * pod.kind.size
  BY <1>1 DEF Fair
<1>4. ASSUME pod.kind.per_pick = 1, NEW s \in SeatsOf(pod)
      PROVE  pod.pool[s] = Past(pod) + IF Drafting THEN pod.pick_number + Cardinality(pod.picked \cap {s}) ELSE 0
  <2>0. Past(pod) \in Nat /\ pod.pick_number \in Nat
    BY <1>1, ShareNumbers DEF Formed
  <2>1. CASE Drafting
    <3>1. pod.pool[s] = Past(pod) + pod.pick_number + Taken(pod, s)
      BY <1>1, <1>4, <2>1 DEF Fair, InStep, Drafting
    <3>2. Cardinality(pod.picked \cap {s}) = Taken(pod, s)
      <4>1. CASE s \in pod.picked
        <5>1. pod.picked \cap {s} = {s}
          BY <4>1
        <5> QED BY <4>1, <5>1, FS_Singleton DEF Taken
      <4>2. CASE s \notin pod.picked
        <5>1. pod.picked \cap {s} = {}
          BY <4>2
        <5> QED BY <4>2, <5>1, FS_EmptySet DEF Taken
      <4> QED BY <4>1, <4>2
    <3>3. Taken(pod, s) \in Nat
      BY DEF Taken
    <3> QED BY <2>0, <2>1, <3>1, <3>2, <3>3
  <2>2. CASE ~Drafting
    <3>1. pod.status \in Later
      BY <1>1, <2>2 DEF Formed, Drafting
    <3>2. pod.pool[s] = Past(pod)
      BY <1>1, <1>4, <3>1 DEF Fair
    <3> QED BY <2>0, <2>2, <3>2
  <2> QED BY <2>1, <2>2
<1> QED BY <1>2, <1>3, <1>4 DEF Past

\* No card is lost or dealt twice and, where a step is one card, no seat has
\* picked more often than another, whatever the order of picks, expiries,
\* sweeps, saves and restarts (finish_pick, pick_random_for_seat).
THEOREM PoolsStayFair == DSpec => []FairPools
BY AlwaysSound, SoundIsFair, PTL

-----------------------------------------------------------------------------
(* The pick timers. *)

\* A handle that is still to be stored is that of a task that runs.
Pending == \A t \in unregistered : t \in Timers /\ timer[t] = "running" /\ t # timer_task

TimerTypes ==
    /\ timer \in [Timers -> {"none", "running", "due", "rearming"}]
    /\ handler \in [Seats -> {"idle", "arm", "tail"}]

Timed == TimerTypes /\ Pending /\ OneTimer /\ TimerCovers

\* A step that leaves the tasks alone.  Drafting goes on as it was armed, or is
\* begun by a handler that has the timer to arm.
Quiet ==
    /\ timer' = timer /\ unregistered' = unregistered
    /\ timer_task' = timer_task \/ (timer_task' = 0 /\ ~Exists')
    /\ Exists' => Exists
    /\ handler' \in [Seats -> {"idle", "arm", "tail"}]
    /\ Drafting' => \/ Drafting /\ \A s \in Seats : handler[s] = "arm" => handler'[s] = "arm"
                    \/ \E s \in Seats : handler'[s] = "arm"

\* A quiet step keeps the timers in order.
LEMMA QuietKeeps ==
    ASSUME Timed, Quiet
    PROVE  Timed'
<1>1. TimerTypes'
  BY DEF Timed, TimerTypes, Quiet
<1>2. Pending'
  BY DraftConstants DEF Timed, Pending, Quiet
<1>3. OneTimer'
  BY DEF Timed, OneTimer, Quiet
<1>4. TimerCovers'
  BY DEF Timed, TimerCovers, Quiet
<1> QED BY <1>1, <1>2, <1>3, <1>4 DEF Timed

\* A handler that has mutated the pod: only the start of the drafting, or a
\* pod that is being drafted, leaves one that is drafting.
LEMMA HandledQuiet ==
    ASSUME Timed, NEW s \in Seats, NEW p, Free(s), Handled(s, p),
           p.status = "Drafting" => pod.status \in {"Lobby", "Drafting"}
    PROVE  Quiet
<1>1. /\ pod' = p /\ UNCHANGED <<timer, timer_task, unregistered>>
      /\ handler' = [handler EXCEPT ![s] = IF should_rearm_pick_timer(pod, p) THEN "arm" ELSE "tail"]
  BY DEF Handled
<1>2. handler \in [Seats -> {"idle", "arm", "tail"}] /\ handler[s] = "idle" /\ Exists
  BY DEF Timed, TimerTypes, Free, here
<1>3. handler' \in [Seats -> {"idle", "arm", "tail"}]
  BY <1>1, <1>2
<1>4. \A u \in Seats : handler[u] = "arm" => handler'[u] = "arm"
  BY <1>1, <1>2
<1>5. ASSUME Drafting', ~Drafting PROVE handler'[s] = "arm"
  <2>1. p.status = "Drafting" /\ pod.status = "Lobby"
    BY <1>1, <1>2, <1>5 DEF Drafting, Exists
  <2>2. should_rearm_pick_timer(pod, p)
    BY <2>1 DEF should_rearm_pick_timer
  <2> QED BY <1>1, <1>2, <2>2
<1> QED BY <1>1, <1>2, <1>3, <1>4, <1>5 DEF Quiet

\* A free timer.
LEMMA FreeTimer ==
    ASSUME FreeTimers # {}
    PROVE  /\ Min(FreeTimers) \in Timers /\ timer[Min(FreeTimers)] = "none"
           /\ Min(FreeTimers) # timer_task /\ Min(FreeTimers) \notin unregistered
<1>1. FreeTimers \subseteq Nat
  BY DraftConstants DEF FreeTimers
<1>2. Min(FreeTimers) \in FreeTimers
  BY <1>1, MinIn
<1> QED BY <1>2 DEF FreeTimers

\* The tasks' own steps keep the timers in order.
LEMMA TaskKeepsTimed ==
    ASSUME Timed, TaskStep, pod' = pod \/ (pod.status = "Drafting" /\ pod'.status # "Gone")
    PROVE  Timed'
<1> USE DEF Timed, TimerTypes
<1>1. ASSUME NEW s \in Seats, ArmTimer(s) PROVE Timed'
  <2> DEFINE new == Min(FreeTimers)
  <2>1. /\ handler[s] = "arm" /\ handler' = [handler EXCEPT ![s] = "tail"] /\ FreeTimers # {}
        /\ timer' = [timer EXCEPT ![new] = "running"] /\ unregistered' = unregistered \cup {new}
        /\ pod' = pod /\ timer_task' = timer_task
    BY <1>1 DEF ArmTimer, SpawnInto
  <2>2. new \in Timers /\ timer[new] = "none" /\ new # timer_task /\ new \notin unregistered
    BY <2>1, FreeTimer
  <2> HIDE DEF new
  <2>3. TimerTypes'
    BY <2>1, <2>2
  <2>4. Pending'
    BY <2>1, <2>2 DEF Pending
  <2>5. OneTimer'
    BY <2>1, <2>2 DEF OneTimer, Exists
  <2>6. TimerCovers'
    BY <2>1, <2>2 DEF TimerCovers
  <2> QED BY <2>3, <2>4, <2>5, <2>6
<1>2. ASSUME NEW t \in Timers, RegisterTimer(t) PROVE Timed'
  <2>1. /\ t \in unregistered /\ unregistered' = unregistered \ {t} /\ pod' = pod /\ handler' = handler
    BY <1>2 DEF RegisterTimer
  <2>2. CASE Exists
    <3>1. /\ timer_task' = t
          /\ timer' = [u \in Timers |-> IF u \in {timer_task} \ {0} THEN "none" ELSE timer[u]]
      BY <1>2, <2>2 DEF RegisterTimer, Aborted
    <3>2. \A u \in Timers : u # 0
      BY DraftConstants
    <3>3. TimerTypes'
      BY <2>1, <3>1
    <3>4. Pending'
      BY <2>1, <3>1 DEF Pending
    <3>5. OneTimer'
      BY <2>1, <2>2, <3>1, <3>2 DEF OneTimer
    <3>6. TimerCovers'
      BY <2>1, <3>1 DEF TimerCovers, Pending
    <3> QED BY <3>3, <3>4, <3>5, <3>6
  <2>3. CASE ~Exists
    <3>1. UNCHANGED <<timer_task, timer>>
      BY <1>2, <2>3 DEF RegisterTimer
    <3> QED BY <2>1, <2>3, <3>1 DEF Pending, OneTimer, TimerCovers, Drafting, Exists
  <2> QED BY <2>2, <2>3
<1>3. ASSUME NEW t \in Timers, TimerTick(t) PROVE Timed'
  <2>1. /\ timer[t] = "running" /\ t \notin unregistered /\ unregistered' = unregistered
        /\ timer' = [timer EXCEPT ![t] = IF Exists /\ pod.status = "Drafting" THEN "due" ELSE "none"]
        /\ pod' = pod /\ handler' = handler /\ timer_task' = timer_task
    BY <1>3 DEF TimerTick
  <2>2. TimerTypes'
    BY <2>1
  <2>3. Pending'
    BY <2>1 DEF Pending
  <2>4. OneTimer'
    BY <2>1 DEF OneTimer, Exists
  <2>5. TimerCovers'
    BY <2>1 DEF TimerCovers, Drafting, Exists
  <2> QED BY <2>2, <2>3, <2>4, <2>5
<1>4. ASSUME NEW t \in Timers, TimerExpires(t) PROVE Timed'
  <2>1. /\ timer[t] = "due" /\ unregistered' = unregistered /\ handler' = handler /\ timer_task' = timer_task
        /\ \/ Drafting /\ timer' = [timer EXCEPT ![t] = "rearming"]
           \/ ~Drafting /\ timer' = [timer EXCEPT ![t] = "none"] /\ pod' = pod
    BY <1>4 DEF TimerExpires, Drafting
  <2>2. TimerTypes'
    BY <2>1
  <2>3. Pending'
    BY <2>1 DEF Pending
  <2>4. OneTimer'
    BY <2>1 DEF OneTimer, Exists, Drafting
  <2>5. TimerCovers'
    BY <2>1 DEF TimerCovers, Drafting, Exists
  <2> QED BY <2>2, <2>3, <2>4, <2>5
<1>5. ASSUME NEW t \in Timers, TimerRearms(t) PROVE Timed'
  <2>1. timer[t] = "rearming" /\ pod' = pod /\ handler' = handler /\ timer_task' = timer_task
    BY <1>5 DEF TimerRearms
  <2>2. CASE Drafting
    <3> DEFINE new == Min(FreeTimers)
    <3>1. /\ FreeTimers # {} /\ unregistered' = unregistered \cup {new}
          /\ timer' = [[timer EXCEPT ![new] = "running"] EXCEPT ![t] = "none"]
      BY <1>5, <2>2 DEF TimerRearms, StillDrafting, Drafting, SpawnInto
    <3>2. new \in Timers /\ timer[new] = "none" /\ new # timer_task /\ new \notin unregistered
      BY <3>1, FreeTimer
    <3> HIDE DEF new
    <3>3. TimerTypes'
      BY <2>1, <3>1, <3>2
    <3>4. Pending'
      BY <2>1, <3>1, <3>2 DEF Pending
    <3>5. OneTimer'
      BY <2>1, <2>2, <3>1, <3>2 DEF OneTimer, Exists
    <3>6. TimerCovers'
      BY <2>1, <3>1, <3>2 DEF TimerCovers
    <3> QED BY <3>3, <3>4, <3>5, <3>6
  <2>3. CASE ~Drafting
    <3>1. timer' = [timer EXCEPT ![t] = "none"] /\ unregistered' = unregistered
      BY <1>5, <2>3 DEF TimerRearms, StillDrafting, Drafting
    <3>2. TimerTypes'
      BY <2>1, <3>1
    <3>3. Pending'
      BY <2>1, <3>1 DEF Pending
    <3>4. OneTimer'
      BY <2>1, <3>1 DEF OneTimer, Exists
    <3>5. TimerCovers'
      BY <2>1, <2>3, <3>1 DEF TimerCovers, Drafting, Exists
    <3> QED BY <3>2, <3>3, <3>4, <3>5
  <2> QED BY <2>2, <2>3
<1> QED BY <1>1, <1>2, <1>3, <1>4, <1>5 DEF TaskStep

\* A restart times a pod that was being drafted, and no other.
LEMMA RestartKeepsTimed ==
    ASSUME Timed, Restart
    PROVE  Timed'
<1>1. Min(Timers) \in Timers /\ Min(Timers) # 0
  <2>1. Timers \subseteq Nat /\ Timers # {} /\ \A t \in Timers : t # 0
    BY DraftConstants
  <2> QED BY <2>1, MinIn
<1>2. pod' = row /\ timer_task' = 0 /\ handler' = [s \in Seats |-> "idle"]
  BY DEF Restart
<1>3. CASE row # NoRow /\ row.status = "Drafting"
  <2>1. timer' = [t \in Timers |-> IF t = Min(Timers) THEN "running" ELSE "none"] /\ unregistered' = {Min(Timers)}
    BY <1>3 DEF Restart
  <2>2. TimerTypes'
    BY <1>2, <2>1 DEF TimerTypes
  <2>3. Pending'
    BY <1>1, <1>2, <2>1 DEF Pending
  <2>4. OneTimer'
    BY <2>1 DEF OneTimer
  <2>5. TimerCovers'
    BY <1>1, <2>1 DEF TimerCovers
  <2> QED BY <2>2, <2>3, <2>4, <2>5 DEF Timed
<1>4. CASE ~(row # NoRow /\ row.status = "Drafting")
  <2>1. timer' = [t \in Timers |-> "none"] /\ unregistered' = {}
    BY <1>4 DEF Restart
  <2>2. TimerTypes'
    BY <1>2, <2>1 DEF TimerTypes
  <2>3. Pending' /\ OneTimer'
    BY <2>1 DEF Pending, OneTimer
  <2>4. ~Drafting'
    BY <1>2, <1>4 DEF Drafting, Exists, NoRow
  <2> QED BY <2>2, <2>3, <2>4 DEF Timed, TimerCovers
<1> QED BY <1>3, <1>4

\* Every step keeps the timers in order.
LEMMA StepKeepsTimed ==
    ASSUME Sound(pod), Timed, DNext
    PROVE  Timed'
<1>0. Host \in Seats
  BY DraftConstants DEF Host, Seats
<1>1. CASE JoinDraft
  <2> DEFINE open == SeatsOf(pod) \ pod.claimed
  <2>1. /\ pod.status = "Lobby" /\ pod' = [pod EXCEPT !.claimed = @ \cup {Min(open)}, !.bots = @ \ {Min(open)}]
        /\ UNCHANGED <<timer, timer_task, unregistered, handler>>
    BY <1>1 DEF JoinDraft
  <2>2. Exists /\ DOMAIN pod = PodFields
    BY <2>1, ExistsFormed DEF Exists, Formed
  <2>3. pod'.status = "Lobby"
    BY <2>1, <2>2 DEF PodFields
  <2>4. Quiet
    BY <2>1, <2>2, <2>3 DEF Quiet, Timed, TimerTypes, Drafting
  <2> QED BY <2>4, QuietKeeps
<1>2. CASE StartDraft
  <2>1. /\ Free(Host) /\ pod.status = "Lobby"
        /\ Handled(Host, [pod EXCEPT !.status = "Drafting", !.current_pack = [s \in SeatsOf(pod) |-> pod.kind.size]])
    BY <1>2 DEF StartDraft
  <2>2. Quiet
    BY <1>0, <2>1, HandledQuiet
  <2> QED BY <2>2, QuietKeeps
<1>3. CASE AdvanceRound
  <2>1. Free(Host) /\ Handled(Host, [pod EXCEPT !.status = "Pairing"])
    BY <1>3 DEF AdvanceRound
  <2>2. DOMAIN pod = PodFields
    BY <2>1, ExistsFormed DEF Free, here, Formed
  <2>3. [pod EXCEPT !.status = "Pairing"].status = "Pairing"
    BY <2>2 DEF PodFields
  <2>4. Quiet
    BY <1>0, <2>1, <2>3, HandledQuiet
  <2> QED BY <2>4, QuietKeeps
<1>4. CASE Sweep
  <2> DEFINE expired == {s \in Claimed : presence[s] = "expired"}
  <2>1. PICK order \in SetToSeqs(expired) : pod' = SweptInTurn(order)
    BY <1>4 DEF Sweep
  <2>2. /\ expired # {} /\ timer_task' = (IF pod'.status = "Gone" THEN 0 ELSE timer_task)
        /\ UNCHANGED <<timer, unregistered, handler>>
    BY <1>4 DEF Sweep
  <2>3. Exists
    BY <2>2 DEF Claimed
  <2>4. order \in Seq(SeatsOf(pod)) /\ pod # NoRow
    BY <2>1, <2>3, SweepOrder DEF Exists, NoRow
  <2>5. pod'.status = "Drafting" => pod.status = "Drafting"
    BY <2>1, <2>4, SweepKeeps
  <2>6. Quiet
    BY <2>2, <2>3, <2>5 DEF Quiet, Timed, TimerTypes, Drafting, Exists
  <2> QED BY <2>6, QuietKeeps
<1>5. CASE Save
  <2>1. UNCHANGED <<pod, timer, timer_task, unregistered, handler>>
    BY <1>5 DEF Save
  <2>2. Quiet
    BY <2>1 DEF Quiet, Timed, TimerTypes, Drafting, Exists
  <2> QED BY <2>2, QuietKeeps
<1>6. CASE Restart
  BY <1>6, RestartKeepsTimed
<1>7. ASSUME NEW s \in Seats, Disconnect(s) \/ GraceExpires(s) \/ ReconnectDraft(s) PROVE Timed'
  <2>1. UNCHANGED <<pod, timer, timer_task, unregistered, handler>>
    BY <1>7 DEF Disconnect, GraceExpires, ReconnectDraft
  <2>2. Quiet
    BY <2>1 DEF Quiet, Timed, TimerTypes, Drafting, Exists
  <2> QED BY <2>2, QuietKeeps
<1>8. ASSUME NEW s \in Seats, HandlerTail(s) PROVE Timed'
  <2>1. /\ handler[s] = "tail" /\ handler' = [handler EXCEPT ![s] = "idle"]
        /\ UNCHANGED <<timer, timer_task, unregistered>>
        /\ pod' = pod \/ (Exists /\ pod.status = "Pairing" /\ \E o \in Pools : pod' = Paired(o))
    BY <1>8 DEF HandlerTail
  <2>2. pod' = pod \/ (Exists /\ pod'.status = "MatchInProgress")
    <3>1. ASSUME Exists, NEW o \in Pools, pod' = Paired(o) PROVE pod'.status = "MatchInProgress"
      <4>1. DOMAIN pod = PodFields
        BY <3>1, ExistsFormed DEF Formed
      <4> QED BY <3>1, <4>1 DEF Paired, PodFields
    <3> QED BY <2>1, <3>1
  <2>3. Quiet
    <3>1. handler' \in [Seats -> {"idle", "arm", "tail"}] /\ \A u \in Seats : handler[u] = "arm" => handler'[u] = "arm"
      BY <2>1 DEF Timed, TimerTypes
    <3> QED BY <2>1, <2>2, <3>1 DEF Quiet, Drafting, Exists
  <2> QED BY <2>3, QuietKeeps
<1>9. ASSUME NEW s \in Seats, Pick(s) PROVE Timed'
  <2>1. Free(s) /\ pod.status = "Drafting" /\ \E p : Handled(s, p)
    BY <1>9 DEF Pick, MayPick
  <2>2. Quiet
    BY <2>1, HandledQuiet
  <2> QED BY <2>2, QuietKeeps
<1>10. ASSUME NEW s \in Seats, SubmitDeck(s) PROVE Timed'
  <2>1. Free(s) /\ pod.status = "Deckbuilding"
    BY <1>10 DEF SubmitDeck
  <2>2. DOMAIN pod = PodFields
    BY <2>1, ExistsFormed DEF Free, here, Formed
  <2>3. \E p : Handled(s, p) /\ p.status # "Drafting"
    <3> DEFINE decks == pod.decks \cup {s}
               p == [pod EXCEPT !.decks = decks,
                                !.status = IF SeatsOf(pod) \ pod.bots \subseteq decks
                                           THEN IF pod.kind.pairs THEN "Pairing" ELSE "Complete"
                                           ELSE @]
    <3>1. Handled(s, p)
      BY <1>10 DEF SubmitDeck
    <3>2. p.status # "Drafting"
      BY <2>1, <2>2 DEF PodFields
    <3> HIDE DEF p
    <3> QED BY <3>1, <3>2
  <2>4. Quiet
    BY <2>1, <2>3, HandledQuiet
  <2> QED BY <2>4, QuietKeeps
<1>11. ASSUME NEW s \in Seats, ReplaceSeatWithBot(s) PROVE Timed'
  <2>1. Free(Host) /\ Handled(Host, [pod EXCEPT !.bots = @ \cup {s}])
    BY <1>11 DEF ReplaceSeatWithBot
  <2>2. DOMAIN pod = PodFields
    BY <2>1, ExistsFormed DEF Free, here, Formed
  <2>3. [pod EXCEPT !.bots = @ \cup {s}].status = pod.status
    BY <2>2 DEF PodFields
  <2>4. Quiet
    BY <1>0, <2>1, <2>3, HandledQuiet
  <2> QED BY <2>4, QuietKeeps
<1>12. CASE TaskStep
  <2>1. pod' = pod \/ (pod.status = "Drafting" /\ pod'.status # "Gone")
    <3>1. ASSUME NEW t \in Timers, TimerExpires(t) PROVE pod' = pod \/ (pod.status = "Drafting" /\ pod'.status # "Gone")
      <4>1. pod' = pod \/ (Exists /\ pod.status = "Drafting" /\ pod' = AutoPicked(pod))
        BY <3>1 DEF TimerExpires
      <4>2. PICK p : p = pod
        OBVIOUS
      <4>3. CASE Exists /\ pod.status = "Drafting" /\ pod' = AutoPicked(pod)
        <5>1. AutoPicked(p).status \in {"Drafting", "Deckbuilding"}
          BY <4>2, <4>3, ExistsFormed, AutoKeeps
        <5> QED BY <4>2, <4>3, <5>1
      <4> QED BY <4>1, <4>3
    <3> QED BY <1>12, <3>1 DEF TaskStep, ArmTimer, RegisterTimer, TimerTick, TimerRearms
  <2> QED BY <1>12, <2>1, TaskKeepsTimed
<1>13. ASSUME NEW i, NEW w, ReportMatchResult(i, w) PROVE Timed'
  <2>1. Free(Host) /\ MayReport(i, w) /\ Handled(Host, Reported(i, w))
    BY <1>13 DEF ReportMatchResult
  <2>2. Reported(i, w).status # "Drafting"
    BY <2>1, ReportedKeeps DEF Later
  <2>3. Quiet
    BY <1>0, <2>1, <2>2, HandledQuiet
  <2> QED BY <2>3, QuietKeeps
<1>14. ASSUME NEW i, NEW w, GameOver(i, w) PROVE Timed'
  <2>1. /\ Exists /\ UNCHANGED <<timer, timer_task, unregistered, handler>>
        /\ pod' = pod \/ (MayReport(i, winner_seat(w)) /\ pod' = Reported(i, winner_seat(w)))
    BY <1>14 DEF GameOver
  <2>2. pod' = pod \/ pod'.status # "Drafting"
    BY <2>1, ReportedKeeps DEF Later
  <2>3. Quiet
    BY <2>1, <2>2 DEF Quiet, Timed, TimerTypes, Drafting, Exists
  <2> QED BY <2>3, QuietKeeps
<1> QED BY <1>1, <1>2, <1>3, <1>4, <1>5, <1>6, <1>7, <1>8, <1>9, <1>10, <1>11, <1>12, <1>13, <1>14 DEF DNext

\* The timers are in order in every state.
LEMMA AlwaysTimed == DSpec => []Timed
<1>1. DInit => Timed
  BY DEF DInit, Timed, TimerTypes, Pending, OneTimer, TimerCovers, Drafting
<1>2. Sound(pod) /\ Timed /\ [DNext]_dvars => Timed'
  <2> SUFFICES ASSUME Sound(pod), Timed, [DNext]_dvars PROVE Timed'
    OBVIOUS
  <2>1. CASE UNCHANGED dvars
    <3>1. Quiet
      BY <2>1 DEF dvars, Quiet, Timed, TimerTypes, Drafting, Exists
    <3> QED BY <3>1, QuietKeeps
  <2> QED BY <2>1, StepKeepsTimed
<1> QED BY <1>1, <1>2, AlwaysSound, PTL DEF DSpec

\* However handles are stored, aborted and re-armed, an existing pod's tasks are
\* the one whose handle it holds and those still to be stored
\* (spawn_pick_timer).
THEOREM TimersDoNotPileUp == DSpec => []OneTimer
BY AlwaysTimed, PTL DEF Timed

\* No order of expiries, aborts, re-arms, sweeps, saves and restarts leaves a
\* drafting pod without a task that runs or a handler about to arm one
\* (spawn_pick_timer, restore_persisted_drafts).
THEOREM DraftingIsTimed == DSpec => []TimerCovers
BY AlwaysTimed, PTL DEF Timed

-----------------------------------------------------------------------------
(* The rounds: in a pod of three or four, no two seats meet twice. *)

DraftPairing == [round : Nat, players : Seats \X Seats, complete : BOOLEAN, winner : Seats \cup {Nobody}]

Met(p, i) == Range(p.pairings[i].players)

\* Seats that meet do so in a round that was paired, no two seats meet twice,
\* nobody plays twice in a round, and in a pod of four the others meet too.
Tables(p) ==
    /\ p.pairings \in Seq(DraftPairing)
    /\ \A i \in DOMAIN p.pairings :
          /\ p.pairings[i].round \in 1..p.current_round
          /\ \E s, u \in SeatsOf(p) : s # u /\ Met(p, i) = {s, u}
    /\ \A i, j \in DOMAIN p.pairings : i # j =>
          /\ Met(p, i) # Met(p, j)
          /\ p.pairings[i].round = p.pairings[j].round => Met(p, i) \cap Met(p, j) = {}
    /\ p.kind.seats = 4 => \A i \in DOMAIN p.pairings : \E j \in DOMAIN p.pairings : Met(p, j) = SeatsOf(p) \ Met(p, i)

\* There are rounds only after the drafting, and a round is paired only while
\* there are fewer than three.
Robin(p) ==
    p.status # "Gone" =>
        /\ p.current_round \in Nat
        /\ p.status \in {"Lobby", "Drafting", "Deckbuilding"} => p.current_round = 0 /\ p.pairings = << >>
        /\ p.status \in {"Pairing", "RoundComplete"} => p.current_round <= 2
        /\ p.kind.seats \in {3, 4} => Tables(p)

\* Of two places, the first and the second.
LEMMA NthOfTwo ==
    ASSUME NEW x \in Nat, NEW y \in Nat, x < y
    PROVE  Cardinality({x, y}) = 2 /\ Nth({x, y}, 1) = x /\ Nth({x, y}, 2) = y
<1> DEFINE F == {x, y}
<1>1. {j \in F : j <= x} = {x} /\ {j \in F : j <= y} = F
  OBVIOUS
<1>2. Cardinality({x}) = 1 /\ IsFiniteSet({x})
  BY FS_Singleton
<1>3. Cardinality(F) = 2
  <2>1. F = {x} \cup {y} /\ y \notin {x}
    OBVIOUS
  <2>2. Cardinality({x} \cup {y}) = Cardinality({x}) + 1
    BY <1>2, <2>1, FS_AddElement
  <2> QED BY <1>2, <2>1, <2>2
<1>4. \A i \in F : Cardinality({j \in F : j <= i}) = IF i = x THEN 1 ELSE 2
  BY <1>1, <1>2, <1>3
<1>5. x \in F /\ y \in F /\ x # y /\ \A i \in F : i = x \/ i = y
  OBVIOUS
<1> HIDE DEF F
<1>6. Nth(F, 1) = x /\ Nth(F, 2) = y
  BY <1>4, <1>5 DEF Nth
<1> QED BY <1>3, <1>6 DEF F

\* The one of one.
LEMMA NthOfOne ==
    ASSUME NEW x \in Nat
    PROVE  Cardinality({x}) = 1 /\ Nth({x}, 1) = x
<1>1. Cardinality({x}) = 1
  BY FS_Singleton
<1>2. {j \in {x} : j <= x} = {x}
  OBVIOUS
<1> QED BY <1>1, <1>2 DEF Nth

\* Two can be matched in one way.
LEMMA PairOfTwo ==
    ASSUME NEW o, DOMAIN o = 1..2
    PROVE  /\ Fresh(o) # {} => ~Faced(o[1], o[2])
           /\ ~Faced(o[1], o[2]) /\ ~Faced(o[2], o[1]) => Fresh(o) # {}
           /\ pair_pool(o) = [k \in 1..1 |-> <<o[1], o[2]>>]
<1> DEFINE w == [i \in 1..2 |-> IF i = 1 THEN 2 ELSE 1]
<1>1. ASSUME NEW m \in Matchings(o) PROVE m = w
  <2>1. m \in [1..2 -> 1..2] /\ m[1] # 1 /\ m[2] # 2
    BY DEF Matchings
  <2>2. m[1] = 2 /\ m[2] = 1
    BY <2>1
  <2> QED BY <2>1, <2>2
<1>2. w \in Matchings(o)
  BY DEF Matchings
<1>3. w[1] = 2 /\ w[2] = 1
  OBVIOUS
<1> HIDE DEF w
<1>4. Fresh(o) # {} => ~Faced(o[1], o[2])
  BY <1>1, <1>3 DEF Fresh
<1>5. ~Faced(o[1], o[2]) /\ ~Faced(o[2], o[1]) => w \in Fresh(o)
  <2>1. \A i \in DOMAIN o : i = 1 \/ i = 2
    OBVIOUS
  <2> QED BY <1>2, <1>3, <2>1 DEF Fresh
<1> DEFINE C == IF Fresh(o) # {} THEN Fresh(o) ELSE Matchings(o)
           m == CHOOSE x \in C : \A y \in C \ {x} : Before(x, y)
           firsts == {i \in DOMAIN o : i < m[i]}
<1>6. C = {w}
  <2>1. Fresh(o) \subseteq Matchings(o)
    BY DEF Fresh
  <2> QED BY <1>1, <1>2, <2>1
<1>7. pair_pool(o) = [k \in 1..Cardinality(firsts) |-> <<o[Nth(firsts, k)], o[m[Nth(firsts, k)]]>>]
  BY DEF pair_pool
<1> HIDE DEF C
<1>8. m = w
  BY <1>6
<1> HIDE DEF m
<1>9. firsts = {1}
  BY <1>3, <1>8
<1> HIDE DEF firsts
<1>10. Cardinality(firsts) = 1 /\ Nth(firsts, 1) = 1
  BY <1>9, NthOfOne
<1>11. pair_pool(o) = [k \in 1..1 |-> <<o[1], o[2]>>]
  <2>1. \A k \in 1..1 : k = 1
    OBVIOUS
  <2> QED BY <1>3, <1>7, <1>8, <1>10, <2>1
<1> QED BY <1>4, <1>5, <1>11

\* Four can be matched in three ways, of which the search tries first the one
\* in which the first meets the earliest.
LEMMA PairsOfFour ==
    ASSUME NEW o, DOMAIN o = 1..4, Fresh(o) # {}
    PROVE  \E a, b, c, d \in 1..4 :
              /\ a # b /\ a # c /\ a # d /\ b # c /\ b # d /\ c # d
              /\ ~Faced(o[a], o[b]) /\ ~Faced(o[c], o[d])
              /\ pair_pool(o) = [k \in 1..2 |-> IF k = 1 THEN <<o[a], o[b]>> ELSE <<o[c], o[d]>>]
<1> DEFINE m == CHOOSE x \in Fresh(o) : \A y \in Fresh(o) \ {x} : Before(x, y)
           firsts == {i \in DOMAIN o : i < m[i]}
<1>1. ASSUME NEW x \in Fresh(o)
      PROVE  /\ x \in [1..4 -> 1..4] /\ x[1] \in {2, 3, 4}
             /\ x[1] = 2 => x[2] = 1 /\ x[3] = 4 /\ x[4] = 3
             /\ x[1] = 3 => x[2] = 4 /\ x[3] = 1 /\ x[4] = 2
             /\ x[1] = 4 => x[2] = 3 /\ x[3] = 2 /\ x[4] = 1
             /\ ~Faced(o[1], o[x[1]]) /\ ~Faced(o[2], o[x[2]]) /\ ~Faced(o[3], o[x[3]])
  <2>1. x \in [1..4 -> 1..4] /\ \A i \in 1..4 : x[i] # i /\ x[x[i]] = i /\ ~Faced(o[i], o[x[i]])
    BY DEF Fresh, Matchings
  <2>2. x[1] \in 1..4 /\ x[2] \in 1..4 /\ x[3] \in 1..4 /\ x[4] \in 1..4
    BY <2>1
  <2>3. /\ x[1] # 1 /\ x[2] # 2 /\ x[3] # 3 /\ x[4] # 4
        /\ x[x[1]] = 1 /\ x[x[2]] = 2 /\ x[x[3]] = 3 /\ x[x[4]] = 4
    BY <2>1
  <2>4. x[1] \in {2, 3, 4} /\ x[2] \in {1, 3, 4} /\ x[3] \in {1, 2, 4} /\ x[4] \in {1, 2, 3}
    BY <2>2, <2>3
  <2>5. x[1] = 2 => x[2] = 1 /\ x[3] = 4 /\ x[4] = 3
    BY <2>3, <2>4
  <2>6. x[1] = 3 => x[2] = 4 /\ x[3] = 1 /\ x[4] = 2
    BY <2>3, <2>4
  <2>7. x[1] = 4 => x[2] = 3 /\ x[3] = 2 /\ x[4] = 1
    BY <2>3, <2>4
  <2> QED BY <2>1, <2>4, <2>5, <2>6, <2>7
<1>2. \E x \in Fresh(o) : \A y \in Fresh(o) \ {x} : Before(x, y)
  <2> DEFINE T == {x[1] : x \in Fresh(o)}
  <2>1. T \subseteq Nat /\ T # {}
    <3>1. \A x \in Fresh(o) : x[1] \in Nat
      BY <1>1
    <3> QED BY <3>1
  <2>2. PICK t \in T : \A u \in T : t <= u
    BY <2>1, LeastNumber
  <2>3. PICK x \in Fresh(o) : t = x[1]
    BY <2>2
  <2>4. ASSUME NEW y \in Fresh(o) \ {x} PROVE Before(x, y)
    <3>1. x[1] <= y[1]
      BY <2>2, <2>3
    <3>2. x[1] # y[1]
      <4>1. SUFFICES ASSUME x[1] = y[1] PROVE x = y
        OBVIOUS
      <4>2. x \in [1..4 -> 1..4] /\ y \in [1..4 -> 1..4]
        BY <1>1
      <4>3. x[2] = y[2] /\ x[3] = y[3] /\ x[4] = y[4]
        BY <1>1, <4>1
      <4>4. \A i \in 1..4 : x[i] = y[i]
        BY <4>1, <4>3
      <4> QED BY <4>2, <4>4
    <3>3. x[1] \in Nat /\ y[1] \in Nat /\ 1 \in DOMAIN x
      BY <1>1
    <3>4. x[1] < y[1] /\ \A j \in 1..(1 - 1) : x[j] = y[j]
      BY <3>1, <3>2, <3>3
    <3> QED BY <3>3, <3>4 DEF Before
  <2> QED BY <2>4
<1>3. m \in Fresh(o)
  BY <1>2
<1>4. pair_pool(o) = [k \in 1..Cardinality(firsts) |-> <<o[Nth(firsts, k)], o[m[Nth(firsts, k)]]>>]
  BY DEF pair_pool
<1> HIDE DEF m
<1>5. ASSUME NEW y \in {2, 3}, firsts = {1, y}, m[y] \in 1..4, m[1] \in 1..4,
             m[1] # 1 /\ m[1] # y /\ m[1] # m[y] /\ m[y] # 1 /\ m[y] # y, ~Faced(o[1], o[m[1]]), ~Faced(o[y], o[m[y]])
      PROVE  \E a, b, c, d \in 1..4 :
                /\ a # b /\ a # c /\ a # d /\ b # c /\ b # d /\ c # d
                /\ ~Faced(o[a], o[b]) /\ ~Faced(o[c], o[d])
                /\ pair_pool(o) = [k \in 1..2 |-> IF k = 1 THEN <<o[a], o[b]>> ELSE <<o[c], o[d]>>]
  <2> HIDE DEF firsts
  <2>1. Cardinality(firsts) = 2 /\ Nth(firsts, 1) = 1 /\ Nth(firsts, 2) = y
    BY <1>5, NthOfTwo
  <2>2. pair_pool(o) = [k \in 1..2 |-> IF k = 1 THEN <<o[1], o[m[1]]>> ELSE <<o[y], o[m[y]]>>]
    <3>1. \A k \in 1..2 : k = 1 \/ k = 2
      OBVIOUS
    <3> QED BY <1>4, <2>1, <3>1
  <2>3. 1 \in 1..4 /\ y \in 1..4 /\ 1 # y
    OBVIOUS
  <2> QED BY <1>5, <2>2, <2>3
<1>6. CASE m[1] = 2
  <2>1. m[2] = 1 /\ m[3] = 4 /\ m[4] = 3 /\ ~Faced(o[1], o[m[1]]) /\ ~Faced(o[3], o[m[3]])
    BY <1>1, <1>3, <1>6
  <2>2. firsts = {1, 3}
    BY <1>6, <2>1
  <2> QED BY <1>5, <1>6, <2>1, <2>2
<1>7. CASE m[1] = 3
  <2>1. m[2] = 4 /\ m[3] = 1 /\ m[4] = 2 /\ ~Faced(o[1], o[m[1]]) /\ ~Faced(o[2], o[m[2]])
    BY <1>1, <1>3, <1>7
  <2>2. firsts = {1, 2}
    BY <1>7, <2>1
  <2> QED BY <1>5, <1>7, <2>1, <2>2
<1>8. CASE m[1] = 4
  <2>1. m[2] = 3 /\ m[3] = 2 /\ m[4] = 1 /\ ~Faced(o[1], o[m[1]]) /\ ~Faced(o[2], o[m[2]])
    BY <1>1, <1>3, <1>8
  <2>2. firsts = {1, 2}
    BY <1>8, <2>1
  <2> QED BY <1>5, <1>8, <2>1, <2>2
<1>9. m[1] \in {2, 3, 4}
  BY <1>1, <1>3
<1> QED BY <1>6, <1>7, <1>8, <1>9

\* What is left of a sequence without one element.
LEMMA RemoveAtIs ==
    ASSUME NEW P, NEW s \in Seq(P), NEW c \in 1..Len(s)
    PROVE  /\ RemoveAt(s, c) \in Seq(P) /\ Len(RemoveAt(s, c)) = Len(s) - 1
           /\ \A k \in 1..(Len(s) - 1) : RemoveAt(s, c)[k] = IF k < c THEN s[k] ELSE s[k + 1]
<1> DEFINE a == SubSeq(s, 1, c - 1)
           b == SubSeq(s, c + 1, Len(s))
<1>1. a \in Seq(P) /\ Len(a) = c - 1 /\ \A k \in 1..(c - 1) : a[k] = s[k]
  OBVIOUS
<1>2. b \in Seq(P) /\ Len(b) = Len(s) - c /\ \A k \in 1..(Len(s) - c) : b[k] = s[k + c]
  OBVIOUS
<1>3. RemoveAt(s, c) = a \o b
  BY DEF RemoveAt
<1> HIDE DEF a, b
<1>4. Len(s) \in Nat /\ c \in Nat /\ c <= Len(s)
  OBVIOUS
<1>5. a \o b \in Seq(P) /\ Len(a \o b) = Len(s) - 1
  BY <1>1, <1>2, <1>4
<1>6. ASSUME NEW k \in 1..(Len(s) - 1) PROVE (a \o b)[k] = IF k < c THEN s[k] ELSE s[k + 1]
  <2>1. k \in 1..(Len(a) + Len(b))
    BY <1>1, <1>2, <1>4
  <2>2. (a \o b)[k] = IF k <= Len(a) THEN a[k] ELSE b[k - Len(a)]
    BY <1>1, <1>2, <2>1
  <2>3. CASE k < c
    BY <1>1, <1>4, <2>2, <2>3
  <2>4. CASE ~(k < c)
    <3>1. k - Len(a) \in 1..(Len(s) - c) /\ ~(k <= Len(a)) /\ (k - Len(a)) + c = k + 1
      BY <1>1, <1>4, <2>4
    <3>2. b[k - Len(a)] = s[(k - Len(a)) + c]
      BY <1>2, <3>1
    <3> QED BY <2>2, <2>4, <3>1, <3>2
  <2> QED BY <2>3, <2>4
<1> QED BY <1>3, <1>5, <1>6

\* While fewer than three rounds were paired, of three pairs of seats no two of
\* which can be of one round one has not met.
LEMMA Unmet ==
    ASSUME Tables(pod), pod.current_round \in 0..2, NEW A, NEW B, NEW C, A # B, A # C, B # C,
           A \cap B # {}, A \cap C # {}, B \cap C # {},
           NEW i \in DOMAIN pod.pairings, NEW j \in DOMAIN pod.pairings, NEW k \in DOMAIN pod.pairings,
           Met(pod, i) = A, Met(pod, j) = B, Met(pod, k) = C
    PROVE  FALSE
<1> DEFINE D == DOMAIN pod.pairings
<1>1. \A x, y \in D : x # y /\ pod.pairings[x].round = pod.pairings[y].round => Met(pod, x) \cap Met(pod, y) = {}
  BY DEF Tables
<1>2. \A x \in D : pod.pairings[x].round \in 1..2
  <2>1. \A x \in D : pod.pairings[x].round \in 1..pod.current_round
    BY DEF Tables
  <2> QED BY <2>1
<1> HIDE DEF D
<1>3. i # j /\ i # k /\ j # k /\ i \in D /\ j \in D /\ k \in D
  BY DEF D
<1>4. /\ pod.pairings[i].round # pod.pairings[j].round
      /\ pod.pairings[i].round # pod.pairings[k].round
      /\ pod.pairings[j].round # pod.pairings[k].round
  BY <1>1, <1>3
<1> QED BY <1>2, <1>3, <1>4

\* Two of three seats.
LEMMA UnmetOfThree ==
    ASSUME Tables(pod), pod.current_round \in 0..2
    PROVE  ~(Faced(0, 1) /\ Faced(0, 2) /\ Faced(1, 2))
<1> SUFFICES ASSUME Faced(0, 1), Faced(0, 2), Faced(1, 2) PROVE FALSE
  OBVIOUS
<1>1. PICK i \in DOMAIN pod.pairings : Met(pod, i) = {0, 1}
  BY DEF Faced, Met
<1>2. PICK j \in DOMAIN pod.pairings : Met(pod, j) = {0, 2}
  BY DEF Faced, Met
<1>3. PICK k \in DOMAIN pod.pairings : Met(pod, k) = {1, 2}
  BY DEF Faced, Met
<1>4. {0, 1} # {0, 2} /\ {0, 1} # {1, 2} /\ {0, 2} # {1, 2}
  OBVIOUS
<1>5. {0, 1} \cap {0, 2} # {} /\ {0, 1} \cap {1, 2} # {} /\ {0, 2} \cap {1, 2} # {}
  OBVIOUS
<1> QED BY <1>1, <1>2, <1>3, <1>4, <1>5, Unmet

\* Of four, one and the first.
LEMMA UnmetOfFour ==
    ASSUME Tables(pod), pod.current_round \in 0..2
    PROVE  ~(Faced(0, 1) /\ Faced(0, 2) /\ Faced(0, 3))
<1> SUFFICES ASSUME Faced(0, 1), Faced(0, 2), Faced(0, 3) PROVE FALSE
  OBVIOUS
<1>1. PICK i \in DOMAIN pod.pairings : Met(pod, i) = {0, 1}
  BY DEF Faced, Met
<1>2. PICK j \in DOMAIN pod.pairings : Met(pod, j) = {0, 2}
  BY DEF Faced, Met
<1>3. PICK k \in DOMAIN pod.pairings : Met(pod, k) = {0, 3}
  BY DEF Faced, Met
<1>4. {0, 1} # {0, 2} /\ {0, 1} # {0, 3} /\ {0, 2} # {0, 3}
  OBVIOUS
<1>5. {0, 1} \cap {0, 2} # {} /\ {0, 1} \cap {0, 3} # {} /\ {0, 2} \cap {0, 3} # {}
  OBVIOUS
<1> QED BY <1>1, <1>2, <1>3, <1>4, <1>5, Unmet

\* The pool is an order of the seats.
LEMMA PoolIs ==
    ASSUME Formed(pod), NEW o \in Pools, NEW n \in Nat, pod.kind.seats = n
    PROVE  /\ o \in [1..n -> SeatsOf(pod)] /\ \A i, j \in 1..n : o[i] = o[j] => i = j
           /\ \A s \in SeatsOf(pod) : \E i \in 1..n : o[i] = s
           /\ SeatsOf(pod) = 0..(n - 1)
<1> DEFINE S == SeatsOf(pod)
<1>1. S = 0..(n - 1)
  BY DEF SeatsOf
<1>2. IsFiniteSet(S) /\ Cardinality(S) = n
  <2>1. 0 \in Int /\ n - 1 \in Int
    OBVIOUS
  <2>2. IsFiniteSet(0..(n - 1)) /\ Cardinality(0..(n - 1)) = IF 0 > n - 1 THEN 0 ELSE (n - 1) - 0 + 1
    BY <2>1, FS_Interval
  <2> QED BY <1>1, <2>2
<1>3. o \in [1..n -> S] /\ \A i, j \in 1..n : i # j => o[i] # o[j]
  BY <1>2 DEF Pools, SetToSeqs
<1> HIDE DEF S
<1>4. o \in Injection(1..n, S)
  BY <1>3 DEF Injection, IsInjective
<1>5. IsFiniteSet(1..n) /\ Cardinality(1..n) = n
  BY FS_Interval
<1>6. o \in Surjection(1..n, S)
  BY <1>2, <1>4, <1>5, FS_Injection
<1>7. \A s \in S : \E i \in 1..n : o[i] = s
  BY <1>6 DEF Surjection
<1> QED BY <1>1, <1>3, <1>7 DEF S

\* Seats meet, whichever is named first.
LEMMA FacedBoth ==
    ASSUME NEW s, NEW u
    PROVE  Faced(s, u) <=> Faced(u, s)
<1>1. {s, u} = {u, s}
  OBVIOUS
<1> QED BY <1>1 DEF Faced

\* What generate_swiss_pairings gives: seats that have not met, nobody twice,
\* and in a pod of four everybody.
Unplayed(new) ==
    /\ \E n \in Nat : new \in [1..n -> Seats \X Seats]
    /\ \A k \in DOMAIN new : \E s, u \in SeatsOf(pod) : s # u /\ new[k] = <<s, u>> /\ ~Faced(s, u)
    /\ \A k, l \in DOMAIN new : k # l => Range(new[k]) \cap Range(new[l]) = {}
    /\ pod.kind.seats = 4 => \A k \in DOMAIN new : \E l \in DOMAIN new : Range(new[l]) = SeatsOf(pod) \ Range(new[k])

\* Three seats: the bye leaves two who have not met.
LEMMA NewOfThree ==
    ASSUME Formed(pod), Tables(pod), pod.current_round \in 0..2, pod.kind.seats = 3, NEW o \in Pools
    PROVE  Unplayed(generate_swiss_pairings(o).pairs)
<1> DEFINE able == {i \in DOMAIN o : Fresh(RemoveAt(o, i)) # {}}
           r(i) == RemoveAt(o, i)
<1>1. /\ o \in [1..3 -> SeatsOf(pod)] /\ \A i, j \in 1..3 : o[i] = o[j] => i = j
      /\ \A s \in SeatsOf(pod) : \E i \in 1..3 : o[i] = s
      /\ SeatsOf(pod) = 0..2
  <2> HIDE DEF able, r
  <2>1. 3 \in Nat /\ 3 - 1 = 2
    OBVIOUS
  <2> QED BY <2>1, PoolIs
<1>2. o \in Seq(SeatsOf(pod)) /\ Len(o) = 3 /\ DOMAIN o = 1..3
  <2> HIDE DEF r, able
  <2> DEFINE S == SeatsOf(pod)
  <2>1. o \in [1..3 -> S]
    BY <1>1
  <2> HIDE DEF S
  <2>2. o \in Seq(S) /\ Len(o) = 3 /\ DOMAIN o = 1..3
    BY <2>1
  <2> QED BY <2>2 DEF S
<1>3. ASSUME NEW i \in 1..3
      PROVE  /\ DOMAIN r(i) = 1..2
             /\ r(i)[1] = IF i = 1 THEN o[2] ELSE o[1]
             /\ r(i)[2] = IF i = 3 THEN o[2] ELSE o[3]
  <2> DEFINE S == SeatsOf(pod)
  <2>0. o \in Seq(S) /\ i \in 1..Len(o) /\ Len(o) = 3
    BY <1>2
  <2> HIDE DEF S
  <2>1. /\ r(i) \in Seq(S) /\ Len(r(i)) = Len(o) - 1
        /\ \A k \in 1..(Len(o) - 1) : r(i)[k] = IF k < i THEN o[k] ELSE o[k + 1]
    BY <2>0, RemoveAtIs
  <2> HIDE DEF r
  <2>2. Len(r(i)) = 2 /\ 1 \in 1..(Len(o) - 1) /\ 2 \in 1..(Len(o) - 1)
    BY <2>0, <2>1
  <2>3. DOMAIN r(i) = 1..2
    BY <2>1, <2>2
  <2>4. r(i)[1] = (IF 1 < i THEN o[1] ELSE o[2]) /\ r(i)[2] = IF 2 < i THEN o[2] ELSE o[3]
    BY <2>1, <2>2
  <2>5. i = 1 \/ i = 2 \/ i = 3
    OBVIOUS
  <2> QED BY <2>3, <2>4, <2>5
<1> HIDE DEF r
<1>4. able # {}
  <2>1. PICK s \in 0..2, u \in 0..2 : s # u /\ ~Faced(s, u) /\ ~Faced(u, s)
    <3>1. ~(Faced(0, 1) /\ Faced(0, 2) /\ Faced(1, 2))
      BY UnmetOfThree
    <3>2. (~Faced(0, 1) => ~Faced(1, 0)) /\ (~Faced(0, 2) => ~Faced(2, 0)) /\ (~Faced(1, 2) => ~Faced(2, 1))
      BY FacedBoth
    <3> QED BY <3>1, <3>2
  <2>2. PICK t \in 0..2 : t # s /\ t # u
    BY <2>1
  <2>3. PICK z \in 1..3 : o[z] = t
    BY <1>1
  <2>4. /\ r(z)[1] \in 0..2 /\ r(z)[2] \in 0..2 /\ r(z)[1] # t /\ r(z)[2] # t /\ r(z)[1] # r(z)[2]
    <3>0. o[1] \in 0..2 /\ o[2] \in 0..2 /\ o[3] \in 0..2 /\ o[1] # o[2] /\ o[1] # o[3] /\ o[2] # o[3]
      BY <1>1
    <3>1. z = 1 \/ z = 2 \/ z = 3
      OBVIOUS
    <3> QED BY <1>3, <2>3, <3>0, <3>1
  <2>5. (r(z)[1] = s /\ r(z)[2] = u) \/ (r(z)[1] = u /\ r(z)[2] = s)
    BY <2>1, <2>2, <2>4
  <2>6. Fresh(r(z)) # {}
    BY <1>3, <2>1, <2>5, PairOfTwo
  <2> QED BY <1>2, <2>3, <2>6 DEF r
<1>5. able \subseteq 1..3 /\ \A i \in able : Fresh(r(i)) # {}
  BY <1>2 DEF r
<1> HIDE DEF able
<1> DEFINE b == Max(able)
<1>6. b \in able
  <2>1. \E x \in able : \A y \in able : x >= y
    <3>2. \A y \in able : y = 1 \/ y = 2 \/ y = 3
      BY <1>5
    <3>1. 3 \in able \/ 2 \in able \/ 1 \in able
      BY <1>4, <3>2
    <3> QED BY <3>1, <3>2
  <2> QED BY <2>1 DEF Max
<1>7. generate_swiss_pairings(o).pairs = pair_pool(r(b))
  <2>1. Len(o) % 2 # 0
    BY <1>2
  <2> QED BY <1>4, <2>1 DEF generate_swiss_pairings, able, r
<1> HIDE DEF b
<1> DEFINE new == pair_pool(r(b))
           s == r(b)[1]
           u == r(b)[2]
<1>8. DOMAIN r(b) = 1..2 /\ s # u /\ s \in SeatsOf(pod) /\ u \in SeatsOf(pod) /\ ~Faced(s, u)
  <2>0. b \in 1..3
    BY <1>5, <1>6
  <2>1. o[1] \in SeatsOf(pod) /\ o[2] \in SeatsOf(pod) /\ o[3] \in SeatsOf(pod) /\ o[1] # o[2] /\ o[1] # o[3] /\ o[2] # o[3]
    BY <1>1
  <2>2. DOMAIN r(b) = 1..2 /\ s # u /\ s \in SeatsOf(pod) /\ u \in SeatsOf(pod)
    BY <1>3, <2>0, <2>1
  <2> QED BY <1>5, <1>6, <2>2, PairOfTwo
<1>9. new = [k \in 1..1 |-> <<s, u>>]
  BY <1>8, PairOfTwo
<1>10. SeatsOf(pod) \subseteq Seats
  BY <1>1, KindNumbers, DraftConstants DEF Formed, Seats
<1> HIDE DEF new, s, u
<1>12. new \in [1..1 -> Seats \X Seats]
  <2>1. <<s, u>> \in Seats \X Seats
    BY <1>8, <1>10
  <2> QED BY <1>9, <2>1
<1>13. DOMAIN new = 1..1 /\ \A k \in 1..1 : new[k] = <<s, u>>
  BY <1>9
<1>14. \A k, l \in 1..1 : k = l
  OBVIOUS
<1>15. Unplayed(new)
  BY <1>8, <1>9, <1>12, <1>13, <1>14 DEF Unplayed
<1> QED BY <1>7, <1>15 DEF new

\* Four seats: there is a way in which nobody meets an earlier opponent.
LEMMA FreshOfFour ==
    ASSUME Tables(pod), pod.current_round \in 0..2, pod.kind.seats = 4, SeatsOf(pod) = 0..3,
           NEW o, o \in [1..4 -> 0..3], \A i, j \in 1..4 : o[i] = o[j] => i = j, \A s \in 0..3 : \E i \in 1..4 : o[i] = s
    PROVE  Fresh(o) # {}
<1>1. PICK u \in 1..3 : ~Faced(0, u)
  <2>1. ~(Faced(0, 1) /\ Faced(0, 2) /\ Faced(0, 3))
    BY UnmetOfFour
  <2> QED BY <2>1
<1>2. PICK c \in 1..3 : c # u
  OBVIOUS
<1>3. PICK d \in 1..3 : d # u /\ d # c
  BY <1>2
<1>4. 0 # u /\ 0 # c /\ 0 # d /\ \A s \in 0..3 : s = 0 \/ s = u \/ s = c \/ s = d
  BY <1>2, <1>3
<1>5. ~Faced(c, d)
  <2>1. SUFFICES ASSUME Faced(c, d) PROVE Faced(0, u)
    BY <1>1
  <2>2. PICK i \in DOMAIN pod.pairings : Met(pod, i) = {c, d}
    BY <2>1 DEF Faced, Met
  <2>3. PICK j \in DOMAIN pod.pairings : Met(pod, j) = (0..3) \ {c, d}
    BY <2>2 DEF Tables
  <2>4. (0..3) \ {c, d} = {0, u}
    <3>1. u \in 0..3 /\ 0 \in 0..3
      OBVIOUS
    <3> QED BY <1>2, <1>3, <1>4, <3>1
  <2> QED BY <2>3, <2>4 DEF Faced, Met
<1>6. ~Faced(u, 0) /\ ~Faced(d, c)
  BY <1>1, <1>5, FacedBoth
<1>7. 0 \in 0..3 /\ u \in 0..3 /\ c \in 0..3 /\ d \in 0..3
  OBVIOUS
<1>8. PICK x \in 1..4 : o[x] = 0
  BY <1>7
<1>9. PICK y \in 1..4 : o[y] = u
  BY <1>7
<1>10. PICK z \in 1..4 : o[z] = c
  BY <1>7
<1>11. PICK w \in 1..4 : o[w] = d
  BY <1>7
<1>12. x # y /\ x # z /\ x # w /\ y # z /\ y # w /\ z # w
  BY <1>2, <1>3, <1>4, <1>8, <1>9, <1>10, <1>11
<1>13. ASSUME NEW i \in 1..4 PROVE i = x \/ i = y \/ i = z \/ i = w
  <2>1. o[i] \in 0..3
    OBVIOUS
  <2>2. o[i] = 0 \/ o[i] = u \/ o[i] = c \/ o[i] = d
    BY <1>4, <2>1
  <2> QED BY <1>8, <1>9, <1>10, <1>11, <2>2
<1> DEFINE m == [i \in 1..4 |-> IF i = x THEN y ELSE IF i = y THEN x ELSE IF i = z THEN w ELSE z]
<1>14. m \in [1..4 -> 1..4] /\ m[x] = y /\ m[y] = x /\ m[z] = w /\ m[w] = z
  BY <1>12
<1> HIDE DEF m
<1>15. \A i \in 1..4 : m[i] # i /\ m[m[i]] = i
  BY <1>12, <1>13, <1>14
<1>16. \A i \in 1..4 : ~Faced(o[i], o[m[i]])
  BY <1>1, <1>5, <1>6, <1>8, <1>9, <1>10, <1>11, <1>13, <1>14
<1>17. DOMAIN o = 1..4
  OBVIOUS
<1>18. m \in Fresh(o)
  BY <1>14, <1>15, <1>16, <1>17 DEF Fresh, Matchings
<1> QED BY <1>18

\* And one of them is taken.
LEMMA NewOfFour ==
    ASSUME Formed(pod), Tables(pod), pod.current_round \in 0..2, pod.kind.seats = 4, NEW o \in Pools
    PROVE  Unplayed(generate_swiss_pairings(o).pairs)
<1>1. /\ o \in [1..4 -> SeatsOf(pod)] /\ \A i, j \in 1..4 : o[i] = o[j] => i = j
      /\ \A s \in SeatsOf(pod) : \E i \in 1..4 : o[i] = s
      /\ SeatsOf(pod) = 0..3
  <2>1. 4 \in Nat /\ 4 - 1 = 3
    OBVIOUS
  <2> QED BY <2>1, PoolIs
<1>2. Fresh(o) # {}
  BY <1>1, FreshOfFour
<1>3. DOMAIN o = 1..4 /\ Len(o) = 4
  <2> DEFINE S == SeatsOf(pod)
  <2>1. o \in [1..4 -> S]
    BY <1>1
  <2> HIDE DEF S
  <2> QED BY <2>1
<1>4. generate_swiss_pairings(o).pairs = pair_pool(o)
  <2>1. Len(o) % 2 = 0
    BY <1>3
  <2> QED BY <2>1 DEF generate_swiss_pairings
<1>5. PICK a, b, c, d \in 1..4 :
        /\ a # b /\ a # c /\ a # d /\ b # c /\ b # d /\ c # d
        /\ ~Faced(o[a], o[b]) /\ ~Faced(o[c], o[d])
        /\ pair_pool(o) = [k \in 1..2 |-> IF k = 1 THEN <<o[a], o[b]>> ELSE <<o[c], o[d]>>]
  BY <1>2, <1>3, PairsOfFour
<1> DEFINE new == pair_pool(o)
           A == {o[a], o[b]}
           C == {o[c], o[d]}
<1>6. /\ o[a] \in 0..3 /\ o[b] \in 0..3 /\ o[c] \in 0..3 /\ o[d] \in 0..3
      /\ o[a] # o[b] /\ o[a] # o[c] /\ o[a] # o[d] /\ o[b] # o[c] /\ o[b] # o[d] /\ o[c] # o[d]
  BY <1>1, <1>5
<1>7. \A s \in 0..3 : s = o[a] \/ s = o[b] \/ s = o[c] \/ s = o[d]
  BY <1>6
<1>8. A \cap C = {} /\ C = SeatsOf(pod) \ A /\ A = SeatsOf(pod) \ C
  <2>1. A \cap C = {}
    BY <1>6
  <2>2. A \cup C = 0..3
    BY <1>6, <1>7
  <2> QED BY <1>1, <2>1, <2>2
<1>9. DOMAIN new = 1..2 /\ new[1] = <<o[a], o[b]>> /\ new[2] = <<o[c], o[d]>>
  BY <1>5
<1>10. Range(new[1]) = A /\ Range(new[2]) = C
  <2>1. \A p, q : Range(<<p, q>>) = {p, q}
    BY DEF Range
  <2> QED BY <1>9, <2>1
<1>11. \A k \in 1..2 : k = 1 \/ k = 2
  OBVIOUS
<1>12. SeatsOf(pod) \subseteq Seats
  BY <1>1, KindNumbers, DraftConstants DEF Formed, Seats
<1>13. new \in [1..2 -> Seats \X Seats]
  <2>1. <<o[a], o[b]>> \in Seats \X Seats /\ <<o[c], o[d]>> \in Seats \X Seats
    BY <1>1, <1>6, <1>12
  <2> QED BY <1>5, <2>1
<1> HIDE DEF new
<1>14. ASSUME NEW k \in 1..2 PROVE \E s, u \in SeatsOf(pod) : s # u /\ new[k] = <<s, u>> /\ ~Faced(s, u)
  BY <1>1, <1>5, <1>6, <1>9, <1>11
<1> HIDE DEF A, C
<1>15. \A k, l \in 1..2 : k # l => Range(new[k]) \cap Range(new[l]) = {}
  BY <1>8, <1>10, <1>11
<1>16. \A k \in 1..2 : \E l \in 1..2 : Range(new[l]) = SeatsOf(pod) \ Range(new[k])
  BY <1>8, <1>10, <1>11
<1>17. Unplayed(new)
  BY <1>9, <1>13, <1>14, <1>15, <1>16 DEF Unplayed
<1> QED BY <1>4, <1>17 DEF new

\* One sequence after another.
LEMMA Concat ==
    ASSUME NEW S, NEW u \in Seq(S), NEW v \in Seq(S)
    PROVE  /\ u \o v \in Seq(S) /\ Len(u \o v) = Len(u) + Len(v)
           /\ \A i \in 1..(Len(u) + Len(v)) : (u \o v)[i] = IF i <= Len(u) THEN u[i] ELSE v[i - Len(u)]
OBVIOUS

\* What apply_generate_pairings adds for pairs of seats.
Added(new, r) == [k \in DOMAIN new |-> [round |-> r, players |-> new[k], complete |-> FALSE, winner |-> Nobody]]

\* A round of pairs that have not met keeps the tables.
LEMMA RoundKeepsTables ==
    ASSUME Formed(pod), Tables(pod), pod.current_round \in Nat, NEW new, Unplayed(new),
           NEW q, q.kind = pod.kind, q.current_round = pod.current_round + 1,
           q.pairings = pod.pairings \o Added(new, pod.current_round + 1)
    PROVE  Tables(q)
<1> DEFINE r == pod.current_round + 1
           old == pod.pairings
           l == Len(old)
           v == Added(new, r)
<1>1. PICK m \in Nat : new \in [1..m -> Seats \X Seats]
  BY DEF Unplayed
<1>2. DOMAIN new = 1..m
  BY <1>1
<1>3. v \in [1..m -> DraftPairing]
  <2>1. r \in Nat
    OBVIOUS
  <2> HIDE DEF r
  <2>2. ASSUME NEW k \in 1..m PROVE v[k] \in DraftPairing
    BY <1>1, <1>2, <2>1 DEF DraftPairing, Added
  <2>3. v = [k \in 1..m |-> v[k]]
    BY <1>2 DEF Added
  <2> HIDE DEF v
  <2> QED BY <2>2, <2>3
<1>4. \A k \in 1..m : v[k].round = r /\ v[k].players = new[k]
  BY <1>2 DEF Added
<1>5. q.pairings = old \o v
  OBVIOUS
<1> HIDE DEF v
<1>6. old \in Seq(DraftPairing) /\ v \in Seq(DraftPairing) /\ Len(v) = m
  BY <1>3 DEF Tables
<1>7. l \in Nat /\ DOMAIN old = 1..l
  BY <1>6
<1> HIDE DEF old
<1>8. /\ q.pairings \in Seq(DraftPairing) /\ Len(q.pairings) = l + m
      /\ \A i \in 1..(l + m) : q.pairings[i] = IF i <= l THEN old[i] ELSE v[i - l]
  <2> DEFINE w == old \o v
  <2>1. /\ w \in Seq(DraftPairing) /\ Len(w) = Len(old) + Len(v)
        /\ \A i \in 1..(Len(old) + Len(v)) : w[i] = IF i <= Len(old) THEN old[i] ELSE v[i - Len(old)]
    BY <1>6, Concat
  <2>2. q.pairings = w
    BY <1>5
  <2> HIDE DEF w
  <2> QED BY <1>6, <2>1, <2>2
<1> HIDE DEF l
<1> DEFINE D == DOMAIN q.pairings
<1>9. D = 1..(l + m)
  <2> DEFINE w == q.pairings
  <2>1. w \in Seq(DraftPairing) /\ Len(w) = l + m
    BY <1>8
  <2> HIDE DEF w
  <2>2. DOMAIN w = 1..(l + m)
    BY <2>1
  <2> QED BY <2>2 DEF w
<1>10. ASSUME NEW i \in 1..l PROVE i \in D /\ q.pairings[i] = old[i] /\ Met(q, i) = Met(pod, i)
  <2>1. i \in 1..(l + m) /\ i <= l
    BY <1>7
  <2>2. q.pairings[i] = old[i]
    BY <1>8, <2>1
  <2> QED BY <1>9, <2>1, <2>2 DEF Met, old
<1>11. ASSUME NEW k \in 1..m
       PROVE  l + k \in D /\ q.pairings[l + k].round = r /\ Met(q, l + k) = Range(new[k])
  <2>1. l + k \in 1..(l + m) /\ ~(l + k <= l) /\ (l + k) - l = k
    BY <1>7
  <2>2. q.pairings[l + k] = v[k]
    BY <1>8, <2>1
  <2> QED BY <1>4, <1>9, <2>1, <2>2 DEF Met
<1>12. ASSUME NEW i \in D PROVE i \in 1..l \/ \E k \in 1..m : i = l + k
  <2>0. i \in 1..(l + m)
    BY <1>9
  <2>1. ~(i \in 1..l) => i - l \in 1..m /\ i = l + (i - l)
    BY ONLY <1>7, <2>0, m \in Nat
  <2> QED BY <2>1
<1> HIDE DEF D
<1>13. ASSUME NEW i \in 1..l
       PROVE  /\ old[i].round \in 1..pod.current_round
              /\ \E s, u \in SeatsOf(pod) : s # u /\ Met(pod, i) = {s, u}
  BY <1>7 DEF Tables, old
<1>14. ASSUME NEW k \in 1..m
       PROVE  /\ \E s, u \in SeatsOf(pod) : s # u /\ Range(new[k]) = {s, u} 
              /\ \A i \in 1..l : Met(pod, i) # Range(new[k])
  <2>1. PICK s, u \in SeatsOf(pod) : s # u /\ new[k] = <<s, u>> /\ ~Faced(s, u)
    BY <1>2 DEF Unplayed
  <2>2. Range(new[k]) = {s, u}
    BY <2>1 DEF Range
  <2>3. \A i \in 1..l : Met(pod, i) # {s, u}
    BY <1>7, <2>1 DEF Faced, Met, old
  <2> QED BY <2>1, <2>2, <2>3
<1>15. SeatsOf(q) = SeatsOf(pod) /\ r \in Nat /\ q.current_round = r
  BY DEF SeatsOf
<1>16. \A i \in 1..l : old[i].round # r /\ old[i].round \in 1..r
  <2>1. \A i \in 1..l : old[i].round \in 1..pod.current_round
    BY <1>13
  <2> QED BY <2>1
<1> HIDE DEF r
<1>17. ASSUME NEW i \in D
       PROVE  q.pairings[i].round \in 1..r /\ \E s, u \in SeatsOf(q) : s # u /\ Met(q, i) = {s, u}
  <2>1. CASE i \in 1..l
    <3>1. q.pairings[i].round \in 1..r
      BY <1>10, <1>16, <2>1
    <3>2. PICK s, u \in SeatsOf(pod) : s # u /\ Met(pod, i) = {s, u}
      BY <1>13, <2>1
    <3>3. Met(q, i) = {s, u}
      BY <1>10, <2>1, <3>2
    <3> QED BY <1>15, <3>1, <3>2, <3>3
  <2>2. CASE ~(i \in 1..l)
    <3>1. PICK k \in 1..m : i = l + k
      BY <1>12, <2>2
    <3>2. r \in 1..r
      BY <1>15 DEF r
    <3>3. q.pairings[i].round \in 1..r
      BY <1>11, <3>1, <3>2
    <3>4. PICK s, u \in SeatsOf(pod) : s # u /\ Range(new[k]) = {s, u}
      BY <1>14
    <3>5. Met(q, i) = {s, u}
      BY <1>11, <3>1, <3>4
    <3> QED BY <1>15, <3>3, <3>4, <3>5
  <2> QED BY <2>1, <2>2
<1>18. ASSUME NEW i \in D, NEW j \in D, i # j
       PROVE  /\ Met(q, i) # Met(q, j)
              /\ q.pairings[i].round = q.pairings[j].round => Met(q, i) \cap Met(q, j) = {}
  <2>1. CASE i \in 1..l /\ j \in 1..l
    <3>1. /\ Met(pod, i) # Met(pod, j)
          /\ old[i].round = old[j].round => Met(pod, i) \cap Met(pod, j) = {}
      BY <1>7, <1>18, <2>1 DEF Tables, old
    <3> QED BY <1>10, <2>1, <3>1
  <2>2. ASSUME NEW x \in 1..l, NEW k \in 1..m
        PROVE  Met(q, x) # Met(q, l + k) /\ q.pairings[x].round # q.pairings[l + k].round
    BY <1>10, <1>11, <1>14, <1>16, ZenonT(30)
  <2>3. CASE i \in 1..l /\ ~(j \in 1..l)
    BY <1>12, <2>2, <2>3
  <2>4. CASE ~(i \in 1..l) /\ j \in 1..l
    BY <1>12, <2>2, <2>4
  <2>5. CASE ~(i \in 1..l) /\ ~(j \in 1..l)
    <3>1. PICK x \in 1..m : i = l + x
      BY <1>12, <2>5
    <3>2. PICK y \in 1..m : j = l + y
      BY <1>12, <2>5
    <3>3. Range(new[x]) \cap Range(new[y]) = {}
      BY <1>2, <1>18, <3>1, <3>2 DEF Unplayed
    <3>4. Range(new[x]) # {}
      BY <1>14
    <3>5. Met(q, i) = Range(new[x]) /\ Met(q, j) = Range(new[y])
      BY <1>11, <3>1, <3>2
    <3> QED BY <3>3, <3>4, <3>5
  <2> QED BY <2>1, <2>3, <2>4, <2>5
<1>19. ASSUME q.kind.seats = 4, NEW i \in D PROVE \E j \in D : Met(q, j) = SeatsOf(q) \ Met(q, i)
  <2>0. pod.kind.seats = 4
    BY <1>19
  <2>1. CASE i \in 1..l
    <3>1. PICK j \in 1..l : Met(pod, j) = SeatsOf(pod) \ Met(pod, i)
      BY <1>7, <2>0, <2>1 DEF Tables, old
    <3> QED BY <1>10, <1>15, <2>1, <3>1
  <2>2. CASE ~(i \in 1..l)
    <3>1. PICK k \in 1..m : i = l + k
      BY <1>12, <2>2
    <3>2. PICK y \in 1..m : Range(new[y]) = SeatsOf(pod) \ Range(new[k])
      BY <1>2, <2>0 DEF Unplayed
    <3> QED BY <1>11, <1>15, <3>1, <3>2
  <2> QED BY <2>1, <2>2
<1> QED BY <1>8, <1>15, <1>17, <1>18, <1>19 DEF Tables, D

\* apply_generate_pairings keeps the rounds.
LEMMA PairedKeeps ==
    ASSUME Formed(pod), Robin(pod), pod.status = "Pairing", NEW o \in Pools
    PROVE  Robin(Paired(o))
<1> DEFINE q == Paired(o)
           new == generate_swiss_pairings(o).pairs
           v == Added(new, pod.current_round + 1)
<1>1. DOMAIN pod = PodFields
  BY DEF Formed
<1>2. \E y : q = [pod EXCEPT !.status = "MatchInProgress", !.current_round = pod.current_round + 1, !.match_wins = y,
                             !.pairings = pod.pairings \o v]
  BY <1>1 DEF Paired, PodFields, Added
<1> HIDE DEF q, v
<1>3. /\ q.status = "MatchInProgress" /\ q.kind = pod.kind /\ q.current_round = pod.current_round + 1
      /\ q.pairings = pod.pairings \o v
  BY <1>1, <1>2 DEF PodFields
<1>4. pod.current_round \in 0..2 /\ (pod.kind.seats \in {3, 4} => Tables(pod))
  BY DEF Robin
<1>5. ASSUME pod.kind.seats \in {3, 4} PROVE Tables(q)
  <2>1. Unplayed(new)
    BY <1>4, <1>5, NewOfThree, NewOfFour
  <2> HIDE DEF new
  <2>2. pod.current_round \in Nat /\ Tables(pod)
    BY <1>4, <1>5
  <2>3. q.pairings = pod.pairings \o Added(new, pod.current_round + 1)
    BY <1>3 DEF v
  <2> QED BY <1>3, <2>1, <2>2, <2>3, RoundKeepsTables
<1>6. Robin(q)
  BY <1>3, <1>4, <1>5 DEF Robin
<1> QED BY <1>6 DEF q

Early == {"Lobby", "Drafting", "Deckbuilding"}
SameRounds(q, p) == q.kind = p.kind /\ q.current_round = p.current_round /\ q.pairings = p.pairings

\* A step that pairs nobody and reports nothing.
LEMMA SameRobin ==
    ASSUME NEW p, Robin(p), p.status # "Gone", NEW q, SameRounds(q, p),
           \/ q.status \in {p.status, "Complete", "Gone"}
           \/ p.status \in Early /\ q.status \in Early
           \/ p.status \in {"Deckbuilding", "RoundComplete"} /\ q.status = "Pairing"
    PROVE  Robin(q)
<1>1. p.kind.seats \in {3, 4} => Tables(p)
  BY DEF Robin
<1>2. Tables(p) => Tables(q)
  <2>1. q.kind = p.kind /\ q.current_round = p.current_round /\ q.pairings = p.pairings /\ SeatsOf(q) = SeatsOf(p)
    BY DEF SeatsOf, SameRounds
  <2>2. ASSUME NEW i PROVE Met(q, i) = Met(p, i)
    BY <2>1 DEF Met
  <2>3. SUFFICES ASSUME Tables(p) PROVE Tables(q)
    OBVIOUS
  <2>4. ASSUME NEW i \in DOMAIN q.pairings
        PROVE  q.pairings[i].round \in 1..q.current_round /\ \E s, u \in SeatsOf(q) : s # u /\ Met(q, i) = {s, u}
    BY <2>1, <2>2, <2>3 DEF Tables
  <2>5. ASSUME NEW i \in DOMAIN q.pairings, NEW j \in DOMAIN q.pairings, i # j
        PROVE  /\ Met(q, i) # Met(q, j)
               /\ q.pairings[i].round = q.pairings[j].round => Met(q, i) \cap Met(q, j) = {}
    BY <2>1, <2>2, <2>3, <2>5 DEF Tables
  <2>6. ASSUME q.kind.seats = 4, NEW i \in DOMAIN q.pairings
        PROVE  \E j \in DOMAIN q.pairings : Met(q, j) = SeatsOf(q) \ Met(q, i)
    <3>1. PICK j \in DOMAIN p.pairings : Met(p, j) = SeatsOf(p) \ Met(p, i)
      BY <2>1, <2>3, <2>6 DEF Tables
    <3> QED BY <2>1, <2>2, <3>1
  <2>7. q.pairings \in Seq(DraftPairing)
    BY <2>1, <2>3 DEF Tables
  <2> QED BY <2>4, <2>5, <2>6, <2>7 DEF Tables
<1>3. p.current_round \in Nat /\ (p.status \in Early => p.current_round = 0 /\ p.pairings = << >>)
      /\ (p.status \in {"Pairing", "RoundComplete"} => p.current_round <= 2)
  BY DEF Robin, Early
<1> QED BY <1>1, <1>2, <1>3 DEF Robin, Early, SameRounds

\* finish_pick plays no round.
LEMMA FinishRounds ==
    ASSUME NEW p, DOMAIN p = PodFields, p.status = "Drafting"
    PROVE  SameRounds(finish_pick(p), p) /\ finish_pick(p).status \in Early
<1> DEFINE q == finish_pick(p)
<1> DEFINE r == [p EXCEPT !.picked = {}]
           Kept(x) == SameRounds(x, p) /\ x.status \in Early
<1>1. DOMAIN r = PodFields /\ r.status = "Drafting" /\ SameRounds(r, p)
  BY DEF PodFields, SameRounds
<1>2. CASE ~RoundComplete(p)
  BY <1>2 DEF finish_pick, SameRounds, Early
<1>3. CASE RoundComplete(p) /\ \E s \in SeatsOf(p) : p.current_pack[s] > 0
  <2> DEFINE c == [d \in SeatsOf(p) |-> p.current_pack[CHOOSE s \in SeatsOf(p) : next_seat(p, s) = d]]
  <2>1. q = [r EXCEPT !.pick_number = @ + 1, !.current_pack = c]
    BY <1>3 DEF finish_pick
  <2> HIDE DEF c, q, r
  <2>2. Kept(q)
    BY <1>1, <2>1 DEF PodFields, SameRounds, Early
  <2> QED BY <2>2 DEF q
<1>4. CASE RoundComplete(p) /\ (\A s \in SeatsOf(p) : ~(p.current_pack[s] > 0)) /\ p.current_pack_number + 1 >= p.kind.packs
  <2>1. q = [r EXCEPT !.current_pack_number = @ + 1, !.status = "Deckbuilding"]
    BY <1>4 DEF finish_pick
  <2> HIDE DEF q, r
  <2>2. Kept(q)
    BY <1>1, <2>1 DEF PodFields, SameRounds, Early
  <2> QED BY <2>2 DEF q
<1>5. CASE RoundComplete(p) /\ (\A s \in SeatsOf(p) : ~(p.current_pack[s] > 0)) /\ ~(p.current_pack_number + 1 >= p.kind.packs)
  <2> DEFINE c == [s \in SeatsOf(p) |-> p.kind.size]
  <2>1. q = [r EXCEPT !.current_pack_number = @ + 1, !.pick_number = 0, !.current_pack = c]
    BY <1>5 DEF finish_pick
  <2> HIDE DEF c, q, r
  <2>2. Kept(q)
    BY <1>1, <2>1 DEF PodFields, SameRounds, Early
  <2> QED BY <2>2 DEF q
<1> QED BY <1>2, <1>3, <1>4, <1>5

\* A pick plays no round.
LEMMA PickRounds ==
    ASSUME NEW p, DOMAIN p = PodFields, p.status = "Drafting", NEW s, NEW n
    PROVE  SameRounds(Picked(p, s, n), p) /\ Picked(p, s, n).status \in Early
<1> DEFINE q == [p EXCEPT !.current_pack[s] = @ - n, !.pool[s] = @ + n, !.picked = @ \cup {s}]
<1>1. DOMAIN q = PodFields /\ q.status = "Drafting" /\ SameRounds(q, p)
  BY DEF PodFields, SameRounds
<1>2. Picked(p, s, n) = finish_pick(q)
  BY DEF Picked
<1> HIDE DEF q
<1>3. SameRounds(finish_pick(q), q) /\ finish_pick(q).status \in Early
  BY <1>1, FinishRounds
<1> QED BY <1>1, <1>2, <1>3 DEF SameRounds

\* The timer's picks play no round.
LEMMA AutoRounds ==
    ASSUME NEW p, DOMAIN p = PodFields, p.status = "Drafting"
    PROVE  SameRounds(AutoPicked(p), p) /\ AutoPicked(p).status \in Early
<1> DEFINE n == [s \in SeatsOf(p) |-> IF OwesPick(p, s) THEN required_pick_count(p, s) ELSE 0]
           q == [p EXCEPT !.current_pack = [s \in SeatsOf(p) |-> @[s] - n[s]],
                          !.pool = [s \in SeatsOf(p) |-> @[s] + n[s]],
                          !.picked = @ \cup {s \in SeatsOf(p) : OwesPick(p, s)}]
<1>1. AutoPicked(p) = finish_pick(q)
  BY DEF AutoPicked
<1> HIDE DEF n
<1>2. DOMAIN q = PodFields /\ q.status = "Drafting" /\ SameRounds(q, p)
  BY DEF PodFields, SameRounds
<1> HIDE DEF q
<1>3. SameRounds(finish_pick(q), q) /\ finish_pick(q).status \in Early
  BY <1>2, FinishRounds
<1> QED BY <1>1, <1>2, <1>3 DEF SameRounds

\* One seat of the sweep plays no round.
LEMMA SweptRounds ==
    ASSUME NEW p, Sound(p), Robin(p), NEW s
    PROVE  Robin(Swept(p, s))
<1>1. CASE p.status = "Drafting"
  <2>1. DOMAIN p = PodFields
    BY <1>1 DEF Sound, Formed, NoRow
  <2>2. Swept(p, s) = p \/ \E n : Swept(p, s) = Picked(p, s, n)
    BY <1>1 DEF Swept, pick_random
  <2>3. ASSUME NEW n PROVE Robin(Picked(p, s, n))
    <3>1. PICK q : q = Picked(p, s, n)
      OBVIOUS
    <3>2. SameRounds(q, p) /\ q.status \in Early
      BY <1>1, <2>1, <3>1, PickRounds
    <3>3. Robin(q)
      BY <1>1, <3>2, SameRobin DEF Early
    <3> QED BY <3>1, <3>3
  <2> QED BY <2>2, <2>3
<1>2. CASE p.status = "Lobby" /\ s = Host
  <2>1. Swept(p, s) = NoRow
    BY <1>2 DEF Swept
  <2> QED BY <2>1 DEF Robin, NoRow
<1>3. CASE p.status = "Lobby" /\ s # Host
  <2> DEFINE q == [p EXCEPT !.claimed = @ \ {s}, !.bots = @ \ {s}]
  <2>1. Swept(p, s) = q
    BY <1>3 DEF Swept
  <2>2. DOMAIN p = PodFields
    BY <1>3 DEF Sound, Formed, NoRow
  <2>3. SameRounds(q, p) /\ q.status = p.status
    BY <2>2 DEF PodFields, SameRounds
  <2> HIDE DEF q
  <2> QED BY <1>3, <2>1, <2>3, SameRobin
<1>4. CASE p.status \notin {"Drafting", "Lobby"}
  <2>1. Swept(p, s) = p
    BY <1>4 DEF Swept
  <2> QED BY <2>1
<1> QED BY <1>1, <1>2, <1>3, <1>4

\* The sweep plays no round.
LEMMA SweepRounds ==
    ASSUME Sound(pod), Robin(pod), NEW order \in Seq(SeatsOf(pod)), pod # NoRow
    PROVE  Robin(SweptInTurn(order))
<1> DEFINE g == CHOOSE g : InTurn(g, order, Len(order))
           Good(p) == Sound(p) /\ Robin(p) /\ (p # NoRow => p.kind = pod.kind)
           S == {k \in Nat : k <= Len(order) => Good(g[k])}
<1>1. Len(order) \in Nat /\ \A i \in 1..Len(order) : order[i] \in SeatsOf(pod)
  OBVIOUS
<1>2. InTurn(g, order, Len(order))
  BY <1>1, TurnsExist
<1>3. SweptInTurn(order) = g[Len(order)]
  BY DEF SweptInTurn, InTurn
<1> HIDE DEF g
<1>4. 0 \in S
  <2>1. g[0] = pod
    BY <1>1, <1>2 DEF InTurn
  <2> QED BY <2>1
<1>5. ASSUME NEW k \in Nat, k \in S PROVE k + 1 \in S
  <2>1. SUFFICES ASSUME k + 1 <= Len(order) PROVE Good(g[k + 1])
    OBVIOUS
  <2>2. k + 1 \in 0..Len(order) /\ (k + 1) - 1 = k /\ k + 1 # 0 /\ k + 1 \in 1..Len(order)
    BY <1>1, <2>1
  <2>3. g[k + 1] = Swept(g[(k + 1) - 1], order[k + 1])
    BY <1>2, <2>2 DEF InTurn
  <2>4. Good(g[k])
    BY <1>1, <1>5, <2>1
  <2>5. PICK p : p = g[k]
    OBVIOUS
  <2>6. PICK s : s = order[k + 1]
    OBVIOUS
  <2>7. Sound(p) /\ Robin(p) /\ (p # NoRow => s \in SeatsOf(p) /\ p.kind = pod.kind)
    BY <1>1, <2>2, <2>4, <2>5, <2>6 DEF SeatsOf
  <2>8. Sound(Swept(p, s)) /\ (Swept(p, s) # NoRow => p # NoRow /\ Swept(p, s).kind = p.kind)
    BY <2>7, SweptKeeps
  <2>9. Robin(Swept(p, s))
    BY <2>7, SweptRounds
  <2>10. g[k + 1] = Swept(p, s)
    BY <2>2, <2>3, <2>5, <2>6
  <2> QED BY <2>7, <2>8, <2>9, <2>10
<1> HIDE DEF S
<1>6. Len(order) \in S
  BY <1>1, <1>4, <1>5, Inductive
<1>7. Good(g[Len(order)])
  BY <1>1, <1>6 DEF S
<1> QED BY <1>3, <1>7

\* What a report writes into a pairing leaves the tables as they were.
LEMMA ResultKeepsTables ==
    ASSUME NEW p, p.kind.seats \in Nat, Tables(p), NEW i \in DOMAIN p.pairings, NEW w \in Seats \cup {Nobody},
           NEW q, q.kind = p.kind, q.current_round = p.current_round,
           q.pairings = [p.pairings EXCEPT ![i].complete = TRUE, ![i].winner = w]
    PROVE  Tables(q)
<1> DEFINE old == p.pairings
           new == q.pairings
<1>1. SeatsOf(q) = SeatsOf(p)
  BY DEF SeatsOf
<1>2. PICK n \in Nat : old \in [1..n -> DraftPairing]
  BY SMTT(30) DEF Tables
<1>3. DOMAIN old = 1..n /\ DOMAIN new = 1..n
  BY <1>2
<1>4. ASSUME NEW j \in 1..n
      PROVE  new[j] \in DraftPairing /\ new[j].round = old[j].round /\ new[j].players = old[j].players
  <2>1. CASE j # i
    BY <1>2, <1>3, <2>1
  <2>2. CASE j = i
    <3>1. new[i] = [old[i] EXCEPT !.complete = TRUE, !.winner = w]
      BY <1>2, <1>3 DEF DraftPairing
    <3>2. old[i] \in DraftPairing
      BY <1>2, <1>3
    <3> QED BY <2>2, <3>1, <3>2 DEF DraftPairing
  <2> QED BY <2>1, <2>2
<1>5. new \in Seq(DraftPairing)
  <2>1. new = [j \in 1..n |-> new[j]]
    BY <1>2, <1>3
  <2> HIDE DEF new
  <2> QED BY <1>4, <2>1
<1>6. \A j \in 1..n : Met(q, j) = Met(p, j)
  BY <1>4 DEF Met
<1> HIDE DEF old, new
<1>7. ASSUME NEW j \in 1..n
      PROVE  new[j].round \in 1..q.current_round /\ \E s, u \in SeatsOf(q) : s # u /\ Met(q, j) = {s, u}
  BY <1>1, <1>3, <1>4, <1>6 DEF Tables, old
<1>8. ASSUME NEW j \in 1..n, NEW k \in 1..n, j # k
      PROVE  Met(q, j) # Met(q, k) /\ (new[j].round = new[k].round => Met(q, j) \cap Met(q, k) = {})
  BY <1>3, <1>4, <1>6, <1>8 DEF Tables, old
<1>9. ASSUME q.kind.seats = 4, NEW j \in 1..n
      PROVE  \E k \in 1..n : Met(q, k) = SeatsOf(q) \ Met(q, j)
  <2>1. PICK k \in 1..n : Met(p, k) = SeatsOf(p) \ Met(p, j)
    BY <1>3, <1>9 DEF Tables, old
  <2> QED BY <1>1, <1>6, <2>1
<1> QED BY <1>3, <1>5, <1>7, <1>8, <1>9, ZenonT(30) DEF Tables, new

\* apply_report_match_result keeps the rounds: the last ends the pod.
LEMMA ReportedRounds ==
    ASSUME Formed(pod), Robin(pod), NEW i, NEW w, MayReport(i, w)
    PROVE  Robin(Reported(i, w))
<1> DEFINE a == Undone(pod, i)
           b == [a EXCEPT !.pairings[i].complete = TRUE, !.pairings[i].winner = w]
           c == Recorded(b, i, w)
           d == IF AllComplete(c) THEN [c EXCEPT !.status = IF Over(c) THEN "Complete" ELSE "RoundComplete"] ELSE c
           ps == [pod.pairings EXCEPT ![i].complete = TRUE, ![i].winner = w]
           Kept(q) == DOMAIN q = PodFields /\ q.kind = pod.kind /\ q.current_round = pod.current_round
<1>1. Kept(a) /\ a.status = pod.status /\ a.pairings = pod.pairings
  <2>0. Kept(pod)
    BY DEF Formed
  <2>1. \E x : a = pod \/ a = [pod EXCEPT !.match_wins = x]
    BY DEF Undone
  <2> HIDE DEF a
  <2> QED BY <2>0, <2>1 DEF PodFields
<1> HIDE DEF a
<1>2. Kept(b) /\ b.status = pod.status /\ b.pairings = ps
  <2>1. b = [a EXCEPT !.pairings = ps]
    BY <1>1 DEF PodFields
  <2> HIDE DEF b, ps
  <2> QED BY <1>1, <2>1 DEF PodFields
<1> HIDE DEF b, ps
<1>3. Kept(c) /\ c.status = pod.status /\ c.pairings = ps
  <2>1. \E x : c = b \/ c = [b EXCEPT !.match_wins = x]
    BY DEF Recorded
  <2> HIDE DEF c
  <2> QED BY <1>2, <2>1 DEF PodFields
<1> HIDE DEF c
<1>4. Kept(d) /\ d.pairings = ps
  BY <1>3 DEF PodFields
<1>5. d.status \in {pod.status, "Complete"} \/ (d.status = "RoundComplete" /\ ~(pod.current_round >= 3))
  BY <1>3 DEF PodFields, Over, SWISS_ROUNDS
<1>6. Reported(i, w) = d
  BY DEF Reported, a, b, c
<1> HIDE DEF d
<1>7. pod.status \in {"MatchInProgress", "RoundComplete"} /\ i \in DOMAIN pod.pairings
      /\ w \in Range(pod.pairings[i].players) \cup {Nobody}
  BY DEF MayReport
<1>8. ASSUME d.kind.seats \in {3, 4} PROVE Tables(d)
  <2>1. Tables(pod)
    BY <1>4, <1>7, <1>8 DEF Robin
  <2>2. w \in Seats \cup {Nobody}
    <3>1. pod.pairings[i].players \in Seats \X Seats
      <4>1. PICK n \in Nat : pod.pairings \in [1..n -> DraftPairing]
        BY <2>1 DEF Tables
      <4>2. pod.pairings[i] \in DraftPairing
        BY <1>7, <4>1
      <4> QED BY <4>2 DEF DraftPairing
    <3>2. Range(pod.pairings[i].players) \subseteq Seats
      BY <3>1 DEF Range
    <3> QED BY <1>7, <3>2
  <2>3. PICK p : p = pod
    OBVIOUS
  <2>4. d.pairings = [p.pairings EXCEPT ![i].complete = TRUE, ![i].winner = w] /\ i \in DOMAIN p.pairings
    BY <1>4, <1>7, <2>3 DEF ps
  <2>5. d.kind = p.kind /\ d.current_round = p.current_round /\ p.kind.seats \in Nat
    BY <1>4, <1>8, <2>3
  <2>6. Tables(p)
    BY <2>1, <2>3
  <2> QED BY <2>2, <2>4, <2>5, <2>6, ResultKeepsTables
<1>9. pod.current_round \in Nat /\ (pod.status = "RoundComplete" => pod.current_round <= 2)
  BY <1>7 DEF Robin
<1> QED BY <1>4, <1>5, <1>6, <1>7, <1>8, <1>9 DEF Robin

\* Every step keeps the rounds, of the pod and of its row.
LEMMA StepKeepsRobin ==
    ASSUME Sound(pod), Sound(row), Robin(pod), Robin(row), DNext
    PROVE  Robin(pod') /\ Robin(row')
<1>1. CASE JoinDraft
  <2> DEFINE open == SeatsOf(pod) \ pod.claimed
             q == [pod EXCEPT !.claimed = @ \cup {Min(open)}, !.bots = @ \ {Min(open)}]
  <2>1. pod.status = "Lobby" /\ pod' = q /\ row' = row
    BY <1>1 DEF JoinDraft
  <2>2. DOMAIN pod = PodFields
    BY <2>1, ExistsFormed DEF Exists, Formed
  <2> HIDE DEF open
  <2>3. SameRounds(q, pod) /\ q.status = pod.status
    BY <2>2 DEF PodFields, SameRounds
  <2> HIDE DEF q
  <2>4. Robin(q)
    BY <2>1, <2>3, SameRobin
  <2> QED BY <2>1, <2>4
<1>2. CASE StartDraft
  <2> DEFINE c == [s \in SeatsOf(pod) |-> pod.kind.size]
             q == [pod EXCEPT !.status = "Drafting", !.current_pack = c]
  <2>1. pod.status = "Lobby" /\ DOMAIN pod = PodFields
    BY <1>2, ExistsFormed DEF StartDraft, Free, here, Formed
  <2>2. pod' = q /\ row' = row
    BY <1>2 DEF StartDraft, Handled
  <2> HIDE DEF c
  <2>3. SameRounds(q, pod) /\ q.status \in Early
    BY <2>1 DEF PodFields, SameRounds, Early
  <2> HIDE DEF q
  <2>4. Robin(q)
    BY <2>1, <2>3, SameRobin DEF Early
  <2> QED BY <2>2, <2>4
<1>3. CASE AdvanceRound
  <2> DEFINE q == [pod EXCEPT !.status = "Pairing"]
  <2>1. pod.status = "RoundComplete" /\ DOMAIN pod = PodFields
    BY <1>3, ExistsFormed DEF AdvanceRound, Free, here, Formed
  <2>2. pod' = q /\ row' = row
    BY <1>3 DEF AdvanceRound, Handled
  <2>3. SameRounds(q, pod) /\ q.status = "Pairing"
    BY <2>1 DEF PodFields, SameRounds
  <2> HIDE DEF q
  <2>4. Robin(q)
    BY <2>1, <2>3, SameRobin
  <2> QED BY <2>2, <2>4
<1>4. CASE Sweep
  <2> DEFINE expired == {s \in Claimed : presence[s] = "expired"}
  <2>1. PICK order \in SetToSeqs(expired) : pod' = SweptInTurn(order)
    BY <1>4 DEF Sweep
  <2>2. expired # {} /\ row' = row
    BY <1>4 DEF Sweep
  <2>3. Exists
    BY <2>2 DEF Claimed
  <2>4. pod # NoRow
    BY <2>3, ExistsFormed, FormedExists
  <2>5. order \in Seq(SeatsOf(pod))
    BY <2>1, <2>3, SweepOrder
  <2>6. Robin(SweptInTurn(order))
    BY <2>4, <2>5, SweepRounds
  <2> QED BY <2>1, <2>2, <2>6
<1>5. CASE Save
  BY <1>5 DEF Save
<1>6. CASE Restart
  BY <1>6 DEF Restart
<1>7. ASSUME NEW s \in Seats, Disconnect(s) \/ GraceExpires(s) \/ ReconnectDraft(s) PROVE Robin(pod') /\ Robin(row')
  BY <1>7 DEF Disconnect, GraceExpires, ReconnectDraft
<1>8. ASSUME NEW s \in Seats, HandlerTail(s) PROVE Robin(pod') /\ Robin(row')
  <2>1. row' = row /\ (pod' = pod \/ (Exists /\ pod.status = "Pairing" /\ \E o \in Pools : pod' = Paired(o)))
    BY <1>8 DEF HandlerTail
  <2>2. CASE Exists /\ pod.status = "Pairing" /\ \E o \in Pools : pod' = Paired(o)
    <3>1. PICK o \in Pools : pod' = Paired(o)
      BY <2>2
    <3>2. Formed(pod)
      BY <2>2, ExistsFormed
    <3>3. Robin(Paired(o))
      BY <2>2, <3>2, PairedKeeps
    <3> QED BY <2>1, <3>1, <3>3
  <2> QED BY <2>1, <2>2
<1>9. ASSUME NEW s \in Seats, Pick(s) PROVE Robin(pod') /\ Robin(row')
  <2>1. PICK n \in StepSizes(pod, s) : Handled(s, Picked(pod, s, n))
    BY <1>9 DEF Pick
  <2>2. pod.status = "Drafting" /\ DOMAIN pod = PodFields
    BY <1>9, ExistsFormed DEF Pick, Free, here, MayPick, Formed
  <2>3. PICK p : p = pod
    OBVIOUS
  <2>4. PICK q : q = Picked(p, s, n)
    OBVIOUS
  <2>5. SameRounds(q, p) /\ q.status \in Early
    BY <2>2, <2>3, <2>4, PickRounds
  <2>6. Robin(q)
    BY <2>2, <2>3, <2>5, SameRobin DEF Early
  <2>7. pod' = q /\ row' = row
    BY <2>1, <2>3, <2>4 DEF Handled
  <2> QED BY <2>6, <2>7
<1>10. ASSUME NEW s \in Seats, SubmitDeck(s) PROVE Robin(pod') /\ Robin(row')
  <2> DEFINE decks == pod.decks \cup {s}
             st == IF SeatsOf(pod) \ pod.bots \subseteq decks
                   THEN IF pod.kind.pairs THEN "Pairing" ELSE "Complete"
                   ELSE pod.status
             q == [pod EXCEPT !.decks = decks, !.status = st]
  <2>1. pod.status = "Deckbuilding" /\ DOMAIN pod = PodFields
    BY <1>10, ExistsFormed DEF SubmitDeck, Free, here, Formed
  <2>2. pod' = q /\ row' = row
    BY <1>10, <2>1 DEF SubmitDeck, Handled, PodFields
  <2>3. st \in {"Pairing", "Complete", "Deckbuilding"}
    BY <2>1
  <2> HIDE DEF decks, st
  <2>4. SameRounds(q, pod) /\ q.status = st
    BY <2>1 DEF PodFields, SameRounds
  <2> HIDE DEF q
  <2>5. Robin(q)
    BY <2>1, <2>3, <2>4, SameRobin
  <2> QED BY <2>2, <2>5
<1>11. ASSUME NEW s \in Seats, ReplaceSeatWithBot(s) PROVE Robin(pod') /\ Robin(row')
  <2> DEFINE q == [pod EXCEPT !.bots = @ \cup {s}]
  <2>1. pod.status # "Gone" /\ DOMAIN pod = PodFields
    BY <1>11, ExistsFormed DEF ReplaceSeatWithBot, Free, here, Formed, Exists
  <2>2. pod' = q /\ row' = row
    BY <1>11 DEF ReplaceSeatWithBot, Handled
  <2>3. SameRounds(q, pod) /\ q.status = pod.status
    BY <2>1 DEF PodFields, SameRounds
  <2> HIDE DEF q
  <2>4. Robin(q)
    BY <2>1, <2>3, SameRobin
  <2> QED BY <2>2, <2>4
<1>12. ASSUME NEW t \in Timers, TimerExpires(t) PROVE Robin(pod') /\ Robin(row')
  <2>1. row' = row /\ (pod' = pod \/ (Exists /\ pod.status = "Drafting" /\ pod' = AutoPicked(pod)))
    BY <1>12 DEF TimerExpires
  <2>2. CASE Exists /\ pod.status = "Drafting" /\ pod' = AutoPicked(pod)
    <3>1. DOMAIN pod = PodFields
      BY <2>2, ExistsFormed DEF Formed
    <3>2. PICK p : p = pod
      OBVIOUS
    <3>3. PICK q : q = AutoPicked(p)
      OBVIOUS
    <3>4. SameRounds(q, p) /\ q.status \in Early
      BY <2>2, <3>1, <3>2, <3>3, AutoRounds
    <3>5. Robin(q)
      BY <2>2, <3>2, <3>4, SameRobin DEF Early
    <3> QED BY <2>1, <2>2, <3>2, <3>3, <3>5
  <2> QED BY <2>1, <2>2
<1>13. ASSUME NEW t \in Timers, RegisterTimer(t) \/ TimerTick(t) \/ TimerRearms(t) PROVE Robin(pod') /\ Robin(row')
  BY <1>13 DEF RegisterTimer, TimerTick, TimerRearms
<1>14. ASSUME NEW s \in Seats, ArmTimer(s) PROVE Robin(pod') /\ Robin(row')
  BY <1>14 DEF ArmTimer
<1>15. ASSUME NEW i, NEW w, ReportMatchResult(i, w) \/ GameOver(i, w) PROVE Robin(pod') /\ Robin(row')
  <2>1. row' = row /\ (pod' = pod \/ \E v : MayReport(i, v) /\ pod' = Reported(i, v))
    BY <1>15 DEF ReportMatchResult, GameOver, Handled
  <2>2. ASSUME NEW v, MayReport(i, v), pod' = Reported(i, v) PROVE Robin(pod')
    <3>1. Formed(pod)
      BY <2>2, ExistsFormed DEF MayReport
    <3>2. Robin(Reported(i, v))
      BY <2>2, <3>1, ReportedRounds
    <3> QED BY <2>2, <3>2
  <2> QED BY <2>1, <2>2
<1> QED BY <1>1, <1>2, <1>3, <1>4, <1>5, <1>6, <1>7, <1>8, <1>9, <1>10, <1>11, <1>12, <1>13, <1>14, <1>15
        DEF DNext, TaskStep

\* A new pod has played no round, and there is no row.
LEMMA RobinAtFirst ==
    ASSUME DInit
    PROVE  Robin(pod) /\ Robin(row)
<1>1. pod.status = "Lobby" /\ pod.current_round = 0 /\ pod.pairings = << >> /\ row = NoRow
  BY DEF DInit
<1>2. Tables(pod)
  <2>1. DOMAIN pod.pairings = {}
    BY <1>1
  <2>2. pod.pairings \in Seq(DraftPairing)
    BY <1>1
  <2> QED BY <2>1, <2>2 DEF Tables
<1>3. Robin(pod)
  BY <1>1, <1>2 DEF Robin
<1> QED BY <1>1, <1>3 DEF Robin, NoRow

\* The rounds of every pod, in memory and on disk.
LEMMA AlwaysRobin == DSpec => [](Robin(pod) /\ Robin(row))
<1>1. DInit => Robin(pod) /\ Robin(row)
  BY RobinAtFirst
<1>2. Sound(pod) /\ Sound(row) /\ Robin(pod) /\ Robin(row) /\ [DNext]_dvars => (Robin(pod) /\ Robin(row))'
  <2> SUFFICES ASSUME Sound(pod), Sound(row), Robin(pod), Robin(row), [DNext]_dvars PROVE Robin(pod') /\ Robin(row')
    BY DEF Robin, Tables, Met, SeatsOf, DraftPairing, Seats
  <2>1. CASE UNCHANGED dvars
    BY <2>1 DEF dvars
  <2> QED BY <2>1, StepKeepsRobin
<1> QED BY <1>1, <1>2, AlwaysSound, PTL DEF DSpec

\* In a pod of three or four seats no two seats are paired twice, whatever the
\* standings, the shuffles, the reports and their corrections, and also after
\* a restart from an older row, from which a round is paired anew
\* (generate_swiss_pairings, apply_report_match_result).
THEOREM RoundsAreARobin == DSpec => []RoundRobin
<1>1. Robin(pod) => RoundRobin
  BY DEF Robin, RoundRobin, Tables, Met, Exists
<1> QED BY <1>1, AlwaysRobin, PTL
=============================================================================
