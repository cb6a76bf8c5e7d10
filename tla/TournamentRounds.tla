-------------------------- MODULE TournamentRounds --------------------------
(***************************************************************************)
(* One tournament of the broker's `TournamentManager': entries, rounds,    *)
(* results, drops, hosted tables, the end of the event and the sweep that  *)
(* abandons and deletes it.  Nothing but the history of pairings is kept:  *)
(* points, opponents, byes and the schedule are derived from it whenever   *)
(* they are asked for, by handlers that arrive in any order.               *)
(*                                                                         *)
(* A request names the player its token belongs to; how tokens are rotated *)
(* is not modelled.  Tie-breaks beyond match points are left open: any     *)
(* order of players with equal points may be the standings.                *)
(***************************************************************************)
EXTENDS Integers, FiniteSets, Sequences, FiniteSetsExt, SequencesExt

CONSTANTS
    Players,
    Formats,        \* bracket, arity, scoring, bo3, total_rounds (0: no override), plus_rounds;
                    \* entrants bounds how many join
    MaxHosts,       \* bounds how often a pairing is hosted
    Nobody

ASSUME RoundsConstants ==
    /\ IsFiniteSet(Players) /\ Nobody \notin Players /\ MaxHosts \in Nat
    /\ \A f \in Formats :
        /\ f.bracket \in {"Swiss", "SingleElimination"} /\ f.arity \in 2..128
        /\ f.total_rounds \in Nat /\ f.plus_rounds \in Nat /\ f.entrants \in Nat /\ f.bo3 \in BOOLEAN
        /\ f.scoring \in [win : 1..255, draw : 0..255, loss : 0..255]
        \* create_tournament
        /\ (f.bracket = "SingleElimination" \/ f.bo3) => f.arity = 2

VARIABLES
    format,
    status,
    joined, dropped,
    pairings,       \* in the order of their ids
    current_round,
    resolved_total_rounds,
    idle            \* the longest lifecycle window passed since last_activity_at

rvars == <<format, status, joined, dropped, pairings, current_round, resolved_total_rounds, idle>>

Windows == [registration |-> 1, abandon |-> 2, retention |-> 3]
Terminal == {"Completed", "Abandoned"}
Outcome(kind, winner) == [kind |-> kind, winner |-> winner]
Pending == Outcome("pending", Nobody)
Bye == Outcome("Bye", Nobody)
Draw == Outcome("Draw", Nobody)

RInit ==
    /\ format \in Formats
    /\ status = "Registration"
    /\ joined = {} /\ dropped = {}
    /\ pairings = << >> /\ current_round = 0 /\ resolved_total_rounds = 0
    /\ idle = 0

-----------------------------------------------------------------------------
(* What is derived from the history. *)

active == joined \ dropped
Ids == DOMAIN pairings
Swiss == format.bracket = "Swiss"

\* What stands at the places I of the sequence o, in its order.
InOrder(o, I) == [k \in 1..Cardinality(I) |-> o[CHOOSE i \in I : Cardinality({j \in I : j <= i}) = k]]

Round(r) == InOrder(pairings, {i \in Ids : pairings[i].round = r})
Unresolved == {i \in Ids : pairings[i].outcome = Pending}

\* TournamentPairing::winner, a bye's being its one player.
Winner(p) == IF p.outcome = Bye THEN CHOOSE x \in p.players : TRUE ELSE p.outcome.winner

had_bye(p) == \E i \in Ids : pairings[i].players = {p} /\ pairings[i].outcome = Bye
had_short_pod(p) ==
    format.arity > 2 /\ \E i \in Ids : p \in pairings[i].players /\ Cardinality(pairings[i].players) = format.arity - 1

\* Mutant: a drawn match is forgotten.
have_faced_decided(p, q) == \E i \in Ids : {p, q} \subseteq pairings[i].players /\ pairings[i].outcome # Draw

have_faced(p, q) == \E i \in Ids : {p, q} \subseteq pairings[i].players

Log2Up(n) == Min({r \in 0..n : 2^r >= n})

default_total_rounds(n) ==
    IF ~Swiss THEN Log2Up(n)
    ELSE IF format.arity = 2 THEN Log2Up(Max({n, 8}))
    ELSE CASE n <= 16 -> 2 [] n \in 17..24 -> 3 [] n \in 25..32 -> 4 [] OTHER -> 5

total_rounds ==
    IF format.total_rounds # 0 THEN format.total_rounds
    ELSE IF resolved_total_rounds # 0 THEN resolved_total_rounds
    ELSE default_total_rounds(Cardinality(active)) + format.plus_rounds

\* ScoringPolicy: a bye is a win.
Points(outcome, won) ==
    CASE outcome = Pending -> 0
      [] outcome = Draw -> format.scoring.draw
      [] won -> format.scoring.win
      [] OTHER -> format.scoring.loss

\* player_records.
match_points(p) ==
    MapThenSumSet(LAMBDA i : Points(pairings[i].outcome, Winner(pairings[i]) = p),
                  {i \in Ids : p \in pairings[i].players})

\* The orders `standings' may give, without the players who dropped.
Standings == {o \in SetToSeqs(active) : \A i, j \in DOMAIN o : i < j => match_points(o[i]) >= match_points(o[j])}

-----------------------------------------------------------------------------
(* Round construction. *)

\* Mutant: an odd player out is not looked for.
partition_round_even(n) == [byes |-> 0, short |-> 0, full |-> n \div format.arity]

\* The fewest byes, then the fewest short pods.
partition_round(n) ==
    LET short_size == format.arity - 1
        fits(b, s) == n - b - s * short_size >= 0 /\ (n - b - s * short_size) % format.arity = 0
        b == Min({x \in 0..n : \E s \in 0..short_size : fits(x, s)})
        s == Min({x \in 0..short_size : fits(b, x)})
    IN  [byes |-> IF short_size < 2 THEN b + s ELSE b, short |-> IF short_size < 2 THEN 0 ELSE s,
         full |-> (n - b - s * short_size) \div format.arity]

Lowest(I, k) == {i \in I : Cardinality({j \in I : j > i}) < k}

\* Mutant: whoever stands lowest, again and again.
select_fair_lowest(I, count, fresh) == Lowest(I, count)

\* Places from the bottom of the standings, those not yet shorted first.
select_fair(I, count, fresh) ==
    IF Cardinality(I \cap fresh) >= count THEN Lowest(I \cap fresh, count)
    ELSE (I \cap fresh) \cup Lowest(I \ fresh, count - Cardinality(I \cap fresh))

\* One seat of the first pod with room, while anyone is left: the first player
\* who has met nobody of the pod.
Seating(at, sizes) ==
    LET open == {i \in DOMAIN sizes : Len(at.pods[i]) < sizes[i]}
        pod == Min(open)
        new == {c \in DOMAIN at.left : \A x \in Range(at.pods[pod]) : ~have_faced(x, at.left[c])}
        c == IF new = {} THEN 1 ELSE Min(new)
    IN  IF open = {} THEN at
        ELSE [left |-> RemoveAt(at.left, c), pods |-> [at.pods EXCEPT ![pod] = Append(@, at.left[c])]]

greedy_assign(order, sizes) ==
    LET Seat[k \in 0..Len(order)] ==
            IF k = 0 THEN [left |-> order, pods |-> [i \in DOMAIN sizes |-> << >>]] ELSE Seating(Seat[k - 1], sizes)
    IN  Seat[Len(order)].pods

Rematches(pod) == {ij \in (DOMAIN pod) \X (DOMAIN pod) : ij[1] < ij[2] /\ have_faced(pod[ij[1]], pod[ij[2]])}
pod_conflicts(pod) == Cardinality(Rematches(pod))

Before(a, b) == \E i \in DOMAIN a : a[i] < b[i] /\ \A j \in 1..(i - 1) : a[j] = b[j]

\* The exchange of one player of the pod s[1] for one of the pod s[2].
Swapped(pods, s) == [pods EXCEPT ![s[1]][s[3]] = pods[s[2]][s[4]], ![s[2]][s[4]] = pods[s[1]][s[3]]]

Improving(pods) ==
    LET between(ps, s) == pod_conflicts(ps[s[1]]) + pod_conflicts(ps[s[2]])
    IN  {s \in UNION {{<<i, j, x, y>> : x \in DOMAIN pods[i], y \in DOMAIN pods[j]} :
                          i \in {k \in DOMAIN pods : pod_conflicts(pods[k]) > 0}, j \in DOMAIN pods} :
            s[1] # s[2] /\ between(Swapped(pods, s), s) < between(pods, s)}

\* The first exchange that leaves fewer rematches.
Repaired(pods) ==
    IF Improving(pods) = {} THEN pods
    ELSE Swapped(pods, CHOOSE s \in Improving(pods) : \A t \in Improving(pods) \ {s} : Before(s, t))

\* Again and again: each time there are fewer.
repair_rematches(pods) ==
    LET total == Cardinality(UNION {{i} \X Rematches(pods[i]) : i \in DOMAIN pods})
        Repair[n \in 0..total] == IF n = 0 THEN pods ELSE Repaired(Repair[n - 1])
    IN  Repair[total]

build_swiss_round(o) ==
    LET part == partition_round(Len(o))
        byes == select_fair(DOMAIN o, part.byes, {i \in DOMAIN o : ~had_bye(o[i])})
        shorts == select_fair(DOMAIN o \ byes, part.short * (format.arity - 1), {i \in DOMAIN o : ~had_short_pod(o[i])})
        sizes == [i \in 1..(part.full + part.short) |-> IF i <= part.full THEN format.arity ELSE format.arity - 1]
        order == InOrder(o, DOMAIN o \ (byes \cup shorts)) \o InOrder(o, shorts)
        pods == repair_rematches(greedy_assign(order, sizes))
        bye == InOrder(o, byes)
    IN  [i \in DOMAIN pods |-> Range(pods[i])] \o [i \in DOMAIN bye |-> {bye[i]}]

\* Seeds meet from the ends of the bracket; then neighbouring winners meet.
\* No round where the field does not suit or the bracket is decided.
build_single_elimination_round(o) ==
    LET n == Len(o)
        slots == Min({s \in {2, 4, 8} : s >= n})     \* next_power_of_two
        previous == Round(current_round)
    IN  IF current_round = 0
        THEN IF n \notin 2..8 THEN << >>
             ELSE [i \in 1..(slots \div 2) |-> IF slots + 1 - i <= n THEN {o[i], o[slots + 1 - i]} ELSE {o[i]}]
        ELSE IF Len(previous) < 2 THEN << >>
             ELSE [i \in 1..(Len(previous) \div 2) |-> {Winner(previous[2 * i - 1]), Winner(previous[2 * i])}]

-----------------------------------------------------------------------------
(* The requests. *)

\* A request that does something is activity.
Active == idle' = 0

Join(p) ==
    /\ status = "Registration" /\ p \notin joined /\ Cardinality(joined) < format.entrants
    /\ joined' = joined \cup {p} /\ Active
    /\ UNCHANGED <<format, status, dropped, pairings, current_round, resolved_total_rounds>>

Latch == IF current_round = 0 /\ format.total_rounds = 0 THEN total_rounds ELSE resolved_total_rounds

MayStart == status \in {"Registration", "InProgress"} /\ current_round < total_rounds /\ Unresolved = {}

\* generate_pairings.
StartRound(o) ==
    LET pods == IF Swiss THEN build_swiss_round(o) ELSE build_single_elimination_round(o)
    IN  /\ MayStart /\ o \in Standings
        /\ Swiss \/ pods # << >>
        /\ pairings' = pairings \o [i \in DOMAIN pods |->
                [round |-> current_round + 1, players |-> pods[i], host |-> 0,
                 outcome |-> IF Cardinality(pods[i]) = 1 THEN Bye ELSE Pending]]
        /\ current_round' = current_round + 1
        /\ resolved_total_rounds' = Latch
        /\ status' = "InProgress" /\ Active
        /\ UNCHANGED <<format, joined, dropped>>

\* report_gate is Open or Hosted.
Reportable(i) == status \notin Terminal \cup {"Gone"} /\ pairings[i].outcome.kind \notin {"Bye", "Forfeit"}

\* validate_match_result, and no draw in a bracket.
Valid(i, outcome) ==
    IF outcome.kind = "Draw" THEN Swiss
    ELSE outcome.winner \in pairings[i].players \ dropped

SetOutcome(i, outcome) ==
    /\ Reportable(i) /\ Valid(i, outcome)
    /\ pairings' = [pairings EXCEPT ![i].outcome = outcome]
    /\ Active
    /\ UNCHANGED <<format, status, joined, dropped, current_round, resolved_total_rounds>>

\* report_result, by a player seated in the pairing; a correction overwrites.
Report(p, i, outcome) ==
    /\ p \in active /\ p \in pairings[i].players
    /\ pairings[i].host = 0
    /\ SetOutcome(i, outcome)

\* report_result_system.
ReportHosted(i, outcome) == pairings[i].host > 0 /\ SetOutcome(i, outcome)

BeginHosting(i) ==
    /\ Swiss /\ format.arity = 2 /\ format.bo3 /\ Cardinality(pairings[i].players) = 2
    /\ Reportable(i) /\ pairings[i].host < MaxHosts
    /\ pairings' = [pairings EXCEPT ![i].host = @ + 1]
    /\ Active
    /\ UNCHANGED <<format, status, joined, dropped, current_round, resolved_total_rounds>>

\* Mutant: only pairings of two are looked at.
Settles_pairs(i, p) ==
    /\ pairings[i].outcome = Pending /\ p \in pairings[i].players /\ Cardinality(pairings[i].players) = 2
    /\ Cardinality(pairings[i].players \ (dropped \cup {p})) = 1

\* A drop settles a pairing that it leaves to one player.
Settles(i, p) ==
    /\ pairings[i].outcome = Pending /\ p \in pairings[i].players
    /\ Cardinality(pairings[i].players \ (dropped \cup {p})) = 1

drop_player(p) ==
    /\ status \in {"Registration", "InProgress"} /\ p \in active
    /\ dropped' = dropped \cup {p}
    /\ pairings' = [i \in Ids |->
            IF Settles(i, p)
            THEN [pairings[i] EXCEPT !.outcome =
                     Outcome("Forfeit", CHOOSE x \in pairings[i].players : x \notin dropped \cup {p})]
            ELSE pairings[i]]
    /\ Active
    /\ UNCHANGED <<format, status, joined, current_round, resolved_total_rounds>>

complete_tournament ==
    /\ status = "InProgress" /\ Unresolved = {}
    /\ status' = "Completed" /\ Active
    /\ UNCHANGED <<format, joined, dropped, pairings, current_round, resolved_total_rounds>>

-----------------------------------------------------------------------------
(* The lifecycle windows. *)

TimePasses ==
    /\ status # "Gone" /\ idle < 3 /\ idle' = idle + 1
    /\ UNCHANGED <<format, status, joined, dropped, pairings, current_round, resolved_total_rounds>>

\* check_expired.
Sweep ==
    \/ /\ \/ status = "Registration" /\ idle >= Windows.registration
          \/ status \in Terminal /\ idle >= Windows.retention
       /\ status' = "Gone" /\ joined' = {} /\ dropped' = {} /\ pairings' = << >>
       /\ current_round' = 0 /\ resolved_total_rounds' = 0 /\ idle' = 0
       /\ UNCHANGED format
    \/ /\ status = "InProgress" /\ idle >= Windows.abandon
       /\ status' = "Abandoned" /\ idle' = 0
       /\ UNCHANGED <<format, joined, dropped, pairings, current_round, resolved_total_rounds>>

RNext ==
    \/ \E p \in Players : Join(p) \/ drop_player(p)
    \/ \E o \in Standings : StartRound(o)
    \/ \E i \in Ids, outcome \in {Draw} \cup {Outcome("Reported", w) : w \in Players} :
        ReportHosted(i, outcome) \/ \E p \in Players : Report(p, i, outcome)
    \/ \E i \in Ids : BeginHosting(i)
    \/ complete_tournament
    \/ TimePasses \/ Sweep

RSpec == RInit /\ [][RNext]_rvars

-----------------------------------------------------------------------------
(* Properties. *)

NewRound == current_round' > current_round
NewIds == (Len(pairings) + 1)..Len(pairings')
Seated(p) == {i \in NewIds : p \in pairings'[i].players}

\* A new round seats everyone who is still in the event exactly once, whoever
\* dropped before it and however rematches were traded away: in a bracket, the
\* winners of the round before.
RoundSeatsField ==
    [][NewRound =>
        LET last == Round(current_round)
            field == IF Swiss \/ current_round = 0 THEN active ELSE {Winner(last[i]) : i \in DOMAIN last}
        IN  /\ UNION {pairings'[i].players : i \in NewIds} = field
            /\ \A p \in field : Cardinality(Seated(p)) = 1]_rvars

\* Byes are spread: nobody has a second one while a player who is still in the
\* event has had none and plays.
ByesSpread ==
    [][NewRound /\ Swiss =>
        \A p, q \in active :
            had_bye(p) /\ ~had_bye(q) /\ (\E i \in Seated(p) : pairings'[i].outcome = Bye)
                => \E i \in Seated(q) : pairings'[i].outcome = Bye]_rvars

\* In a field of at most five, two players meet again only where nobody else
\* could be paired with them: if those who play can be paired without rematches,
\* they are (greedy_assign, repair_rematches).  In a field of seven exchanges
\* of two players do not always find the way.
NoNeedlessRematch ==
    [][NewRound /\ Swiss /\ format.arity = 2 /\ Cardinality(active) <= 5 =>
        LET Met(p, q) == \E i \in Ids : {p, q} \subseteq pairings[i].players
            paired == {p \in active : \E i \in Seated(p) : Cardinality(pairings'[i].players) = 2}
            met == {i \in NewIds : Cardinality(pairings'[i].players) = 2
                                   /\ \A p, q \in pairings'[i].players : p # q => Met(p, q)}
            partner == {m \in [paired -> paired] :
                          \A p \in paired : m[p] # p /\ m[m[p]] = p /\ ~Met(p, m[p])}
        IN  partner # {} => met = {}]_rvars

\* In a Swiss event an unresolved pairing seats at least two players who are
\* still in the event, so that it can be reported: drops settle the others
\* (drop_player), and the next round does not wait for the absent.
SwissStillPlayed ==
    status = "InProgress" /\ Swiss => \A i \in Unresolved : Cardinality(pairings[i].players \cap active) >= 2
=============================================================================
