------------------------------ MODULE DraftPod ------------------------------
(***************************************************************************)
(* One server-hosted draft pod: its seats and reconnect grace, the barrier *)
(* of the pick-and-pass draft, the pick-timer tasks that pick for whoever  *)
(* has not, the sweep that picks for whoever has gone, the Swiss rounds    *)
(* played afterwards as Full games, and the row it is restored from.       *)
(*                                                                         *)
(* Cards are counted, not told apart.  Single-elimination pods (always of  *)
(* eight seats), sealed and shared-stack pods are not modelled.            *)
(***************************************************************************)
EXTENDS Integers, FiniteSets, Sequences, FiniteSetsExt, SequencesExt

CONSTANTS
    MaxPod,         \* bound: the seats of the largest pod
    Kinds,          \* the pods to start from: how many seats, what the draft kind says, and what may happen
    Timers,         \* bound: the timer tasks there can be at a time
    Nobody

Seats == 0..(MaxPod - 1)
Host == 0
SWISS_ROUNDS == 3

\* Of a pod: cards per pick step and per booster, boosters per seat, and
\* whether it is played out (TournamentPairings); and the bounds on what may
\* happen to it: the seats whose sockets close, the seats the host gives to a
\* bot, the rounds that are played, whether games end by themselves, whether
\* equals are shuffled, and how often the server restarts.
ASSUME DraftConstants ==
    /\ MaxPod \in Nat \ {0, 1} /\ Nobody \notin Seats /\ IsFiniteSet(Timers) /\ Timers \subseteq Nat \ {0} /\ Timers # {}
    /\ \A k \in Kinds :
        /\ k.seats \in 2..MaxPod /\ k.per_pick \in 1..2 /\ k.size \in Nat \ {0} /\ k.packs \in Nat \ {0}
        /\ k.pairs \in BOOLEAN
        /\ k.flaky \subseteq Seats /\ k.bots \subseteq Seats /\ k.rounds \in Nat /\ k.restarts \in Nat
        /\ k.games \in BOOLEAN /\ k.shuffle \in BOOLEAN

VARIABLES
    pod,            \* the part of the session that is persisted
    presence,       \* "here"; "away" within, or "expired" beyond, its grace; else "none"
    timer,          \* per task: "none", "running", "due" (waits for the lock), "rearming"
    timer_task,     \* the task whose handle the session holds, 0 if none
    unregistered,   \* tasks spawned whose handle is not stored yet
    game,           \* per pairing: "none", "playing", or "over" and its report made
    handler,        \* per seat: its socket's handler is "idle", or has still to "arm" the timer, or to run its "tail"
    saving,         \* a save has still to be made
    row,
    restarts        \* how often the server may still restart

dvars == <<pod, presence, timer, timer_task, unregistered, game, handler, saving, row, restarts>>

\* The seats of a pod.
SeatsOf(p) == 0..(p.kind.seats - 1)

NoRow == [status |-> "Gone"]
Exists == pod.status # "Gone"
Claimed == IF Exists THEN pod.claimed ELSE {}
here(s) == Exists /\ s \in pod.claimed /\ presence[s] = "here"

DInit ==
    /\ \E k \in Kinds :
        pod = [kind |-> k, status |-> "Lobby", claimed |-> {Host}, bots |-> {},
               current_pack_number |-> 0, pick_number |-> 0, current_pack |-> [s \in 0..(k.seats - 1) |-> 0], picked |-> {},
               pool |-> [s \in 0..(k.seats - 1) |-> 0], decks |-> {}, current_round |-> 0, pairings |-> << >>,
               match_wins |-> [s \in 0..(k.seats - 1) |-> 0]]
    /\ presence = [s \in Seats |-> IF s = Host THEN "here" ELSE "none"]
    /\ timer = [t \in Timers |-> "none"] /\ timer_task = 0 /\ unregistered = {}
    /\ game = << >> /\ handler = [s \in Seats |-> "idle"] /\ saving = FALSE /\ row = NoRow /\ restarts = pod.kind.restarts

-----------------------------------------------------------------------------
(* The barrier: pick_pass.rs. *)

OwesPick(p, s) == p.current_pack[s] > 0 /\ s \notin p.picked

next_seat(p, s) == IF p.current_pack_number % 2 = 0 THEN (s + 1) % p.kind.seats ELSE (s + p.kind.seats - 1) % p.kind.seats

RoundComplete(p) == \A s \in SeatsOf(p) : ~OwesPick(p, s)

\* finish_pick.
finish_pick(p) ==
    IF ~RoundComplete(p) THEN p
    ELSE LET q == [p EXCEPT !.picked = {}]
         IN  IF \E s \in SeatsOf(p) : p.current_pack[s] > 0
             THEN [q EXCEPT !.pick_number = @ + 1,
                            !.current_pack = [d \in SeatsOf(p) |-> p.current_pack[CHOOSE s \in SeatsOf(p) : next_seat(p, s) = d]]]
             ELSE IF p.current_pack_number + 1 >= p.kind.packs
             THEN [q EXCEPT !.current_pack_number = @ + 1, !.status = "Deckbuilding"]
             ELSE [q EXCEPT !.current_pack_number = @ + 1, !.pick_number = 0,
                            !.current_pack = [s \in SeatsOf(p) |-> p.kind.size]]

\* Mutant: a seat that has picked may pick again.
MayPick_again(p, s) == p.status = "Drafting" /\ p.current_pack[s] > 0

MayPick(p, s) == p.status = "Drafting" /\ OwesPick(p, s)

required_pick_count(p, s) == Min({p.kind.per_pick, p.current_pack[s]})

\* The n cards a pick step takes net of what it returns: the kind's count, as
\* far as the pack goes, or with a draft effect two cards for one.
StepSizes(p, s) ==
    {required_pick_count(p, s)} \cup (IF p.current_pack[s] >= 2 /\ p.pool[s] > 0 THEN {1} ELSE {})

Picked(p, s, n) == finish_pick([p EXCEPT !.current_pack[s] = @ - n, !.pool[s] = @ + n, !.picked = @ \cup {s}])

\* pick_random_for_seat: refused, it changes nothing.
pick_random(p, s) == IF MayPick(p, s) THEN Picked(p, s, required_pick_count(p, s)) ELSE p

\* draft_seats_needing_auto_pick, each picked for in turn: the last closes the
\* window.
AutoPicked(p) ==
    LET n == [s \in SeatsOf(p) |-> IF OwesPick(p, s) THEN required_pick_count(p, s) ELSE 0]
    IN  finish_pick([p EXCEPT !.current_pack = [s \in SeatsOf(p) |-> @[s] - n[s]],
                              !.pool = [s \in SeatsOf(p) |-> @[s] + n[s]],
                              !.picked = @ \cup {s \in SeatsOf(p) : OwesPick(p, s)}])

-----------------------------------------------------------------------------
(* The pick timer: main.rs. *)

Window(p) == <<p.status, p.current_pack_number, p.pick_number>>
FreeTimers == {t \in Timers : timer[t] = "none" /\ t # timer_task /\ t \notin unregistered}
SpawnInto(t, tm) == [tm EXCEPT ![t] = "running"]

\* Mutant: the start of the draft does not arm the timer.
should_rearm_later(before, after) ==
    after.status = "Drafting" /\ before.status = "Drafting" /\ Window(before) # Window(after)

should_rearm_pick_timer(before, after) ==
    after.status = "Drafting" /\ (before.status = "Lobby" \/ Window(before) # Window(after))

\* Mutant: the task that was running before is left running.
Aborted_not(t) == {}

\* The task whose handle the new one replaces.
Aborted(t) == {timer_task} \ {0}

\* The second task of spawn_pick_timer.
RegisterTimer(t) ==
    /\ t \in unregistered /\ unregistered' = unregistered \ {t}
    /\ IF Exists
       THEN /\ timer_task' = t
            /\ timer' = [u \in Timers |-> IF u \in Aborted(t) THEN "none" ELSE timer[u]]
       ELSE UNCHANGED <<timer_task, timer>>
    /\ UNCHANGED <<pod, presence, game, handler, saving, row, restarts>>

\* Seconds pass: the task ends with the drafting, or its time is up.  By then
\* its handle, which waited for the lock only once, is stored.
TimerTick(t) ==
    /\ timer[t] = "running" /\ t \notin unregistered
    /\ timer' = [timer EXCEPT ![t] = IF Exists /\ pod.status = "Drafting" THEN "due" ELSE "none"]
    /\ UNCHANGED <<pod, presence, timer_task, unregistered, game, handler, saving, row, restarts>>

\* The task has the lock and picks for every seat that has not.
TimerExpires(t) ==
    /\ timer[t] = "due"
    /\ IF Exists /\ pod.status = "Drafting"
       THEN /\ pod' = AutoPicked(pod)
            /\ timer' = [timer EXCEPT ![t] = "rearming"]
       ELSE /\ timer' = [timer EXCEPT ![t] = "none"]
            /\ UNCHANGED pod
    /\ UNCHANGED <<presence, timer_task, unregistered, game, handler, saving, row, restarts>>

\* Mutant: only a window the task itself has closed is timed again.
StillDrafting_lobby == Exists /\ pod.status = "Drafting" /\ pod.pick_number > 0

StillDrafting == Exists /\ pod.status = "Drafting"

TimerRearms(t) ==
    /\ timer[t] = "rearming"
    /\ IF StillDrafting
       THEN LET new == Min(FreeTimers)
            IN  /\ FreeTimers # {}
                /\ timer' = [SpawnInto(new, timer) EXCEPT ![t] = "none"] /\ unregistered' = unregistered \cup {new}
       ELSE /\ timer' = [timer EXCEPT ![t] = "none"]
            /\ UNCHANGED unregistered
    /\ UNCHANGED <<pod, presence, timer_task, game, handler, saving, row, restarts>>

-----------------------------------------------------------------------------
(* Seats. *)

\* A save that no restart can read is left out.
Saved == restarts > 0

\* The seat's socket is there and reads its next message.
Free(s) == here(s) /\ handler[s] = "idle"

JoinDraft ==
    LET open == SeatsOf(pod) \ pod.claimed
    IN  /\ pod.status = "Lobby" /\ presence[Host] = "here" /\ open # {}
        /\ pod' = [pod EXCEPT !.claimed = @ \cup {Min(open)}, !.bots = @ \ {Min(open)}]
        /\ presence' = [presence EXCEPT ![Min(open)] = "here"]
        /\ UNCHANGED <<timer, timer_task, unregistered, game, handler, saving, row, restarts>>

Disconnect(s) ==
    /\ Free(s) /\ s \in pod.kind.flaky
    /\ presence' = [presence EXCEPT ![s] = "away"]
    /\ UNCHANGED <<pod, timer, timer_task, unregistered, game, handler, saving, row, restarts>>

GraceExpires(s) ==
    /\ Exists /\ presence[s] = "away"
    /\ presence' = [presence EXCEPT ![s] = "expired"]
    /\ UNCHANGED <<pod, timer, timer_task, unregistered, game, handler, saving, row, restarts>>

\* handle_reconnect: refused only while the grace has expired unswept.
ReconnectDraft(s) ==
    /\ s \in Claimed /\ presence[s] \in {"away", "none"}
    /\ presence' = [presence EXCEPT ![s] = "here"]
    /\ UNCHANGED <<pod, timer, timer_task, unregistered, game, handler, saving, row, restarts>>

\* sweep_expired_seats, one seat.
Swept(p, s) ==
    CASE p.status = "Drafting" -> pick_random(p, s)
      [] p.status = "Lobby" -> IF s = Host THEN NoRow ELSE [p EXCEPT !.claimed = @ \ {s}, !.bots = @ \ {s}]
      [] OTHER -> p

\* The pod after every lapsed seat has had its turn.
SweptInTurn(order) ==
    LET after[i \in 0..Len(order)] == IF i = 0 THEN pod ELSE Swept(after[i - 1], order[i])
    IN  after[Len(order)]

\* A reaped pod's row is deleted after the draft guard is released.
Sweep ==
    LET expired == {s \in Claimed : presence[s] = "expired"}
    IN  /\ expired # {}
        /\ \E order \in SetToSeqs(expired) : pod' = SweptInTurn(order)
        /\ presence' = [s \in Seats |-> IF pod'.status = "Gone" \/ s \in expired THEN "none" ELSE presence[s]]
        /\ game' = IF pod'.status = "Gone" THEN << >> ELSE game
        /\ timer_task' = IF pod'.status = "Gone" THEN 0 ELSE timer_task
        /\ saving' = Saved
        /\ UNCHANGED <<timer, unregistered, handler, row, restarts>>

-----------------------------------------------------------------------------
(* Draft actions: a socket's handler mutates, re-arms the timer, and has   *)
(* its tail to run before it reads the next message.                       *)

Handled(s, p) ==
    /\ pod' = p
    /\ handler' = [handler EXCEPT ![s] = IF should_rearm_pick_timer(pod, p) THEN "arm" ELSE "tail"]
    /\ UNCHANGED <<presence, timer, timer_task, unregistered, game, saving, row, restarts>>

ArmTimer(s) ==
    /\ handler[s] = "arm" /\ handler' = [handler EXCEPT ![s] = "tail"]
    /\ FreeTimers # {}
    /\ timer' = SpawnInto(Min(FreeTimers), timer) /\ unregistered' = unregistered \cup {Min(FreeTimers)}
    /\ UNCHANGED <<pod, presence, timer_task, game, saving, row, restarts>>

StartDraft ==
    /\ Free(Host) /\ pod.status = "Lobby"
    /\ Handled(Host, [pod EXCEPT !.status = "Drafting", !.current_pack = [s \in SeatsOf(pod) |-> pod.kind.size]])

Pick(s) == Free(s) /\ MayPick(pod, s) /\ \E n \in StepSizes(pod, s) : Handled(s, Picked(pod, s, n))

SubmitDeck(s) ==
    LET decks == pod.decks \cup {s}
    IN  /\ Free(s) /\ pod.status = "Deckbuilding"
        /\ Handled(s, [pod EXCEPT !.decks = decks,
                               !.status = IF SeatsOf(pod) \ pod.bots \subseteq decks
                                          THEN IF pod.kind.pairs THEN "Pairing" ELSE "Complete"
                                          ELSE @])

ReplaceSeatWithBot(s) == Free(Host) /\ s \in pod.kind.bots \ pod.bots /\ Handled(Host, [pod EXCEPT !.bots = @ \cup {s}])

AdvanceRound ==
    /\ Free(Host) /\ pod.status = "RoundComplete" /\ pod.current_round < pod.kind.rounds
    /\ Handled(Host, [pod EXCEPT !.status = "Pairing"])

-----------------------------------------------------------------------------
(* Pairings and results: session.rs. *)

\* Standings, shuffled among equals.
Pools ==
    {o \in SetToSeqs(SeatsOf(pod)) : \A i, j \in DOMAIN o :
        i < j => \/ pod.match_wins[o[i]] > pod.match_wins[o[j]]
                 \/ pod.match_wins[o[i]] = pod.match_wins[o[j]] /\ (pod.kind.shuffle \/ o[i] < o[j])}

\* Mutant: earlier opponents are forgotten.
Faced_last(s, u) == \E i \in DOMAIN pod.pairings : /\ Range(pod.pairings[i].players) = {s, u}
                                                   /\ pod.pairings[i].round = pod.current_round

Faced(s, u) == \E i \in DOMAIN pod.pairings : Range(pod.pairings[i].players) = {s, u}

Matchings(o) == {m \in [DOMAIN o -> DOMAIN o] : \A i \in DOMAIN o : m[i] # i /\ m[m[i]] = i}
Fresh(o) == {m \in Matchings(o) : \A i \in DOMAIN o : ~Faced(o[i], o[m[i]])}
Before(a, b) == \E i \in DOMAIN a : a[i] < b[i] /\ \A j \in 1..(i - 1) : a[j] = b[j]

\* The k-th of some places.
Nth(I, k) == CHOOSE i \in I : Cardinality({j \in I : j <= i}) = k

\* pair_pool_avoiding_rematches: the first matching of the search, with
\* rematches only where there is no other.
pair_pool(o) ==
    LET candidates == IF Fresh(o) # {} THEN Fresh(o) ELSE Matchings(o)
        m == CHOOSE x \in candidates : \A y \in candidates \ {x} : Before(x, y)
        firsts == {i \in DOMAIN o : i < m[i]}
    IN  [k \in 1..Cardinality(firsts) |-> <<o[Nth(firsts, k)], o[m[Nth(firsts, k)]]>>]

\* The bye goes to the lowest who leaves the rest without a rematch.
generate_swiss_pairings(o) ==
    IF Len(o) % 2 = 0 THEN [pairs |-> pair_pool(o), bye |-> {}]
    ELSE LET able == {i \in DOMAIN o : Fresh(RemoveAt(o, i)) # {}}
             i == IF able = {} THEN Len(o) ELSE Max(able)
         IN  [pairs |-> pair_pool(RemoveAt(o, i)), bye |-> {o[i]}]

\* apply_generate_pairings.
Paired(o) ==
    LET new == generate_swiss_pairings(o)
    IN  [pod EXCEPT !.status = "MatchInProgress", !.current_round = @ + 1,
                    !.match_wins = [s \in SeatsOf(pod) |-> @[s] + IF s \in new.bye THEN 1 ELSE 0],
                    !.pairings = @ \o [k \in DOMAIN new.pairs |->
                        [round |-> pod.current_round + 1, players |-> new.pairs[k], complete |-> FALSE, winner |-> Nobody]]]

\* The tail: maybe_spawn_draft_matches, then the save.  A game is spawned for
\* a pairing whose players have both submitted a deck.
SpawnMatches(p) ==
    [i \in DOMAIN p.pairings |->
        IF i \in DOMAIN game /\ game[i] # "none" THEN game[i]
        ELSE IF p.pairings[i].round = p.current_round /\ ~p.pairings[i].complete /\ Range(p.pairings[i].players) \subseteq p.decks
        THEN "playing"
        ELSE "none"]

HandlerTail(s) ==
    /\ handler[s] = "tail" /\ handler' = [handler EXCEPT ![s] = "idle"] /\ saving' = Saved
    /\ IF Exists
       THEN /\ IF pod.status = "Pairing" THEN \E o \in Pools : pod' = Paired(o) ELSE UNCHANGED pod
            /\ game' = SpawnMatches(pod')
       ELSE UNCHANGED <<pod, game>>
    /\ UNCHANGED <<presence, timer, timer_task, unregistered, row, restarts>>

\* DraftPairing::result_winner: a draw counts for the player with more wins.
result_winner(p, i) ==
    LET w == p.match_wins[p.pairings[i].players[1]] - p.match_wins[p.pairings[i].players[2]]
    IN  IF p.pairings[i].winner # Nobody \/ ~p.pairings[i].complete \/ w = 0 THEN p.pairings[i].winner
        ELSE p.pairings[i].players[IF w > 0 THEN 1 ELSE 2]

Less(n) == IF n = 0 THEN 0 ELSE n - 1

\* undo_match_record_result, of what was reported before.
Undone(p, i) ==
    IF ~p.pairings[i].complete THEN p
    ELSE LET w == result_winner(p, i)
         IN  IF w # Nobody THEN [p EXCEPT !.match_wins[w] = Less(@)] ELSE p

\* apply_match_record_result.
Recorded(p, i, w) ==
    IF w # Nobody THEN [p EXCEPT !.match_wins[w] = @ + 1] ELSE p

AllComplete(p) == \A i \in DOMAIN p.pairings : p.pairings[i].round = p.current_round => p.pairings[i].complete

Over(p) == p.current_round >= SWISS_ROUNDS

\* apply_report_match_result.
MayReport(i, w) ==
    /\ Exists /\ pod.status \in {"MatchInProgress", "RoundComplete"}
    /\ i \in DOMAIN pod.pairings /\ pod.pairings[i].round = pod.current_round
    /\ w \in Range(pod.pairings[i].players) \cup {Nobody}

Reported(i, w) ==
    LET p == Recorded([Undone(pod, i) EXCEPT !.pairings[i].complete = TRUE, !.pairings[i].winner = w], i, w)
    IN  IF AllComplete(p) THEN [p EXCEPT !.status = IF Over(p) THEN "Complete" ELSE "RoundComplete"]
        ELSE p

ReportMatchResult(i, w) == Free(Host) /\ MayReport(i, w) /\ Handled(Host, Reported(i, w))

\* The seat report_draft_game_over reports as the winner: the number the
\* winner has in the game, where the pairing's players are 0 and 1.
winner_seat(k) == k

\* The game of pairing i is won by its player k, or drawn (external), and
\* reported; a refused report is not tried again, and none is saved.
GameOver(i, k) ==
    /\ Exists /\ pod.kind.games /\ i \in DOMAIN game /\ game[i] = "playing" /\ k \in {0, 1, Nobody}
    /\ game' = [game EXCEPT ![i] = "over"]
    /\ pod' = IF MayReport(i, winner_seat(k)) THEN Reported(i, winner_seat(k)) ELSE pod
    /\ UNCHANGED <<presence, timer, timer_task, unregistered, handler, saving, row, restarts>>

-----------------------------------------------------------------------------
(* The row. *)

\* persist_draft_session_async snapshots under the draft guard; of a reaped
\* pod teardown_removed_draft deletes the row.
Save ==
    /\ saving /\ saving' = FALSE /\ row' = pod
    /\ UNCHANGED <<pod, presence, timer, timer_task, unregistered, game, handler, restarts>>

\* restore_persisted_drafts.  A game that ended at the crash is not reported.
Restart ==
    /\ restarts > 0 /\ restarts' = restarts - 1 /\ (Exists \/ row # NoRow)
    /\ pod' = row
    /\ presence' = [s \in Seats |-> IF row # NoRow /\ s \in row.claimed THEN "away" ELSE "none"]
    /\ timer_task' = 0
    /\ IF row # NoRow /\ row.status = "Drafting"
       THEN timer' = [t \in Timers |-> IF t = Min(Timers) THEN "running" ELSE "none"] /\ unregistered' = {Min(Timers)}
       ELSE timer' = [t \in Timers |-> "none"] /\ unregistered' = {}
    /\ \E unreported \in SUBSET {i \in DOMAIN game : game[i] = "playing"} :
        game' = IF row = NoRow THEN << >>
                ELSE [i \in DOMAIN row.pairings |->
                        IF i \notin DOMAIN game THEN "none" ELSE IF i \in unreported THEN "over" ELSE game[i]]
    /\ handler' = [s \in Seats |-> "idle"] /\ saving' = FALSE
    /\ UNCHANGED row

\* What the server's own tasks do to a pod that is being drafted.
TaskStep ==
    \/ \E s \in Seats : ArmTimer(s)
    \/ \E t \in Timers : RegisterTimer(t) \/ TimerTick(t) \/ TimerExpires(t) \/ TimerRearms(t)

DNext ==
    \/ JoinDraft \/ StartDraft \/ AdvanceRound \/ Sweep \/ Save \/ Restart
    \/ \E s \in Seats :
        \/ Disconnect(s) \/ GraceExpires(s) \/ ReconnectDraft(s)
        \/ HandlerTail(s) \/ Pick(s) \/ SubmitDeck(s) \/ ReplaceSeatWithBot(s)
    \/ TaskStep
    \/ \E i \in 1..(SWISS_ROUNDS * MaxPod) :
        \E w \in Seats \cup {Nobody} : ReportMatchResult(i, w) \/ GameOver(i, w)

DSpec == DInit /\ [][DNext]_dvars

\* Spawned tasks run, and get the draft lock: tokio's mutex is first come,
\* first served.
DFairSpec == DSpec /\ WF_dvars(TaskStep)

-----------------------------------------------------------------------------

Drafting == Exists /\ pod.status = "Drafting"

\* The sum of what n seats have.
Total(f, n) ==
    LET sum[k \in 0..n] == IF k = 0 THEN 0 ELSE sum[k - 1] + f[k - 1]
    IN  sum[n]

Left(s) == pod.current_pack[s] + (pod.kind.packs - pod.current_pack_number - 1) * pod.kind.size

\* While picks, timers and the sweep race for the same seats, no card is lost
\* or dealt twice, and where a pick is one card every seat has as many as the
\* windows that have closed and its own pick in the open one (finish_pick).
FairPools ==
    Exists /\ pod.status # "Lobby" =>
        /\ Total([s \in SeatsOf(pod) |-> pod.pool[s] + IF Drafting THEN Left(s) ELSE 0], pod.kind.seats)
              = pod.kind.seats * pod.kind.packs * pod.kind.size
        /\ pod.kind.per_pick = 1 => \A s \in SeatsOf(pod) :
            pod.pool[s] = pod.current_pack_number * pod.kind.size
                            + IF Drafting THEN pod.pick_number + Cardinality(pod.picked \cap {s}) ELSE 0

\* Timers do not accumulate: of an existing pod's tasks, all but the one whose
\* handle is stored are still to be stored (spawn_pick_timer, T-59-07).
OneTimer == Exists => \A t \in Timers : timer[t] # "none" => t \in unregistered \cup {timer_task}

\* A drafting pod is timed, or is about to be: no order of expiries, aborts,
\* re-arms and restarts leaves it waiting for a seat that never picks.
TimerCovers ==
    Drafting => (\E t \in Timers : timer[t] # "none") \/ (\E s \in Seats : handler[s] = "arm")

\* Three rounds of a pod of three or four are a round robin: no two seats meet
\* twice, whatever the standings (generate_swiss_pairings).
RoundRobin ==
    Exists /\ pod.kind.seats \in {3, 4} => \A i, j \in DOMAIN pod.pairings :
        i # j => Range(pod.pairings[i].players) # Range(pod.pairings[j].players)

\* However many players stay away, the drafting ends: the timers pick.
DraftEnds == Drafting ~> ~Drafting

\* A match's automatic report credits the seat of the game's winner
\* (report_draft_game_over maps the winner to a seat).
RightWinner ==
    [][\A i \in DOMAIN game, k \in {0, 1} :
        GameOver(i, k) /\ MayReport(i, Nobody) => pod'.pairings[i].winner = pod.pairings[i].players[k + 1]]_dvars
=============================================================================
