----------------------------- MODULE MCDraftPod -----------------------------
EXTENDS DraftPod

Three == [seats |-> 3, per_pick |-> 1, size |-> 1, packs |-> 1, pairs |-> FALSE, flaky |-> {}, bots |-> {},
          rounds |-> 0, games |-> FALSE, shuffle |-> FALSE, restarts |-> 0]
Played == [Three EXCEPT !.pairs = TRUE, !.rounds = 4]

MCKinds ==
    {[Three EXCEPT !.size = 2, !.packs = 2, !.flaky = {0, 1}],                  \* two boosters; host and guest may go
     [Three EXCEPT !.per_pick = 2, !.size = 3, !.flaky = {1}, !.bots = {2}],    \* two cards a step, unequal packs
     [Three EXCEPT !.size = 2, !.restarts = 1],                                 \* a restart while drafting
     [Played EXCEPT !.games = TRUE, !.bots = {2}],                              \* byes, and a seat without a deck
     [Played EXCEPT !.rounds = 1, !.games = TRUE, !.restarts = 1],              \* a restart while playing
     [Played EXCEPT !.seats = 4],                                               \* all the rounds of four
     [Played EXCEPT !.seats = 4, !.rounds = 1, !.games = TRUE]}                 \* games and the host's reports

MatchKinds == {[Played EXCEPT !.rounds = 1, !.games = TRUE, !.shuffle = TRUE]}
=============================================================================
