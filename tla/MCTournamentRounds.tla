------------------------- MODULE MCTournamentRounds -------------------------
\* A Swiss event of two rounds for four, one of three rounds of hosted matches
\* for three, a bracket of four and tables of three for five.  The event for
\* three counts a draw no higher than a loss, the others score by default.
EXTENDS TournamentRounds, TLC

default_for_arity(arity) == [win |-> 2 * arity - 1, draw |-> 1, loss |-> 0]
DrawsAreLosses == [win |-> 3, draw |-> 0, loss |-> 0]

Format(bracket, arity, scoring, rounds, bo3, entrants) ==
    [bracket |-> bracket, arity |-> arity, scoring |-> scoring, bo3 |-> bo3,
     total_rounds |-> rounds, plus_rounds |-> 0, entrants |-> entrants]

MCFormats ==
    {Format("Swiss", 2, default_for_arity(2), 2, FALSE, 4), Format("Swiss", 2, DrawsAreLosses, 3, TRUE, 3),
     Format("SingleElimination", 2, default_for_arity(2), 0, TRUE, 4), Format("Swiss", 3, default_for_arity(3), 0, FALSE, 5)}

Symmetry == Permutations(Players)
=============================================================================
