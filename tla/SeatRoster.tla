----------------------------- MODULE SeatRoster -----------------------------
(***************************************************************************)
(* What the table of a room promises before its game starts, with chairs   *)
(* instead of seat numbers: who sits on a chair, with which deck and       *)
(* whether it is there, changes only by what is done to that chair.  A     *)
(* chair that is taken away takes nobody with it and moves nobody.         *)
(***************************************************************************)
EXTENDS Integers, FiniteSets

CONSTANTS
    Chairs, Head,   \* the chairs a room starts with, the host's among them
    Players, Host,
    BotDecks,       \* decks an AI player can be given
    Random,         \* the choice of any of them
    Nobody, Bot, NoDeck,
    MinPlayers      \* format.min_players

VARIABLES chairs, begun

svars == <<chairs, begun>>

\* A player brings a deck of its own, named after it.
Seat(who, deck, choice, online) == [who |-> who, deck |-> deck, choice |-> choice, online |-> online]
Empty == Seat(Nobody, NoDeck, NoDeck, FALSE)
Fits(deck, choice) == deck \in BotDecks /\ choice \in {deck, Random}

Table == DOMAIN chairs
Taken(c) == chairs[c].who \in Players

RosterInit ==
    /\ chairs = [c \in Chairs |-> IF c = Head THEN Seat(Host, Host, Host, TRUE) ELSE Empty]
    /\ begun = FALSE

Sit(c, p) ==
    /\ chairs[c].who = Nobody
    /\ \A d \in Table : chairs[d].who # p
    /\ chairs' = [chairs EXCEPT ![c] = Seat(p, p, p, TRUE)]

\* The host empties a chair.
Clear(c) == c # Head /\ chairs' = [chairs EXCEPT ![c] = Empty]

\* The host puts an AI player on a chair, whoever sat there.
Staff(c, deck, choice) ==
    /\ c # Head /\ Fits(deck, choice)
    /\ chairs' = [chairs EXCEPT ![c] = Seat(Bot, deck, choice, TRUE)]

TakeAway(c) ==
    /\ c # Head /\ ~Taken(c)
    /\ Cardinality(Table) > MinPlayers
    /\ chairs' = [d \in Table \ {c} |-> chairs[d]]

\* The presence of one player: only while it sits there.
Attend(c, online) == Taken(c) /\ chairs' = [chairs EXCEPT ![c].online = online]

Begin == begun' = TRUE /\ \A c \in Table : chairs'[c].who # Nobody /\ chairs'[c].deck # NoDeck

RosterNext ==
    \/ /\ ~begun
       /\ \E c \in Table :
             \/ \E p \in Players : Sit(c, p)
             \/ Clear(c)
             \/ \E deck \in BotDecks, choice \in BotDecks \cup {Random} : Staff(c, deck, choice)
             \/ TakeAway(c)
       /\ begun' = FALSE
    \/ ~begun /\ Begin /\ (UNCHANGED chairs \/ \E c \in Table, p \in Players : Sit(c, p))
    \/ UNCHANGED begun /\ \E c \in Table, online \in BOOLEAN : Attend(c, online)

RosterSpec == RosterInit /\ [][RosterNext]_svars
=============================================================================
