----------------------------- MODULE MCSeatTable ----------------------------
(* Small instances of the table of a room. *)
EXTENDS SeatTable, TLC

Symmetric == UNION {Permutations(S) : S \in {Sockets, Guests, BotDecks}}
=============================================================================
