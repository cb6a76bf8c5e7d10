---------------------------- MODULE MCSeatPresence ----------------------------
(* Small instances of the table of one server-run game: its constants are model *)
(* values, given in the configurations.                                         *)
EXTENDS SeatPresence
=============================================================================
