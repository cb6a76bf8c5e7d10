---------------------------- MODULE MCLobbyWorker ----------------------------
(* Small instances of the lobby in the Durable Object shell. *)
EXTENDS LobbyWorker, TLC

Symmetric ==
    UNION {Permutations(S) : S \in {Codes, Tokens, Conns, Commits \ {UnknownCommit}}}
=============================================================================
