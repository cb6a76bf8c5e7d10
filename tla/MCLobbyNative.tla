---------------------------- MODULE MCLobbyNative ----------------------------
(* Small instances of the lobby in the native shell. *)
EXTENDS LobbyNative, TLC

Symmetric ==
    UNION {Permutations(S) : S \in {Codes, Tokens, Conns, Commits \ {UnknownCommit}}}
=============================================================================
