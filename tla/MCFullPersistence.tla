------------------------- MODULE MCFullPersistence --------------------------
(* Small instances of the durable life of games. *)
EXTENDS FullPersistence

\* Games of a multiplayer server share nothing but their code: two of one code
\* that change, are saved, end and give the code back.  A desktop server's games
\* replace each other: two codes, and the database fails once.
SmallServers == [r \in {"Multiplayer", "SingleUser"} |->
    IF r = "Multiplayer" THEN [codes |-> {CHOOSE c \in Codes : TRUE}, games |-> 2, revision |-> 1, faults |-> 0]
                         ELSE [codes |-> Codes, games |-> 2, revision |-> 0, faults |-> 1]]
=============================================================================
