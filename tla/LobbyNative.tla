----------------------------- MODULE LobbyNative -----------------------------
(***************************************************************************)
(* The broker in the native shell (crates/phase-server/src/main.rs,        *)
(* LobbyOnly mode).  Its background task reports the expired listings      *)
(* under the broker's lock, lets the lock go, and consumes the report in a *)
(* second critical section; client frames run in between.                  *)
(***************************************************************************)
EXTENDS LobbyBroker

VARIABLE observed     \* the expiry report the sweep carries across the gap

nvars == <<vars, observed>>

NInit == Init /\ observed = {}

ReportExpired ==
    /\ observed = {}
    /\ observed' = check_expired(games)
    /\ UNCHANGED vars

\* consume_lobby_expiry_sweep: a LobbyOnly server has no game sessions, so
\* every reported listing is dispositioned and none is kept alive.
ConsumeExpired ==
    /\ observed # {}
    /\ ReapHandled(observed)
    /\ observed' = {}

NNext ==
    \/ \E c \in Conns : (ReadOnlyFrame(c) \/ MutatingFrame(c) \/ Disconnect(c)) /\ UNCHANGED observed
    \/ Tick /\ UNCHANGED observed
    \/ ReportExpired
    \/ ConsumeExpired

NSpec == NInit /\ [][NNext]_nvars

\* The background task's interval and the clock go on.
NFairSpec == NSpec /\ WF_nvars(Tick /\ UNCHANGED observed)
                   /\ WF_nvars(ReportExpired) /\ WF_nvars(ConsumeExpired)

NTypeOK == TypeOK /\ observed \in SUBSET Registration

-----------------------------------------------------------------------------
(* Properties. *)

\* A listing leaves the lobby only because the socket that owns it lets go of
\* it, because the sweep observed exactly this registration as lapsed, or
\* because a randomly drawn code hit it.  Neither a stale host, a guest nor a
\* sweep that observed the code's previous listing removes it.
ListingSafe ==
    [][\A code \in DOMAIN games :
        LET r == RegistrationOf(games, code)
        IN  is_current(games', r)
            \/ (\E c \in Conns : host_game[c] = r /\ host_game'[c] # r)
            \/ r \in observed
            \/ (MintCollides /\ next_generation' # next_generation /\ code \in DOMAIN games')]_nvars

\* A lapsed listing of a silent host is delisted: once its liveness clock is
\* past the timeout, it is gone or its host speaks again.
LapsedIsReaped ==
    \A code \in Codes :
        (code \in DOMAIN games /\ games[code].age > TimeoutTicks)
            ~> (code \notin DOMAIN games \/ games[code].age <= TimeoutTicks)
=============================================================================
