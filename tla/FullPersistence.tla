--------------------------- MODULE FullPersistence --------------------------
(***************************************************************************)
(* The durable life of server-run games.  A game code names one game after *)
(* another; each is a generation of the code with a row in SQLite that its *)
(* saves overwrite.  Saves are made in the background: mutations only ask  *)
(* for one, and a worker per game captures the session under its lease,    *)
(* waits for its turn and writes what it captured, by when the game may    *)
(* have moved on, ended, been retired, replaced, or given its code to      *)
(* another.  Every write is one transaction, fenced by the generation, the *)
(* revision, the tombstone and, for the desktop server, the activation.    *)
(* The process may crash between any two steps and restore from the rows.  *)
(***************************************************************************)
EXTENDS Integers, FiniteSets

CONSTANTS
    Codes,
    Workers,        \* bounds the save workers alive at once
    Limits,         \* the bounds of a "Multiplayer" and of a "SingleUser" server
    MaxGames, MaxRevision, MaxFaults,
    NoWorker

Retentions == DOMAIN Limits

ASSUME PersistenceConstants ==
    /\ IsFiniteSet(Codes)
    /\ MaxGames \in Nat \ {0} /\ MaxRevision \in Nat /\ MaxFaults \in Nat
    /\ Retentions \subseteq {"Multiplayer", "SingleUser"}
    /\ Limits \in [Retentions -> [codes : SUBSET Codes, games : 0..MaxGames, revision : 0..MaxRevision, faults : 0..MaxFaults]]
    /\ NoWorker \notin Workers

VARIABLES
    retention,
    row,            \* game_sessions, by code
    high_water,     \* full_generation_high_water, by code
    active,         \* full_active_session, the desktop server's one game
    results,        \* terminal_match_results, by key
    phase,          \* of the process
    boot,           \* rows still to be restored
    registry,       \* SessionManager.sessions: the generation a code stands for
    session,        \* the GameSession of each key, while something holds it
    binding,        \* a key whose game is being created
    pending,        \* Scheduler.pending
    worker,
    retiring,       \* retirements handed to the blocking pool
    ending,         \* terminals on their way to the database and out of memory
    faults

db == <<row, high_water, active, results>>
saves == <<pending, worker>>
memory == <<registry, session, binding, retiring, ending>>
process == <<retention, phase, boot>>
pvars == <<process, db, saves, memory, faults>>

Keys == [code : Codes, generation : 1..MaxGames]
Key(c, g) == [code |-> c, generation |-> g]
NoKey == [code |-> "none", generation |-> 0]
NoEpoch == 0
Epochs == Nat
Revisions == 0..MaxRevision
Stages == {"waiting", "started", "over"}

\* A row whose payload columns are NULL has the stage "none"; a row that was not
\* written for a day is stale.
NoRow ==
    [generation |-> 0, revision |-> 0, epoch |-> NoEpoch, retired |-> FALSE, stage |-> "none", stale |-> FALSE]
NoActive == [key |-> NoKey, epoch |-> NoEpoch]
NoResult == [revision |-> 0, reason |-> "none"]
NoSession == [revision |-> 0, stage |-> "none", epoch |-> NoEpoch]
Resting == [key |-> NoKey, step |-> "none", asked |-> FALSE, taken |-> NoSession]
Reasons == {"played", "abandoned", "forfeit"}

\* The rows, results, sessions and workers are of their kinds, and a key is
\* registered only to a worker that is at work on it.
PTypeOK ==
    /\ retention \in Retentions
    /\ row \in [Codes -> [generation : 0..MaxGames, revision : Revisions, epoch : Epochs,
                          retired : BOOLEAN, stage : Stages \cup {"none"}, stale : BOOLEAN]]
    /\ high_water \in [Codes -> 0..MaxGames]
    /\ active \in [key : Keys \cup {NoKey}, epoch : Epochs]
    /\ results \in [Keys -> [revision : Revisions, reason : Reasons \cup {"none"}]]
    /\ phase \in {"up", "stopping", "booting"} /\ boot \subseteq Codes
    /\ registry \in [Codes -> 0..MaxGames]
    /\ session \in [Keys -> [revision : Revisions, stage : Stages \cup {"none"}, epoch : Epochs]]
    /\ binding \in Keys \cup {NoKey}
    /\ pending \in [Keys -> Workers \cup {NoWorker}]
    /\ worker \in [Workers -> [key : Keys \cup {NoKey}, step : {"none", "lease", "write"},
                               asked : BOOLEAN,
                               taken : [revision : Revisions, stage : Stages \cup {"none"}, epoch : Epochs]]]
    /\ \A k \in Keys : pending[k] # NoWorker => worker[pending[k]].key = k
    /\ retiring \subseteq [key : Keys, epoch : Epochs]
    /\ ending \subseteq [key : Keys, revision : Revisions, reason : Reasons, step : {"commit", "remove"}]
    /\ faults \in 0..MaxFaults

PInit ==
    /\ retention \in Retentions
    /\ row = [c \in Codes |-> NoRow]
    /\ high_water = [c \in Codes |-> 0]
    /\ active = NoActive
    /\ results = [k \in Keys |-> NoResult]
    /\ phase = "up" /\ boot = {}
    /\ registry = [c \in Codes |-> 0]
    /\ session = [k \in Keys |-> NoSession]
    /\ binding = NoKey
    /\ pending = [k \in Keys |-> NoWorker]
    /\ worker = [w \in Workers |-> Resting]
    /\ retiring = {} /\ ending = {}
    /\ faults = 0

-----------------------------------------------------------------------------
(* The database. *)

ActiveRow(k) == row[k.code].generation = k.generation /\ ~row[k.code].retired

\* A tombstone; its other columns are not read again.
Tombstone(k) == [NoRow EXCEPT !.generation = k.generation, !.retired = TRUE]

\* load_active_full_key.
StillActive(k) == ActiveRow(k)

\* current_activation.
current_activation(k, epoch) == epoch = NoEpoch \/ active = [key |-> k, epoch |-> epoch]

\* Mutant: the last write wins.
Newer_any(r, k, s) == k.generation > r.generation \/ (k.generation = r.generation /\ ~r.retired)

\* Mutant: a newer state is written over a tombstone.
Newer_untombed(r, k, s) ==
    \/ k.generation > r.generation
    \/ k.generation = r.generation /\ (s.revision > r.revision \/ r.stage = "none")

\* Mutant: generations are not compared.
Newer_by_revision(r, k, s) == ~r.retired /\ (s.revision > r.revision \/ r.stage = "none")

\* The WHERE of the upsert in save_full_session_parts.
Newer(r, k, s) ==
    \/ k.generation > r.generation
    \/ k.generation = r.generation /\ ~r.retired /\ (s.revision > r.revision \/ r.stage = "none")

Saves(k, s) == current_activation(k, s.epoch) /\ Newer(row[k.code], k, s)

RowOf(k, s, epoch) ==
    [NoRow EXCEPT !.generation = k.generation, !.revision = s.revision, !.epoch = epoch, !.stage = s.stage]

\* save_full_session.
Save(k, s) ==
    /\ row' = IF Saves(k, s) THEN [row EXCEPT ![k.code] = RowOf(k, s, s.epoch)] ELSE row
    /\ UNCHANGED <<high_water, active, results>>

Cancel(k) == pending' = [pending EXCEPT ![k] = NoWorker]

-----------------------------------------------------------------------------
(* The save workers. *)

Idle(w) == worker[w].step = "none"
Closed(w) == pending[worker[w].key] # w

\* Scheduler::request, under the session's lease: nothing for a game that is
\* over, metadata for a worker that is there, else a new worker.
Request(k, s) ==
    IF s.stage = "over" THEN UNCHANGED saves
    ELSE IF pending[k] # NoWorker
    THEN /\ worker' = [worker EXCEPT ![pending[k]].asked = TRUE]
         /\ UNCHANGED pending
    ELSE \E w \in Workers :
            /\ Idle(w)
            /\ worker' = [worker EXCEPT ![w] = [Resting EXCEPT !.key = k, !.step = "lease", !.asked = TRUE]]
            /\ pending' = [pending EXCEPT ![k] = w]

\* The worker returns and its registration is dropped.
Exit(w) ==
    /\ worker' = [worker EXCEPT ![w] = Resting]
    /\ pending' = IF Closed(w) THEN pending ELSE [pending EXCEPT ![worker[w].key] = NoWorker]

\* A terminal commit of a handler holds the session's lease; the sweep's does not.
Leased(k) == \E e \in ending : e.key = k /\ e.reason # "forfeit"

\* save_latest, up to the capture under the lease.
Capture(w) ==
    LET k == worker[w].key
    IN  /\ worker[w].step = "lease"
        /\ IF Closed(w) \/ session[k] = NoSession THEN Exit(w)
           ELSE /\ ~Leased(k)
                /\ IF session[k].stage = "over" THEN Exit(w)
                   ELSE /\ worker' = [worker EXCEPT ![w].asked = FALSE, ![w].taken = session[k], ![w].step = "write"]
                        /\ UNCHANGED pending
        /\ UNCHANGED <<process, db, memory, faults>>

\* Mutant: the worker returns although a request came while it wrote.
FinishIfIdle_deaf(w) == Exit(w)

\* finish_if_idle, under the lock that requests take.
FinishIfIdle(w) ==
    IF ~Closed(w) /\ worker[w].asked
    THEN worker' = [worker EXCEPT ![w].step = "lease", ![w].taken = NoSession] /\ UNCHANGED pending
    ELSE Exit(w)

\* I/O admission, serialization and the fenced write, whatever was asked for
\* meanwhile.  The currency check before it only spares a write that the fence
\* would refuse.
Write(w) ==
    /\ worker[w].step = "write"
    /\ Save(worker[w].key, worker[w].taken)
    /\ FinishIfIdle(w)
    /\ UNCHANGED <<process, memory, faults>>

\* The worker saw that it was cancelled, before the serialization.
Cancelled(w) ==
    /\ worker[w].step = "write" /\ Closed(w)
    /\ Exit(w)
    /\ UNCHANGED <<process, db, memory, faults>>

\* The currency check, the serialization or the write fails: the checkpoint is
\* given up until the next request.
SaveFails(w) ==
    /\ faults < Limits[retention].faults /\ worker[w].step = "write"
    /\ faults' = faults + 1
    /\ FinishIfIdle(w)
    /\ UNCHANGED <<process, db, memory>>

-----------------------------------------------------------------------------
(* A game is created: a key is bound, then its runtime is initialized. *)

NextGeneration(c) == high_water[c] + 1

\* create_full_session_key: refused while a row holds the code.
BindKey(c) ==
    LET k == Key(c, NextGeneration(c))
    IN  /\ phase = "up" /\ binding = NoKey /\ registry[c] = 0
        /\ c \in Limits[retention].codes
        /\ Cardinality({j \in Keys : j.generation <= high_water[j.code]}) < Limits[retention].games
        /\ row[c] = NoRow \/ row[c].retired
        /\ high_water' = [high_water EXCEPT ![c] = k.generation]
        /\ row' = [row EXCEPT ![c] = [NoRow EXCEPT !.generation = k.generation]]
        /\ binding' = k
        /\ UNCHANGED <<process, active, results, saves, registry, session, retiring, ending, faults>>

\* activate_single_user_session: the game that was active is retired.
Activate(k, s) ==
    LET epoch == active.epoch + 1
        replaced == [c \in Codes |-> IF active.key # NoKey /\ active.key.code = c /\ ActiveRow(active.key)
                                     THEN Tombstone(active.key) ELSE row[c]]
    IN  /\ row' = [replaced EXCEPT ![k.code] = RowOf(k, s, epoch)]
        /\ active' = [key |-> k, epoch |-> epoch]
        /\ session' = [session EXCEPT ![k] = [s EXCEPT !.epoch = epoch]]
        /\ pending' = [j \in Keys |-> NoWorker]
        /\ UNCHANGED <<high_water, results, worker>>

\* Mutant: the first save is left to the first mutation.
FirstSave_deferred(k, s) == UNCHANGED db

\* Only a save that was applied lets the game in.
FirstSave(k, s) == Saves(k, s) /\ Save(k, s)

\* initialize_full_runtime; a match with AI players or of a draft starts at once.
Initialize(stage) ==
    LET s == [revision |-> 0, stage |-> stage, epoch |-> NoEpoch]
    IN  /\ phase = "up" /\ binding # NoKey
        /\ IF retention = "SingleUser" THEN Activate(binding, s)
           ELSE /\ FirstSave(binding, s)
                /\ session' = [session EXCEPT ![binding] = s]
                /\ UNCHANGED saves
        /\ registry' = [registry EXCEPT ![binding.code] = binding.generation]
        /\ binding' = NoKey
        /\ UNCHANGED <<process, retiring, ending, faults>>

\* The game is withdrawn; its row keeps the code.
InitializeFails ==
    /\ phase = "up" /\ binding # NoKey /\ faults < Limits[retention].faults
    /\ faults' = faults + 1
    /\ binding' = NoKey
    /\ UNCHANGED <<process, db, saves, registry, session, retiring, ending>>

-----------------------------------------------------------------------------
(* Play, and the ends of games. *)

Registered(k) == registry[k.code] = k.generation

\* A handler got the session from the registry and then waited for its lease;
\* it plays on with a session that was removed meanwhile.
Playing(k) == phase = "up" /\ session[k] # NoSession /\ ~Leased(k)

\* remove_game, by the code; whoever holds the session keeps it.
Unregister(c) ==
    /\ registry' = [registry EXCEPT ![c] = 0]
    /\ UNCHANGED session

End(k, revision, reason) ==
    ending' = ending \cup {[key |-> k, revision |-> revision, reason |-> reason, step |-> "commit"]}

\* A command changes the game; most ask for a save.
Mutate(k, stage, asks) ==
    /\ Playing(k) /\ session[k].revision < Limits[retention].revision
    /\ session[k].stage # "over" /\ stage \in {session[k].stage, "started"}
    /\ session' = [session EXCEPT ![k].revision = @ + 1, ![k].stage = stage]
    /\ IF asks THEN Request(k, session'[k]) ELSE UNCHANGED saves
    /\ UNCHANGED <<process, db, registry, binding, retiring, ending, faults>>

\* A save is asked for again: the start and the first moves of AI players.
Ask(k) ==
    /\ Playing(k) /\ session[k].stage # "over"
    /\ Request(k, session[k])
    /\ UNCHANGED <<process, db, memory, faults>>

\* The last command of a game, with its terminal under the same lease.
GameOver(k) ==
    /\ Playing(k) /\ session[k].revision < Limits[retention].revision /\ session[k].stage = "started"
    /\ session' = [session EXCEPT ![k].revision = @ + 1, ![k].stage = "over"]
    /\ End(k, session[k].revision + 1, "played")
    /\ UNCHANGED <<process, db, saves, registry, binding, retiring, faults>>

\* commit_full_abandon of a game in play.
Abandon(k) ==
    /\ Playing(k) /\ Registered(k) /\ session[k].stage # "waiting"
    /\ End(k, session[k].revision, "abandoned")
    /\ UNCHANGED <<process, db, saves, registry, session, binding, retiring, faults>>

\* prepare_disconnect_terminals: the sweep has no lease and one round at a time.
Forfeit(k) ==
    /\ Playing(k) /\ Registered(k) /\ session[k].stage # "waiting" /\ binding = NoKey
    /\ \A e \in ending : e.reason # "forfeit"
    /\ End(k, session[k].revision, "forfeit")
    /\ UNCHANGED <<process, db, saves, registry, session, binding, retiring, faults>>

\* An unstarted room is abandoned, or one of the sweeps gives it up.
Dissolve(k) ==
    /\ Playing(k) /\ Registered(k) /\ session[k].stage = "waiting" /\ binding = NoKey
    /\ retiring' = retiring \cup {[key |-> k, epoch |-> session[k].epoch]}
    /\ Unregister(k.code)
    /\ UNCHANGED <<process, db, saves, binding, ending, faults>>

\* Mutant: a room that is still being saved is left to its worker.
Retirable_unsaved(t) ==
    /\ current_activation(t.key, t.epoch) /\ ActiveRow(t.key)
    /\ row[t.key.code].stage \in {"none", "waiting"} /\ pending[t.key] = NoWorker

Retirable(t) ==
    /\ current_activation(t.key, t.epoch) /\ ActiveRow(t.key)
    /\ row[t.key.code].stage \in {"none", "waiting"}

\* retire_unstarted_full_session.
RetireUnstarted(t) ==
    LET k == t.key
    IN  /\ t \in retiring
        /\ retiring' = retiring \ {t}
        /\ IF Retirable(t)
           THEN /\ row' = [row EXCEPT ![k.code] = Tombstone(k)]
                /\ active' = IF t.epoch = NoEpoch THEN active ELSE NoActive
                /\ Cancel(k)
           ELSE UNCHANGED <<row, active, pending>>
        /\ UNCHANGED <<process, high_water, results, worker, registry, session, binding, ending, faults>>

\* It is logged; the row keeps the code.
RetireFails(t) ==
    /\ t \in retiring /\ faults < Limits[retention].faults
    /\ faults' = faults + 1
    /\ retiring' = retiring \ {t}
    /\ UNCHANGED <<process, db, saves, registry, session, binding, ending>>

\* A session that nothing holds any more.
Drop(k) ==
    /\ session[k] # NoSession /\ ~Registered(k) /\ ~Leased(k)
    /\ session' = [session EXCEPT ![k] = NoSession]
    /\ UNCHANGED <<process, db, saves, registry, binding, retiring, ending, faults>>

-----------------------------------------------------------------------------
(* Terminals. *)

Digest(e) == [revision |-> e.revision, reason |-> e.reason]
Prepared(e) == results[e.key] = Digest(e)
Preparable(e) == results[e.key] = NoResult /\ ActiveRow(e.key)

\* Mutant: the result is recorded and the row kept.
Record_kept(e) ==
    /\ results' = [results EXCEPT ![e.key] = Digest(e)]
    /\ UNCHANGED <<row, active>>

\* The transaction of prepare_full_terminal.
Record(e) ==
    IF Prepared(e) THEN UNCHANGED <<row, active, results>>
    ELSE /\ results' = [results EXCEPT ![e.key] = Digest(e)]
         /\ row' = [row EXCEPT ![e.key.code] = Tombstone(e.key)]
         /\ active' = IF active.key = e.key THEN NoActive ELSE active

Commit(e) ==
    /\ e \in ending /\ e.step = "commit" /\ (Prepared(e) \/ Preparable(e))
    /\ Record(e)
    /\ Cancel(e.key)
    /\ ending' = (ending \ {e}) \cup {[e EXCEPT !.step = "remove"]}
    /\ UNCHANGED <<process, high_water, worker, registry, session, binding, retiring, faults>>

\* Refused or failed.  Where the key is no longer active, an abandoned game leaves
\* memory all the same, and one that the driver of a contest ended; the other
\* callers report the failure.
GiveUp(e, leaves) ==
    LET removal == {[e EXCEPT !.step = "remove"]}
    IN  \/ ending' = (ending \ {e}) \cup IF e.reason = "abandoned" /\ leaves THEN removal ELSE {}
        \/ e.reason = "played" /\ ~StillActive(e.key) /\ ending' = (ending \ {e}) \cup removal

\* The driver of a contest tries the same terminal again.
TryAgain(e) == e.reason = "played" /\ UNCHANGED ending

CommitRefused(e) ==
    /\ e \in ending /\ e.step = "commit" /\ ~Prepared(e) /\ ~Preparable(e)
    /\ GiveUp(e, ~StillActive(e.key))
    /\ UNCHANGED <<process, db, saves, registry, session, binding, retiring, faults>>

\* The transaction fails, or the deliveries cannot be read after it.
CommitFails(e) ==
    /\ e \in ending /\ e.step = "commit" /\ faults < Limits[retention].faults
    /\ faults' = faults + 1
    /\ GiveUp(e, ~StillActive(e.key)) \/ TryAgain(e)
    /\ UNCHANGED <<process, db, saves, registry, session, binding, retiring>>

DeliveriesUnread(e) ==
    /\ e \in ending /\ e.step = "commit" /\ Preparable(e) /\ faults < Limits[retention].faults
    /\ faults' = faults + 1
    /\ Record(e)
    /\ Cancel(e.key)
    /\ GiveUp(e, TRUE) \/ TryAgain(e)
    /\ UNCHANGED <<process, high_water, worker, registry, session, binding, retiring>>

\* The game leaves memory, by its code.
RemoveEnded(e) ==
    /\ e \in ending /\ e.step = "remove" /\ binding = NoKey
    /\ Unregister(e.key.code)
    /\ ending' = ending \ {e}
    /\ UNCHANGED <<process, db, saves, binding, retiring, faults>>

-----------------------------------------------------------------------------
(* Cleanup, shutdown, crash and restart. *)

\* Something in the process is still about the game.
Held(k) ==
    \/ session[k] # NoSession
    \/ \E w \in Workers : worker[w].key = k
    \/ \E t \in retiring \cup ending : t.key = k

\* A day has passed since the row was written.  No handler and no task takes that
\* long: what is held of the code is of the row's own game.
RowAges(c) ==
    /\ phase # "booting" \/ boot = Codes
    /\ retention = "Multiplayer" /\ row[c] # NoRow /\ ~row[c].retired /\ ~row[c].stale
    /\ binding.code # c
    /\ \A k \in Keys : k.code = c /\ Held(k) => k.generation = row[c].generation
    /\ row' = [row EXCEPT ![c].stale = TRUE]
    /\ UNCHANGED <<process, high_water, active, results, saves, memory, faults>>

\* delete_stale, hourly and before a start restores the rows: by age alone,
\* whatever is registered or under way; tombstones stay.
DeleteStale(c) ==
    /\ phase # "booting" \/ boot = Codes
    /\ row[c].stale
    /\ row' = [row EXCEPT ![c] = NoRow]
    /\ UNCHANGED <<process, high_water, active, results, saves, memory, faults>>

\* The listener has stopped.
Shutdown ==
    /\ phase = "up" /\ binding = NoKey /\ phase' = "stopping"
    /\ UNCHANGED <<retention, boot, db, saves, memory, faults>>

\* flush_sessions_on_shutdown, a game that is over included.
Flush(k) ==
    /\ phase = "stopping" /\ Registered(k) /\ ~Leased(k)
    /\ Save(k, session[k])
    /\ UNCHANGED <<process, saves, memory, faults>>

\* The process ends, at any moment; the next one reads the rows.
Crash ==
    /\ phase \in {"up", "stopping"}
    /\ phase' = "booting" /\ boot' = Codes
    /\ registry' = [c \in Codes |-> 0]
    /\ session' = [k \in Keys |-> NoSession]
    /\ binding' = NoKey
    /\ pending' = [k \in Keys |-> NoWorker]
    /\ worker' = [w \in Workers |-> Resting]
    /\ retiring' = {} /\ ending' = {}
    /\ UNCHANGED <<retention, db, faults>>

\* load_active_full_sessions and finish_restored_full_startup: a game that was
\* over gets its terminal, another may be resumed and is then saved.
Restore(c, resumed) ==
    LET k == Key(c, row[c].generation)
        s == [revision |-> row[c].revision + resumed, stage |-> row[c].stage, epoch |-> row[c].epoch]
        e == [key |-> k, revision |-> s.revision, reason |-> "played", step |-> "commit"]
        readable == row[c] # NoRow /\ ~row[c].retired /\ row[c].stage # "none"
    IN  /\ phase = "booting" /\ c \in boot
        /\ boot' = boot \ {c}
        /\ phase' = IF boot = {c} THEN "up" ELSE phase
        /\ resumed = 1 => readable /\ s.stage = "started" /\ s.revision <= Limits[retention].revision
        /\ CASE ~readable -> UNCHANGED <<row, active, results, registry, session>>
             [] readable /\ s.stage = "over" ->
                  /\ IF Prepared(e) \/ Preparable(e) THEN Record(e) ELSE UNCHANGED <<row, active, results>>
                  /\ UNCHANGED <<registry, session>>
             [] readable /\ s.stage # "over" ->
                  LET kept == resumed = 0 \/ Saves(k, s)
                  IN  /\ row' = IF resumed = 1 /\ kept THEN [row EXCEPT ![c] = RowOf(k, s, s.epoch)] ELSE row
                      /\ registry' = IF kept THEN [registry EXCEPT ![c] = k.generation] ELSE registry
                      /\ session' = IF kept THEN [session EXCEPT ![k] = s] ELSE session
                      /\ UNCHANGED <<active, results>>
        /\ UNCHANGED <<retention, high_water, saves, binding, retiring, ending, faults>>

\* A row that cannot be read or written back is kept for recovery.
RestoreFails(c) ==
    /\ phase = "booting" /\ c \in boot /\ faults < Limits[retention].faults
    /\ row[c].stage # "none"
    /\ faults' = faults + 1
    /\ boot' = boot \ {c}
    /\ phase' = IF boot = {c} THEN "up" ELSE phase
    /\ UNCHANGED <<retention, db, saves, memory>>

-----------------------------------------------------------------------------
WorkerStep(w) == Capture(w) \/ Write(w) \/ Cancelled(w) \/ SaveFails(w)

TerminalStep(e) == Commit(e) \/ CommitRefused(e) \/ CommitFails(e) \/ DeliveriesUnread(e) \/ RemoveEnded(e)

PNext ==
    \/ \E w \in Workers : WorkerStep(w)
    \/ \E c \in Codes : BindKey(c) \/ RowAges(c) \/ DeleteStale(c) \/ RestoreFails(c)
    \/ \E stage \in {"waiting", "started"} : Initialize(stage)
    \/ InitializeFails
    \/ \E k \in Keys :
        \/ \E stage \in Stages, asks \in BOOLEAN : Mutate(k, stage, asks)
        \/ Ask(k) \/ GameOver(k) \/ Abandon(k) \/ Forfeit(k) \/ Dissolve(k) \/ Drop(k) \/ Flush(k)
    \/ \E t \in retiring : RetireUnstarted(t) \/ RetireFails(t)
    \/ \E e \in ending : TerminalStep(e)
    \/ Shutdown \/ Crash
    \/ \E c \in Codes, resumed \in 0..1 : Restore(c, resumed)

PSpec == PInit /\ [][PNext]_pvars

Finish(e) == Commit(e) \/ CommitRefused(e) \/ RemoveEnded(e)

\* Tokio runs every task that is ready, and the database answers.
PFairness ==
    /\ \A w \in Workers : WF_pvars(Capture(w) \/ Write(w))
    /\ WF_pvars(\E t \in retiring : RetireUnstarted(t))
    /\ WF_pvars(\E e \in ending : e.reason # "forfeit" /\ Finish(e))

PFairSpec == PSpec /\ PFairness

-----------------------------------------------------------------------------
(* Properties. *)

\* A tombstone holds: no late save, restore or cleanup brings a retired game
\* back, and its code is only ever taken by a later generation.
TombstoneHolds ==
    [][\A c \in Codes : row[c].retired =>
        row'[c].retired \/ row'[c].generation > row[c].generation]_pvars

\* The row of a game never goes back to an earlier state of it, so that a
\* restart resumes from the newest state that was ever written.
NeverOlder ==
    [][\A c \in Codes :
        row'[c].generation = row[c].generation /\ ~row'[c].retired /\ row[c].stage # "none"
            => row'[c].revision >= row[c].revision]_pvars

\* A game with a recorded result has no active row, in memory or on disk
\* whatever else happens, and the result is the one first recorded.
EndedStaysEnded ==
    /\ [](\A k \in Keys : results[k] # NoResult => ~ActiveRow(k))
    /\ [][\A k \in Keys : results[k] # NoResult => results'[k] = results[k]]_pvars

\* The game a code stands for in memory is the last that was created under it.
NewestIsLive == \A c \in Codes : registry[c] \in {0, high_water[c]}

Replaced(k) == retention = "SingleUser" /\ active.key # k

Live(k) == Registered(k) /\ results[k] = NoResult /\ ~Replaced(k)

Restorable(k) == ActiveRow(k) /\ row[k.code].stage # "none" /\ row[k.code].revision <= session[k].revision

\* A game comes into memory with a row to restore it from after a crash, no
\* newer than the game itself, and keeps one until it has a result: the only
\* thing that may take it is delete_stale, from a game not saved for a day.
LiveGameDurable ==
    [][\A k \in Keys : Live(k)' /\ (Live(k) => Restorable(k)) =>
        Restorable(k)' \/ (row[k.code].stale /\ row'[k.code] = NoRow)]_pvars

\* What a mutation asked to be saved is saved in the end, however many more
\* follow and also where the cleanup deleted the row, unless the game ends, is
\* replaced, is retired or the process does.
SavedInTheEnd ==
    \A w \in Workers, k \in Keys, r \in 1..MaxRevision :
        pending[k] = w /\ worker[w].asked /\ session[k].revision = r ~>
            \/ row[k.code].generation = k.generation /\ (row[k.code].revision >= r \/ row[k.code].retired)
            \/ row[k.code].generation > k.generation \/ Replaced(k)
            \/ session[k].stage \in {"over", "none"}
            \/ phase # "up" \/ faults > 0

\* A dissolved room gives its code back in the end, unless a player who was
\* waiting for it started it and that was saved before it was retired.
RetiredInTheEnd ==
    \A c \in Codes : (\E t \in retiring : t.key.code = c /\ ActiveRow(t.key)) ~>
        row[c] = NoRow \/ row[c].retired \/ row[c].stage = "started" \/ phase # "up" \/ faults > 0

\* What session.rs says of remove_game, "A handle obtained before this call keeps
\* working on a session nothing can reach again; its persist is refused by the
\* row's generation/`retired = 0` guard": a room that was removed unstarted is
\* not saved as a game in play.
LatePersistRefused ==
    [][\A k \in Keys :
        phase = "up" /\ session[k] # NoSession /\ ~Registered(k) /\ ActiveRow(k) /\ row[k.code].stage = "waiting"
            => row'[k.code].stage # "started"]_pvars
=============================================================================
