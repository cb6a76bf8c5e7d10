------------------------ MODULE FullPersistenceProofs ------------------------
(***************************************************************************)
(* Theorems on FullPersistence: the fences of the rows, for every set of   *)
(* codes, every number of workers, games, revisions and faults, and also   *)
(* where handlers outlive the removal of their session.                    *)
(***************************************************************************)
EXTENDS FullPersistence, FiniteSetTheorems, TLAPS

RowType == [generation : 0..MaxGames, revision : Revisions, epoch : Epochs,
            retired : BOOLEAN, stage : Stages \cup {"none"}, stale : BOOLEAN]
ResultType == [revision : Revisions, reason : Reasons \cup {"none"}]
SessionType == [revision : Revisions, stage : Stages \cup {"none"}, epoch : Epochs]
WorkerType == [key : Keys \cup {NoKey}, step : {"none", "lease", "write"},
               asked : BOOLEAN, taken : SessionType]
RetiringType == [key : Keys, epoch : Epochs]
EndingType == [key : Keys, revision : Revisions, reason : Reasons, step : {"commit", "remove"}]

\* The parts of the type invariant; a worker at rest has no key, and one at
\* work has one.
ProcessType ==
    /\ retention \in Retentions
    /\ phase \in {"up", "stopping", "booting"} /\ boot \subseteq Codes
    /\ faults \in 0..MaxFaults
DbType ==
    /\ row \in [Codes -> RowType]
    /\ high_water \in [Codes -> 0..MaxGames]
    /\ active \in [key : Keys \cup {NoKey}, epoch : Epochs]
    /\ results \in [Keys -> ResultType]
SaveType ==
    /\ pending \in [Keys -> Workers \cup {NoWorker}]
    /\ worker \in [Workers -> WorkerType]
    /\ \A k \in Keys : pending[k] # NoWorker => worker[pending[k]].key = k
    /\ \A w \in Workers : worker[w].step = "none" <=> worker[w].key = NoKey
MemoryType ==
    /\ registry \in [Codes -> 0..MaxGames]
    /\ session \in [Keys -> SessionType]
    /\ binding \in Keys \cup {NoKey}
    /\ retiring \subseteq RetiringType
    /\ ending \subseteq EndingType
Typed == ProcessType /\ DbType /\ SaveType /\ MemoryType

\* A row is that of the last generation of its code, or none.
TopRows ==
    \A c \in Codes : /\ row[c].generation \in {0, high_water[c]}
                     /\ row[c].generation = 0 => row[c] = NoRow

\* The key being bound is the last of its code, and its row waits for it.
Bound ==
    binding # NoKey =>
        /\ binding.generation = high_water[binding.code]
        /\ row[binding.code] = [NoRow EXCEPT !.generation = binding.generation]
        /\ registry[binding.code] = 0 /\ phase = "up"

\* A key that was handed out and whose game has been initialized.
Known(k) == k.generation <= high_water[k.code] /\ k # binding

AllKnown ==
    /\ \A k \in Keys : session[k] # NoSession => Known(k)
    /\ \A w \in Workers : worker[w].key # NoKey => Known(worker[w].key)
    /\ \A t \in retiring : Known(t.key)
    /\ \A e \in ending : Known(e.key)

\* A game that is not the last of its code finds the row of the last.
Superseded(k) == k.generation < high_water[k.code] => row[k.code].generation = high_water[k.code]

WritersFenced ==
    /\ \A k \in Keys : session[k] # NoSession => Superseded(k)
    /\ \A w \in Workers : worker[w].key # NoKey => Superseded(worker[w].key)

\* The registry's games are the last of their codes and have sessions.
LiveRegistered ==
    \A c \in Codes : registry[c] # 0 =>
        registry[c] = high_water[c] /\ session[Key(c, registry[c])] # NoSession

\* A game with a result is not the last of its code, or has a tombstone.
EndedBuried ==
    \A k \in Keys : results[k] # NoResult =>
        \/ k.generation < high_water[k.code]
        \/ row[k.code].generation = k.generation /\ row[k.code].retired

Works(k) == session[k] # NoSession \/ \E w \in Workers : worker[w].key = k

\* What could still be written over a stale row is of its own game.
StaleAlone ==
    \A c \in Codes : row[c].stale =>
        /\ ~row[c].retired
        /\ \A k \in Keys : k.code = c /\ Works(k) => k.generation = high_water[c]

Fenced == TopRows /\ Bound /\ AllKnown /\ WritersFenced /\ LiveRegistered /\ EndedBuried /\ StaleAlone

\* A process that restores rows has nothing else under way.
Booting ==
    /\ boot # {} => phase = "booting"
    /\ phase = "booting" => /\ retiring = {} /\ ending = {}
                            /\ \A w \in Workers : worker[w].key = NoKey
    /\ \A k \in Keys : k.code \in boot => session[k] = NoSession /\ registry[k.code] = 0

\* A session is ahead of its row and of what its workers captured.
Ahead ==
    /\ \A k \in Keys : session[k] # NoSession =>
        /\ session[k].stage # "none"
        /\ ActiveRow(k) => row[k.code].revision <= session[k].revision
    /\ \A w \in Workers : worker[w].step = "write" =>
        LET k == worker[w].key
        IN  /\ worker[w].taken.stage # "none"
            /\ session[k] # NoSession => worker[w].taken.revision <= session[k].revision

\* A room that is being retired has left the registry.
RetiringGone == \A t \in retiring : ~Registered(t.key)

Durable == Booting /\ Ahead /\ RetiringGone

\* What a step does for a game that lives after it: one that had its row, or did
\* not live before, has a row, except where the cleanup deleted it.
HasRow(k) == ActiveRow(k) /\ row[k.code].stage # "none"
KeepsRows ==
    \A k \in Keys : Live(k)' /\ (Live(k) => HasRow(k)) =>
        HasRow(k)' \/ (row[k.code].stale /\ row'[k.code] = NoRow)

-----------------------------------------------------------------------------
(* Records. *)

\* The type invariant is its parts.
LEMMA TypeParts ==
    ASSUME Typed PROVE PTypeOK
BY DEF Typed, ProcessType, DbType, SaveType, MemoryType, PTypeOK, RowType, ResultType,
       SessionType, WorkerType, RetiringType, EndingType

\* Keys and their codes; the placeholder is none of them.
LEMMA KeyFacts ==
    /\ NoKey \notin Keys
    /\ \A c \in Codes, g \in 1..MaxGames :
        Key(c, g) \in Keys /\ Key(c, g).code = c /\ Key(c, g).generation = g
    /\ \A k \in Keys : k.code \in Codes /\ k.generation \in 1..MaxGames /\ k = Key(k.code, k.generation)
BY PersistenceConstants DEF Keys, Key, NoKey

\* The records that the actions write are of their types.
LEMMA RecordFacts ==
    /\ NoRow \in RowType /\ NoSession \in SessionType /\ Resting \in WorkerType /\ NoResult \in ResultType
    /\ NoActive \in [key : Keys \cup {NoKey}, epoch : Epochs]
    /\ \A k \in Keys : Tombstone(k) \in RowType
    /\ \A k \in Keys, s \in SessionType, epoch \in Epochs : RowOf(k, s, epoch) \in RowType
    /\ \A k \in Keys : [NoRow EXCEPT !.generation = k.generation] \in RowType
    /\ \A r \in Revisions, stage \in Stages \cup {"none"}, epoch \in Epochs :
        [revision |-> r, stage |-> stage, epoch |-> epoch] \in SessionType
    /\ \A e \in EndingType : Digest(e) \in ResultType /\ Digest(e) # NoResult
<1>1. 0 \in Revisions /\ 0 \in Epochs /\ 0 \in 0..MaxGames
  BY PersistenceConstants DEF Revisions, Epochs
<1>2. NoRow \in RowType /\ NoSession \in SessionType /\ NoResult \in ResultType
  BY <1>1 DEF NoRow, RowType, NoEpoch, NoSession, SessionType, NoResult, ResultType
<1>3. Resting \in WorkerType /\ NoActive \in [key : Keys \cup {NoKey}, epoch : Epochs]
  BY <1>1, <1>2 DEF Resting, WorkerType, NoActive, NoEpoch
<1>4. \A k \in Keys : Tombstone(k) \in RowType /\ [NoRow EXCEPT !.generation = k.generation] \in RowType
  <2> TAKE k \in Keys
  <2>1. k.generation \in 0..MaxGames
    BY KeyFacts
  <2> QED BY <1>1, <2>1 DEF Tombstone, NoRow, RowType, NoEpoch
<1>5. \A k \in Keys, s \in SessionType, epoch \in Epochs : RowOf(k, s, epoch) \in RowType
  <2> TAKE k \in Keys, s \in SessionType, epoch \in Epochs
  <2>1. k.generation \in 0..MaxGames
    BY KeyFacts
  <2> QED BY <1>1, <2>1 DEF RowOf, NoRow, NoEpoch, RowType, SessionType
<1>6. \A r \in Revisions, stage \in Stages \cup {"none"}, epoch \in Epochs :
        [revision |-> r, stage |-> stage, epoch |-> epoch] \in SessionType
  BY DEF SessionType
<1>7. \A e \in EndingType : Digest(e) \in ResultType /\ Digest(e) # NoResult
  BY DEF Digest, ResultType, EndingType, NoResult, Reasons
<1> QED BY <1>2, <1>3, <1>4, <1>5, <1>6, <1>7

-----------------------------------------------------------------------------
(* The save workers. *)

\* A request starts a worker at rest or tells the one that is registered.
LEMMA RequestTyped ==
    ASSUME SaveType, NEW k \in Keys, NEW s, Request(k, s)
    PROVE  /\ SaveType'
           /\ \A w \in Workers : worker'[w].key = worker[w].key \/ (worker[w].key = NoKey /\ worker'[w].key = k)
           /\ \A w \in Workers : worker'[w].step = "write" =>
                worker[w].step = "write" /\ worker'[w].taken = worker[w].taken /\ worker'[w].key = worker[w].key
<1>1. CASE s.stage = "over"
  BY <1>1 DEF Request, saves, SaveType
<1>2. CASE s.stage # "over" /\ pending[k] # NoWorker
  <2>1. worker' = [worker EXCEPT ![pending[k]].asked = TRUE] /\ pending' = pending /\ pending[k] \in Workers
    BY <1>2 DEF Request, SaveType
  <2>2. \A w \in Workers : /\ worker'[w] \in WorkerType /\ worker'[w].key = worker[w].key
                           /\ worker'[w].step = worker[w].step /\ worker'[w].taken = worker[w].taken
    BY <2>1 DEF SaveType, WorkerType
  <2>3. worker' \in [Workers -> WorkerType]
    BY <2>1, <2>2 DEF SaveType
  <2>4. \A j \in Keys : pending'[j] # NoWorker => worker'[pending'[j]].key = j
    BY <2>1, <2>2 DEF SaveType
  <2> QED BY <2>1, <2>2, <2>3, <2>4 DEF SaveType
<1>3. CASE s.stage # "over" /\ pending[k] = NoWorker
  <2>1. PICK w \in Workers :
          /\ Idle(w)
          /\ worker' = [worker EXCEPT ![w] = [Resting EXCEPT !.key = k, !.step = "lease", !.asked = TRUE]]
          /\ pending' = [pending EXCEPT ![k] = w]
    BY <1>3 DEF Request
  <2> DEFINE r == [Resting EXCEPT !.key = k, !.step = "lease", !.asked = TRUE]
  <2>2. r \in WorkerType /\ r.key = k /\ r.step = "lease"
    BY RecordFacts DEF Resting, WorkerType
  <2>3. worker[w].key = NoKey /\ k # NoKey
    BY <2>1, KeyFacts DEF Idle, SaveType
  <2>4. worker' = [worker EXCEPT ![w] = r]
    BY <2>1
  <2> HIDE DEF r
  <2>5. worker' \in [Workers -> WorkerType] /\ pending' \in [Keys -> Workers \cup {NoWorker}]
    BY <2>1, <2>2, <2>4 DEF SaveType
  <2>6. \A j \in Keys : pending'[j] # NoWorker => worker'[pending'[j]].key = j
    BY <2>1, <2>2, <2>3, <2>4, KeyFacts, PersistenceConstants DEF SaveType
  <2>7. \A v \in Workers : worker'[v].step = "none" <=> worker'[v].key = NoKey
    BY <2>2, <2>3, <2>4 DEF SaveType
  <2> QED BY <2>2, <2>3, <2>4, <2>5, <2>6, <2>7 DEF SaveType
<1> QED BY <1>1, <1>2, <1>3

\* A worker that returns.
LEMMA ExitTyped ==
    ASSUME SaveType, NEW w \in Workers, worker[w].key # NoKey, Exit(w)
    PROVE  SaveType' /\ worker' = [worker EXCEPT ![w] = Resting]
<1>1. worker' = [worker EXCEPT ![w] = Resting] /\ worker[w].key \in Keys /\ Resting.key = NoKey /\ Resting.step = "none"
  BY DEF Exit, SaveType, WorkerType, Resting
<1>2. worker' \in [Workers -> WorkerType]
  BY <1>1, RecordFacts DEF SaveType
<1>3. pending' \in [Keys -> Workers \cup {NoWorker}]
  BY <1>1 DEF Exit, SaveType
<1>4. \A j \in Keys : pending'[j] # NoWorker => worker'[pending'[j]].key = j
  <2> TAKE j \in Keys
  <2>1. pending'[j] # NoWorker => pending'[j] = pending[j] /\ pending[j] # w
    BY <1>1 DEF Exit, SaveType, Closed
  <2> QED BY <1>1, <2>1 DEF SaveType
<1>5. \A v \in Workers : worker'[v].step = "none" <=> worker'[v].key = NoKey
  BY <1>1 DEF SaveType
<1> QED BY <1>1, <1>2, <1>3, <1>4, <1>5 DEF SaveType

\* A worker that goes on with its key.
LEMMA WorkTyped ==
    ASSUME SaveType, NEW w \in Workers, NEW r \in WorkerType,
           worker[w].key # NoKey, r.key = worker[w].key, r.step # "none",
           worker' = [worker EXCEPT ![w] = r], pending' = pending
    PROVE  SaveType'
<1>1. worker' \in [Workers -> WorkerType]
  BY DEF SaveType
<1>2. \A v \in Workers : worker'[v].key = worker[v].key
  BY DEF SaveType
<1>3. \A j \in Keys : pending'[j] # NoWorker => worker'[pending'[j]].key = j
  BY <1>2 DEF SaveType
<1>4. \A v \in Workers : worker'[v].step = "none" <=> worker'[v].key = NoKey
  BY <1>2 DEF SaveType
<1> QED BY <1>1, <1>3, <1>4 DEF SaveType

\* A cancelled registration.
LEMMA CancelTyped ==
    ASSUME SaveType, NEW k \in Keys, Cancel(k), worker' = worker
    PROVE  SaveType'
BY DEF SaveType, Cancel

\* finish_if_idle returns, or takes the worker back to the session.
LEMMA FinishTyped ==
    ASSUME SaveType, NEW w \in Workers, worker[w].key # NoKey, FinishIfIdle(w)
    PROVE  /\ SaveType'
           /\ \E r \in WorkerType : /\ worker' = [worker EXCEPT ![w] = r]
                                    /\ r.key \in {worker[w].key, NoKey} /\ r.step # "write"
<1>1. CASE ~Closed(w) /\ worker[w].asked
  <2> DEFINE r == [worker[w] EXCEPT !.step = "lease", !.taken = NoSession]
  <2>1. r \in WorkerType /\ r.key = worker[w].key /\ r.step = "lease"
    BY RecordFacts DEF SaveType, WorkerType
  <2>2. worker' = [worker EXCEPT ![w] = r] /\ pending' = pending
    BY <1>1 DEF FinishIfIdle, SaveType
  <2> HIDE DEF r
  <2> QED BY <2>1, <2>2, WorkTyped
<1>2. CASE ~(~Closed(w) /\ worker[w].asked)
  <2>1. Exit(w)
    BY <1>2 DEF FinishIfIdle
  <2> QED BY <2>1, ExitTyped, RecordFacts DEF Resting
<1> QED BY <1>1, <1>2

-----------------------------------------------------------------------------
(* Types, action by action. *)

\* The bounds of a server are within the bounds of the model.
LEMMA LimitFacts ==
    ASSUME ProcessType
    PROVE  /\ Limits[retention].games \in 0..MaxGames
           /\ Limits[retention].revision \in 0..MaxRevision
           /\ Limits[retention].faults \in 0..MaxFaults
BY PersistenceConstants DEF ProcessType

\* The number of games that is bounded bounds the generations of a code.
LEMMA GenerationsBounded ==
    ASSUME ProcessType, DbType, NEW c \in Codes,
           Cardinality({j \in Keys : j.generation <= high_water[j.code]}) < Limits[retention].games
    PROVE  NextGeneration(c) \in 1..MaxGames
<1> DEFINE S == {j \in Keys : j.generation <= high_water[j.code]}
           f == [k \in Keys |-> <<k.code, k.generation>>]
           h == [g \in 1..high_water[c] |-> Key(c, g)]
<1>1. IsFiniteSet(Codes \X (1..MaxGames))
  <2>0. MaxGames \in Int /\ 1 \in Int
    BY PersistenceConstants
  <2>1. IsFiniteSet(1..MaxGames)
    BY ONLY <2>0, FS_Interval, SMTT(30)
  <2> QED BY <2>1, PersistenceConstants, FS_Product
<1>2. f \in Injection(Keys, Codes \X (1..MaxGames))
  <2>1. f \in [Keys -> Codes \X (1..MaxGames)]
    BY KeyFacts
  <2>2. \A a, b \in Keys : f[a] = f[b] => a = b
    BY DEF Keys
  <2> QED BY <2>1, <2>2 DEF Injection, IsInjective
<1>3. IsFiniteSet(Keys)
  BY <1>1, <1>2, FS_Injection
<1>4. IsFiniteSet(S)
  BY <1>3, FS_Subset
<1>5. high_water[c] \in 0..MaxGames /\ MaxGames \in Nat
  BY PersistenceConstants DEF DbType
<1>6. \A g \in 1..high_water[c] : Key(c, g) \in S
  BY <1>5, KeyFacts
<1>7. h \in Injection(1..high_water[c], S)
  <2>1. h \in [1..high_water[c] -> S]
    BY <1>6
  <2>2. \A a, b \in 1..high_water[c] : h[a] = h[b] => a = b
    BY DEF Key
  <2> QED BY <2>1, <2>2 DEF Injection, IsInjective
<1>8. Cardinality(1..high_water[c]) <= Cardinality(S)
  BY <1>4, <1>7, FS_Injection
<1>9. Cardinality(1..high_water[c]) = high_water[c]
  BY <1>5, FS_Interval, SMTT(30)
<1>10. Cardinality(S) \in Nat
  BY <1>4, FS_CardinalityType
<1> QED BY <1>5, <1>8, <1>9, <1>10, LimitFacts DEF NextGeneration

\* Workers.
LEMMA WorkerStepTyped ==
    ASSUME Typed, NEW w \in Workers, WorkerStep(w)
    PROVE  Typed'
<1> USE DEF Typed
<1>0. worker[w] \in WorkerType /\ (worker[w].step # "none" => worker[w].key # NoKey /\ worker[w].key \in Keys)
  BY DEF SaveType, WorkerType
<1>1. CASE Capture(w)
  <2>1. SaveType'
    <3>1. CASE Exit(w)
      BY <1>0, <1>1, <3>1, ExitTyped DEF Capture
    <3>2. CASE ~Exit(w)
      <4> DEFINE k == worker[w].key
                 r == [worker[w] EXCEPT !.asked = FALSE, !.taken = session[k], !.step = "write"]
      <4>1. session[k] \in SessionType
        BY <1>0, <1>1 DEF Capture, MemoryType
      <4>2. r \in WorkerType /\ r.key = worker[w].key /\ r.step = "write"
        BY <1>0, <4>1 DEF WorkerType
      <4>3. worker' = [worker EXCEPT ![w] = r] /\ pending' = pending
        BY <1>1, <3>2 DEF Capture, SaveType, WorkerType
      <4>4. worker[w].key # NoKey
        BY <1>0, <1>1 DEF Capture
      <4> HIDE DEF r, k
      <4> QED BY <4>2, <4>3, <4>4, WorkTyped
    <3> QED BY <3>1, <3>2
  <2> QED BY <1>1, <2>1 DEF Capture, process, db, memory, ProcessType, DbType, MemoryType
<1>2. CASE Write(w)
  <2>1. SaveType'
    BY <1>0, <1>2, FinishTyped DEF Write
  <2>2. row' \in [Codes -> RowType]
    <3>1. RowOf(worker[w].key, worker[w].taken, worker[w].taken.epoch) \in RowType
      BY <1>0, <1>2, RecordFacts DEF Write, WorkerType, SessionType
    <3> QED BY <1>2, <3>1 DEF Write, Save, DbType
  <2> QED BY <1>2, <2>1, <2>2 DEF Write, Save, process, memory, ProcessType, DbType, MemoryType
<1>3. CASE Cancelled(w)
  <2>1. SaveType'
    BY <1>0, <1>3, ExitTyped DEF Cancelled
  <2> QED BY <1>3, <2>1 DEF Cancelled, process, db, memory, ProcessType, DbType, MemoryType
<1>4. CASE SaveFails(w)
  <2>1. SaveType'
    BY <1>0, <1>4, FinishTyped DEF SaveFails
  <2>2. faults' \in 0..MaxFaults
    BY <1>4, PersistenceConstants DEF SaveFails, ProcessType
  <2> QED BY <1>4, <2>1, <2>2 DEF SaveFails, process, db, memory, ProcessType, DbType, MemoryType
<1> QED BY <1>1, <1>2, <1>3, <1>4 DEF WorkerStep

\* A key is bound and its game initialized.
LEMMA CreateTyped ==
    ASSUME Typed,
           \/ \E c \in Codes : BindKey(c)
           \/ \E stage \in {"waiting", "started"} : Initialize(stage)
           \/ InitializeFails
    PROVE  Typed'
<1> USE DEF Typed
<1>1. ASSUME NEW c \in Codes, BindKey(c) PROVE Typed'
  <2> DEFINE k == Key(c, NextGeneration(c))
  <2>1. NextGeneration(c) \in 1..MaxGames
    BY <1>1, GenerationsBounded DEF BindKey
  <2>2. k \in Keys /\ k.generation \in 0..MaxGames
    BY <2>1, KeyFacts
  <2>3. high_water' = [high_water EXCEPT ![c] = k.generation] /\ binding' = k
        /\ row' = [row EXCEPT ![c] = [NoRow EXCEPT !.generation = k.generation]]
    BY <1>1 DEF BindKey
  <2> HIDE DEF k
  <2>4. row' \in [Codes -> RowType]
    BY <2>2, <2>3, RecordFacts DEF DbType
  <2>5. DbType' /\ MemoryType'
    BY <1>1, <2>2, <2>3, <2>4 DEF BindKey, DbType, MemoryType
  <2> QED BY <1>1, <2>5 DEF BindKey, process, saves, ProcessType, SaveType
<1>2. ASSUME NEW stage \in {"waiting", "started"}, Initialize(stage) PROVE Typed'
  <2> DEFINE s == [revision |-> 0, stage |-> stage, epoch |-> NoEpoch]
  <2>1. s \in SessionType /\ binding \in Keys
    BY <1>2, RecordFacts, PersistenceConstants DEF Initialize, MemoryType, Stages, Revisions, Epochs, NoEpoch
  <2>2. binding.code \in Codes /\ binding.generation \in 0..MaxGames
    BY <2>1, KeyFacts
  <2>3. registry' = [registry EXCEPT ![binding.code] = binding.generation] /\ binding' = NoKey
        /\ UNCHANGED <<process, retiring, ending, faults>>
    BY <1>2 DEF Initialize
  <2>4. ASSUME Activate(binding, s) PROVE Typed'
    <3> DEFINE epoch == active.epoch + 1
               replaced == [c \in Codes |-> IF active.key # NoKey /\ active.key.code = c /\ ActiveRow(active.key)
                                            THEN Tombstone(active.key) ELSE row[c]]
    <3>1. epoch \in Epochs /\ active.key \in Keys \cup {NoKey}
      BY DEF DbType, Epochs
    <3>2. replaced \in [Codes -> RowType]
      BY <3>1, RecordFacts DEF DbType
    <3>3. RowOf(binding, s, epoch) \in RowType
      BY <2>1, <3>1, RecordFacts
    <3>4. row' = [replaced EXCEPT ![binding.code] = RowOf(binding, s, epoch)]
      BY <2>4 DEF Activate
    <3>5. row' \in [Codes -> RowType]
      BY <2>2, <3>2, <3>3, <3>4
    <3>6. DbType'
      BY <2>1, <2>4, <3>1, <3>5 DEF Activate, DbType
    <3>7. [s EXCEPT !.epoch = epoch] \in SessionType
      BY <2>1, <3>1 DEF SessionType
    <3>8. session' \in [Keys -> SessionType]
      BY <2>1, <2>4, <3>7 DEF Activate, MemoryType
    <3>9. SaveType'
      BY <2>4 DEF Activate, SaveType
    <3> QED BY <2>1, <2>2, <2>3, <3>6, <3>8, <3>9 DEF process, ProcessType, MemoryType
  <2>5. ASSUME FirstSave(binding, s), session' = [session EXCEPT ![binding] = s], UNCHANGED saves PROVE Typed'
    <3>1. RowOf(binding, s, s.epoch) \in RowType
      BY <2>1, RecordFacts DEF SessionType
    <3>2. row' \in [Codes -> RowType]
      BY <2>1, <2>5, <3>1 DEF FirstSave, Save, DbType
    <3>3. DbType'
      BY <2>5, <3>2 DEF FirstSave, Save, DbType
    <3>4. session' \in [Keys -> SessionType]
      BY <2>1, <2>5 DEF MemoryType
    <3> QED BY <2>1, <2>2, <2>3, <2>5, <3>3, <3>4 DEF process, ProcessType, MemoryType, saves, SaveType
  <2> QED BY <1>2, <2>4, <2>5 DEF Initialize
<1>3. ASSUME InitializeFails PROVE Typed'
  <2>1. faults' \in 0..MaxFaults
    BY <1>3, PersistenceConstants DEF InitializeFails, ProcessType
  <2> QED BY <1>3, <2>1 DEF InitializeFails, process, db, saves, ProcessType, DbType, SaveType, MemoryType
<1> QED BY <1>1, <1>2, <1>3

\* A game leaves the registry.
LEMMA UnregisterTyped ==
    ASSUME MemoryType, NEW c \in Codes, Unregister(c)
    PROVE  registry' \in [Codes -> 0..MaxGames] /\ session' \in [Keys -> SessionType]
<1>1. 0 \in 0..MaxGames
  BY PersistenceConstants
<1> QED BY <1>1, RecordFacts DEF Unregister, MemoryType

\* A terminal that is asked for.
LEMMA EndTyped ==
    ASSUME MemoryType, NEW k \in Keys, NEW revision \in Revisions, NEW reason \in Reasons,
           End(k, revision, reason)
    PROVE  ending' \subseteq EndingType
BY DEF End, MemoryType, EndingType

\* Play and the ends of games.
LEMMA PlayTyped ==
    ASSUME Typed, NEW k \in Keys,
           \/ \E stage \in Stages, asks \in BOOLEAN : Mutate(k, stage, asks)
           \/ Ask(k) \/ GameOver(k) \/ Abandon(k) \/ Forfeit(k) \/ Dissolve(k) \/ Drop(k) \/ Flush(k)
    PROVE  Typed'
<1> USE DEF Typed
<1>0. session[k] \in SessionType /\ k.code \in Codes
  BY KeyFacts DEF MemoryType
<1>1. ASSUME NEW stage \in Stages, NEW asks \in BOOLEAN, Mutate(k, stage, asks) PROVE Typed'
  <2>0. session[k].revision + 1 \in Revisions
    BY <1>0, <1>1, PersistenceConstants, LimitFacts DEF Mutate, SessionType, Revisions
  <2>1. [session[k] EXCEPT !.revision = @ + 1, !.stage = stage] \in SessionType
    BY <1>0, <2>0 DEF SessionType
  <2>2. session' \in [Keys -> SessionType]
    BY <1>1, <2>1 DEF Mutate, MemoryType
  <2>3. SaveType'
    BY <1>1, RequestTyped DEF Mutate, saves, SaveType
  <2> QED BY <1>1, <2>2, <2>3 DEF Mutate, process, db, ProcessType, DbType, MemoryType
<1>2. ASSUME Ask(k) PROVE Typed'
  <2>1. SaveType'
    BY <1>2, RequestTyped DEF Ask
  <2> QED BY <1>2, <2>1 DEF Ask, process, db, memory, ProcessType, DbType, MemoryType
<1>3. ASSUME GameOver(k) PROVE Typed'
  <2>1. session[k].revision + 1 \in Revisions
    BY <1>0, <1>3, PersistenceConstants, LimitFacts DEF GameOver, SessionType, Revisions
  <2>2. [session[k] EXCEPT !.revision = @ + 1, !.stage = "over"] \in SessionType
    BY <1>0, <2>1 DEF SessionType, Stages
  <2>3. session' \in [Keys -> SessionType]
    BY <1>3, <2>2 DEF GameOver, MemoryType
  <2>4. ending' \subseteq EndingType
    BY <1>3, <2>1, EndTyped DEF GameOver, Reasons
  <2> QED BY <1>3, <2>3, <2>4 DEF GameOver, process, db, saves, ProcessType, DbType, SaveType, MemoryType
<1>4. ASSUME Abandon(k) \/ Forfeit(k) PROVE Typed'
  <2>1. ending' \subseteq EndingType
    BY <1>0, <1>4, EndTyped DEF Abandon, Forfeit, Reasons, SessionType
  <2> QED BY <1>4, <2>1 DEF Abandon, Forfeit, process, db, saves, ProcessType, DbType, SaveType, MemoryType
<1>5. ASSUME Dissolve(k) PROVE Typed'
  <2>1. registry' \in [Codes -> 0..MaxGames] /\ session' \in [Keys -> SessionType]
    BY <1>0, <1>5, UnregisterTyped DEF Dissolve
  <2>2. retiring' \subseteq RetiringType
    BY <1>0, <1>5 DEF Dissolve, MemoryType, RetiringType, SessionType
  <2> QED BY <1>5, <2>1, <2>2 DEF Dissolve, process, db, saves, ProcessType, DbType, SaveType, MemoryType
<1>6. ASSUME Drop(k) PROVE Typed'
  <2>1. session' \in [Keys -> SessionType]
    BY <1>6, RecordFacts DEF Drop, MemoryType
  <2> QED BY <1>6, <2>1 DEF Drop, process, db, saves, ProcessType, DbType, SaveType, MemoryType
<1>7. ASSUME Flush(k) PROVE Typed'
  <2>1. RowOf(k, session[k], session[k].epoch) \in RowType
    BY <1>0, RecordFacts DEF SessionType
  <2>2. row' \in [Codes -> RowType]
    BY <1>0, <1>7, <2>1 DEF Flush, Save, DbType
  <2> QED BY <1>7, <2>2 DEF Flush, Save, process, saves, memory, ProcessType, DbType, SaveType, MemoryType
<1> QED BY <1>1, <1>2, <1>3, <1>4, <1>5, <1>6, <1>7

\* Retirements.
LEMMA RetireTyped ==
    ASSUME Typed, NEW t \in retiring, RetireUnstarted(t) \/ RetireFails(t)
    PROVE  Typed'
<1> USE DEF Typed
<1>0. t.key \in Keys /\ t.key.code \in Codes
  BY KeyFacts DEF MemoryType, RetiringType
<1>1. CASE RetireUnstarted(t)
  <2>1. row' \in [Codes -> RowType] /\ active' \in [key : Keys \cup {NoKey}, epoch : Epochs]
    BY <1>0, <1>1, RecordFacts DEF RetireUnstarted, DbType
  <2>2. SaveType'
    BY <1>0, <1>1, CancelTyped DEF RetireUnstarted, SaveType
  <2> QED BY <1>1, <2>1, <2>2 DEF RetireUnstarted, process, ProcessType, DbType, MemoryType
<1>2. CASE RetireFails(t)
  <2>1. faults' \in 0..MaxFaults
    BY <1>2, PersistenceConstants DEF RetireFails, ProcessType
  <2> QED BY <1>2, <2>1 DEF RetireFails, process, db, saves, ProcessType, DbType, SaveType, MemoryType
<1> QED BY <1>1, <1>2

\* The transaction of a terminal.
LEMMA RecordTyped ==
    ASSUME DbType, NEW e \in EndingType, Record(e), high_water' = high_water
    PROVE  DbType'
<1>1. e.key \in Keys /\ e.key.code \in Codes
  BY KeyFacts DEF EndingType
<1>2. row' \in [Codes -> RowType]
  BY <1>1, RecordFacts DEF Record, DbType
<1>3. results' \in [Keys -> ResultType]
  BY <1>1, RecordFacts DEF Record, DbType
<1>4. active' \in [key : Keys \cup {NoKey}, epoch : Epochs]
  BY RecordFacts DEF Record, DbType
<1> QED BY <1>2, <1>3, <1>4 DEF DbType

\* A terminal that is given up ends, or goes on to the removal.
LEMMA GiveUpTyped ==
    ASSUME MemoryType, NEW e \in ending, NEW leaves \in BOOLEAN, GiveUp(e, leaves) \/ TryAgain(e)
    PROVE  /\ ending' \subseteq EndingType
           /\ \A f \in ending' : \E g \in ending : f.key = g.key
<1>1. e \in EndingType /\ [e EXCEPT !.step = "remove"] \in EndingType /\ [e EXCEPT !.step = "remove"].key = e.key
  BY DEF MemoryType, EndingType
<1>2. ending' \subseteq ending \cup {[e EXCEPT !.step = "remove"]}
  BY DEF GiveUp, TryAgain
<1> QED BY <1>1, <1>2 DEF MemoryType

\* Terminals.
LEMMA TerminalTyped ==
    ASSUME Typed, NEW e \in ending, TerminalStep(e)
    PROVE  Typed'
<1> USE DEF Typed
<1>0. e \in EndingType /\ e.key \in Keys /\ e.key.code \in Codes
  BY KeyFacts DEF MemoryType, EndingType
<1>1. CASE Commit(e)
  <2>1. DbType'
    BY <1>0, <1>1, RecordTyped DEF Commit
  <2>2. SaveType'
    BY <1>0, <1>1, CancelTyped DEF Commit
  <2>3. [e EXCEPT !.step = "remove"] \in EndingType
    BY <1>0 DEF EndingType
  <2> QED BY <1>1, <2>1, <2>2, <2>3 DEF Commit, process, ProcessType, MemoryType
<1>2. CASE CommitRefused(e)
  <2>1. ending' \subseteq EndingType
    BY <1>2, GiveUpTyped DEF CommitRefused
  <2> QED BY <1>2, <2>1 DEF CommitRefused, process, db, saves, ProcessType, DbType, SaveType, MemoryType
<1>3. CASE CommitFails(e)
  <2>1. ending' \subseteq EndingType
    BY <1>3, GiveUpTyped DEF CommitFails
  <2>2. faults' \in 0..MaxFaults
    BY <1>3, PersistenceConstants DEF CommitFails, ProcessType
  <2> QED BY <1>3, <2>1, <2>2 DEF CommitFails, process, db, saves, ProcessType, DbType, SaveType, MemoryType
<1>4. CASE DeliveriesUnread(e)
  <2>1. ending' \subseteq EndingType
    BY <1>4, GiveUpTyped DEF DeliveriesUnread
  <2>2. faults' \in 0..MaxFaults
    BY <1>4, PersistenceConstants DEF DeliveriesUnread, ProcessType
  <2>3. DbType'
    BY <1>0, <1>4, RecordTyped DEF DeliveriesUnread
  <2>4. SaveType'
    BY <1>0, <1>4, CancelTyped DEF DeliveriesUnread
  <2> QED BY <1>4, <2>1, <2>2, <2>3, <2>4 DEF DeliveriesUnread, process, ProcessType, MemoryType
<1>5. CASE RemoveEnded(e)
  <2>1. registry' \in [Codes -> 0..MaxGames] /\ session' \in [Keys -> SessionType]
    BY <1>0, <1>5, UnregisterTyped DEF RemoveEnded
  <2> QED BY <1>5, <2>1 DEF RemoveEnded, process, db, saves, ProcessType, DbType, SaveType, MemoryType
<1> QED BY <1>1, <1>2, <1>3, <1>4, <1>5 DEF TerminalStep

\* Cleanup, shutdown and crash.
LEMMA CrashTyped ==
    ASSUME Typed, (\E c \in Codes : RowAges(c) \/ DeleteStale(c) \/ RestoreFails(c)) \/ Shutdown \/ Crash
    PROVE  Typed'
<1> USE DEF Typed
<1>1. ASSUME NEW c \in Codes, RowAges(c) \/ DeleteStale(c) PROVE Typed'
  <2>0. [row[c] EXCEPT !.stale = TRUE] \in RowType
    BY DEF DbType, RowType
  <2>1. row' \in [Codes -> RowType]
    BY <1>1, <2>0, RecordFacts DEF RowAges, DeleteStale, DbType
  <2> QED BY <1>1, <2>1 DEF RowAges, DeleteStale, process, saves, memory, ProcessType, DbType, SaveType, MemoryType
<1>2. ASSUME NEW c \in Codes, RestoreFails(c) PROVE Typed'
  <2>1. faults' \in 0..MaxFaults
    BY <1>2, PersistenceConstants DEF RestoreFails, ProcessType
  <2> QED BY <1>2, <2>1 DEF RestoreFails, db, saves, memory, ProcessType, DbType, SaveType, MemoryType
<1>3. ASSUME Shutdown PROVE Typed'
  BY <1>3 DEF Shutdown, db, saves, memory, ProcessType, DbType, SaveType, MemoryType
<1>4. ASSUME Crash PROVE Typed'
  <2>1. registry' \in [Codes -> 0..MaxGames] /\ session' \in [Keys -> SessionType]
    BY <1>4, RecordFacts, PersistenceConstants DEF Crash
  <2>2. SaveType'
    BY <1>4, RecordFacts DEF Crash, SaveType, Resting
  <2> QED BY <1>4, <2>1, <2>2 DEF Crash, db, ProcessType, DbType, MemoryType
<1> QED BY <1>1, <1>2, <1>3, <1>4

\* What a row that is read back stands for.
RestoredKey(c) == Key(c, row[c].generation)
RestoredSession(c, resumed) ==
    [revision |-> row[c].revision + resumed, stage |-> row[c].stage, epoch |-> row[c].epoch]
RestoredEnd(c, resumed) ==
    [key |-> RestoredKey(c), revision |-> row[c].revision + resumed, reason |-> "played", step |-> "commit"]
Readable(c) == row[c] # NoRow /\ ~row[c].retired /\ row[c].stage # "none"

\* The three ways a row is met at the start, and what they have in common.
LEMMA RestoreCases ==
    ASSUME Typed, NEW c \in Codes, NEW resumed \in 0..1, Restore(c, resumed)
    PROVE  /\ phase = "booting" /\ c \in boot /\ boot' = boot \ {c}
           /\ phase' = IF boot = {c} THEN "up" ELSE phase
           /\ UNCHANGED <<retention, high_water, saves, binding, retiring, ending, faults>>
           /\ \/ ~Readable(c) /\ UNCHANGED <<row, active, results, registry, session>>
              \/ /\ Readable(c) /\ UNCHANGED <<registry, session>>
                 /\ row[c].stage = "over" /\ resumed = 0
                 /\ \/ /\ Prepared(RestoredEnd(c, resumed)) \/ Preparable(RestoredEnd(c, resumed))
                       /\ Record(RestoredEnd(c, resumed))
                    \/ UNCHANGED <<row, active, results>>
              \/ /\ Readable(c) /\ row[c].stage # "over" /\ UNCHANGED <<active, results>>
                 /\ resumed = 1 => row[c].revision + resumed <= MaxRevision
                 /\ \/ UNCHANGED <<row, registry, session>>
                    \/ /\ resumed = 0 \/ Saves(RestoredKey(c), RestoredSession(c, resumed))
                       /\ row' = IF resumed = 1
                                 THEN [row EXCEPT ![c] = RowOf(RestoredKey(c), RestoredSession(c, resumed), row[c].epoch)]
                                 ELSE row
                       /\ registry' = [registry EXCEPT ![c] = row[c].generation]
                       /\ session' = [session EXCEPT ![RestoredKey(c)] = RestoredSession(c, resumed)]
<1>1. /\ phase = "booting" /\ c \in boot /\ boot' = boot \ {c}
      /\ phase' = IF boot = {c} THEN "up" ELSE phase
      /\ UNCHANGED <<retention, high_water, saves, binding, retiring, ending, faults>>
  BY DEF Restore
<1>2. CASE ~Readable(c)
  BY <1>1, <1>2 DEF Restore, Readable
<1>3. CASE Readable(c) /\ row[c].stage = "over"
  BY <1>1, <1>3 DEF Restore, Readable, RestoredKey, RestoredEnd
<1>4. CASE Readable(c) /\ row[c].stage # "over"
  <2>1. RestoredSession(c, resumed).epoch = row[c].epoch /\ RestoredKey(c).generation = row[c].generation
        /\ RestoredSession(c, resumed).revision = row[c].revision + resumed
    BY DEF RestoredSession, RestoredKey, Key
  <2>2. resumed = 1 => row[c].revision + resumed <= MaxRevision
    <3>1. resumed = 1 => row[c].revision + resumed <= Limits[retention].revision
      BY <1>4 DEF Restore, Readable
    <3>2. row[c].revision \in Nat
      BY DEF Typed, DbType, RowType, Revisions
    <3> QED BY <3>1, <3>2, LimitFacts, PersistenceConstants DEF Typed
  <2> QED BY <1>1, <1>4, <2>1, <2>2 DEF Restore, Readable, RestoredKey, RestoredSession, Key
<1> QED BY <1>2, <1>3, <1>4

\* The key of a row that can be read is one of the keys.
LEMMA RestoredTyped ==
    ASSUME DbType, TopRows, NEW c \in Codes, NEW resumed \in 0..1, row[c] # NoRow,
           resumed = 1 => row[c].revision + resumed <= MaxRevision
    PROVE  /\ RestoredKey(c) \in Keys /\ RestoredKey(c).code = c
           /\ RestoredKey(c).generation = row[c].generation
           /\ RestoredSession(c, resumed) \in SessionType
           /\ RestoredEnd(c, resumed) \in EndingType
<1>1. row[c] \in RowType
  BY DEF DbType
<1>2. row[c].generation \in 1..MaxGames
  BY <1>1, PersistenceConstants DEF TopRows, RowType
<1>3. row[c].revision + resumed \in Revisions
  BY <1>1, PersistenceConstants DEF RowType, Revisions
<1>4. RestoredKey(c) \in Keys /\ RestoredKey(c).code = c /\ RestoredKey(c).generation = row[c].generation
  BY <1>2, KeyFacts DEF RestoredKey
<1>5. RestoredSession(c, resumed) \in SessionType
  BY <1>1, <1>3 DEF RestoredSession, SessionType, RowType
<1>6. RestoredEnd(c, resumed) \in EndingType
  BY <1>3, <1>4 DEF RestoredEnd, EndingType, Reasons
<1> QED BY <1>4, <1>5, <1>6

\* Restores.
LEMMA RestoreTyped ==
    ASSUME Typed, TopRows, NEW c \in Codes, NEW resumed \in 0..1, Restore(c, resumed)
    PROVE  Typed'
<1> USE RestoreCases DEF Typed
<1>1. ProcessType' /\ SaveType'
  BY DEF ProcessType, SaveType, saves
<1>2. DbType' /\ registry' \in [Codes -> 0..MaxGames] /\ session' \in [Keys -> SessionType]
  <2>1. CASE UNCHANGED <<row, active, results, registry, session>>
    BY <2>1 DEF DbType, MemoryType
  <2>2. CASE /\ Readable(c) /\ UNCHANGED <<registry, session>> /\ resumed = 0
             /\ Record(RestoredEnd(c, resumed))
    BY <2>2, RestoredTyped, RecordTyped DEF MemoryType, Readable
  <2>3. CASE /\ Readable(c) /\ UNCHANGED <<active, results>>
             /\ resumed = 1 => row[c].revision + resumed <= MaxRevision
             /\ row' = IF resumed = 1
                       THEN [row EXCEPT ![c] = RowOf(RestoredKey(c), RestoredSession(c, resumed), row[c].epoch)]
                       ELSE row
             /\ registry' = [registry EXCEPT ![c] = row[c].generation]
             /\ session' = [session EXCEPT ![RestoredKey(c)] = RestoredSession(c, resumed)]
    <3>1. RestoredKey(c) \in Keys /\ RestoredSession(c, resumed) \in SessionType
      BY <2>3, RestoredTyped DEF Readable
    <3>2. row[c].epoch \in Epochs /\ row[c].generation \in 0..MaxGames
      BY DEF DbType, RowType
    <3>3. RowOf(RestoredKey(c), RestoredSession(c, resumed), row[c].epoch) \in RowType
      BY <3>1, <3>2, RecordFacts
    <3>4. row' \in [Codes -> RowType]
      BY <2>3, <3>3 DEF DbType
    <3>5. DbType'
      BY <2>3, <3>4 DEF DbType
    <3>6. registry' \in [Codes -> 0..MaxGames] /\ session' \in [Keys -> SessionType]
      BY <2>3, <3>1, <3>2 DEF MemoryType
    <3> QED BY <3>5, <3>6
  <2> QED BY <2>1, <2>2, <2>3
<1> QED BY <1>1, <1>2 DEF MemoryType

-----------------------------------------------------------------------------
(* The fences.  Nearly every step advances the rows, each within the last    *)
(* generation of its code, and narrows what is held in memory.               *)

RowAdvances(c) ==
    /\ row'[c].generation = high_water[c] /\ high_water[c] > 0 /\ row'[c].stale = FALSE
    /\ binding # NoKey => c # binding.code
    /\ row[c].generation = high_water[c] /\ row[c].retired => row'[c].retired
    /\ row[c].generation = high_water[c] /\ row[c].stage # "none" /\ ~row'[c].retired =>
        row'[c].revision >= row[c].revision

RowsAdvance ==
    /\ high_water' = high_water
    /\ \A c \in Codes : row'[c] = row[c] \/ RowAdvances(c)

Narrows ==
    /\ binding' \in {binding, NoKey}
    /\ binding' # NoKey => phase' = "up" /\ registry'[binding.code] = 0
    /\ \A k \in Keys : session'[k] # NoSession => session[k] # NoSession
    /\ \A w \in Workers : worker'[w].key # NoKey => Works(worker'[w].key)
    /\ \A t \in retiring' : t \in retiring \/ Works(t.key)
    /\ \A e \in ending' : Works(e.key) \/ \E f \in ending : f.key = e.key
    /\ \A c \in Codes : registry'[c] # 0 =>
        registry'[c] = registry[c] /\ session'[Key(c, registry[c])] # NoSession
    /\ \A k \in Keys : results'[k] # NoResult =>
        results[k] # NoResult \/ (row'[k.code].generation = k.generation /\ row'[k.code].retired)

\* Rows, generations and keys in the ranges that arithmetic needs.
LEMMA Ranges ==
    ASSUME Typed
    PROVE  /\ \A c \in Codes : /\ row[c].generation \in 0..MaxGames /\ row[c].revision \in Nat
                               /\ row[c].retired \in BOOLEAN /\ high_water[c] \in 0..MaxGames
                               /\ registry[c] \in 0..MaxGames
           /\ \A k \in Keys : k.generation \in 1..MaxGames /\ k.code \in Codes
           /\ MaxGames \in Nat
<1>1. \A c \in Codes : row[c] \in RowType
  BY DEF Typed, DbType
<1>2. Revisions \subseteq Nat
  BY PersistenceConstants DEF Revisions
<1> QED BY <1>1, <1>2, KeyFacts, PersistenceConstants DEF Typed, DbType, MemoryType, RowType

\* A step of that shape keeps every fence.
LEMMA NarrowingKeepsFences ==
    ASSUME Typed, Typed', Fenced, RowsAdvance, Narrows
    PROVE  Fenced'
<1> USE Ranges
<1>1. TopRows'
  BY DEF Fenced, TopRows, RowsAdvance, RowAdvances
<1>2. \A k \in Keys : Works(k) => Known(k) /\ Superseded(k)
  BY KeyFacts DEF Fenced, AllKnown, WritersFenced, Works
<1>3. \A k \in Keys : Known(k) => Known(k)'
  BY KeyFacts DEF Known, Narrows, RowsAdvance
<1>4. \A k \in Keys : Superseded(k) => Superseded(k)'
  BY DEF Superseded, RowsAdvance, RowAdvances
<1>5. Bound'
  <2> SUFFICES ASSUME binding' # NoKey PROVE Bound'
    BY DEF Bound
  <2>1. binding' = binding /\ binding \in Keys
    BY DEF Narrows, Typed, MemoryType
  <2>2. row'[binding.code] = row[binding.code]
    BY <2>1 DEF RowsAdvance, RowAdvances
  <2> QED BY <2>1, <2>2 DEF Bound, Fenced, Narrows, RowsAdvance
<1>6. \A w \in Workers : worker'[w].key # NoKey => worker'[w].key \in Keys
  BY DEF Typed, SaveType, WorkerType
<1>7. AllKnown'
  <2>1. \A k \in Keys : session'[k] # NoSession => Known(k)'
    BY <1>2, <1>3 DEF Narrows, Works
  <2>2. \A w \in Workers, k \in Keys : worker'[w].key = k => Known(k)'
    BY <1>2, <1>3, KeyFacts DEF Narrows
  <2>3. \A t \in retiring' : t.key \in Keys /\ \A k \in Keys : t.key = k => Known(k)'
    BY <1>2, <1>3 DEF Narrows, Fenced, AllKnown, Typed, MemoryType, RetiringType
  <2>4. \A e \in ending' : e.key \in Keys /\ \A k \in Keys : e.key = k => Known(k)'
    BY <1>2, <1>3 DEF Narrows, Fenced, AllKnown, Typed, MemoryType, EndingType
  <2> QED BY <1>6, <2>1, <2>2, <2>3, <2>4 DEF AllKnown, Known
<1>8. WritersFenced'
  <2>1. \A k \in Keys : session'[k] # NoSession => Superseded(k)'
    BY <1>2, <1>4 DEF Narrows, Works
  <2>2. \A w \in Workers, k \in Keys : worker'[w].key = k => Superseded(k)'
    BY <1>2, <1>4, KeyFacts DEF Narrows
  <2> QED BY <1>6, <2>1, <2>2 DEF WritersFenced, Superseded
<1>9. LiveRegistered'
  BY DEF LiveRegistered, Fenced, Narrows, RowsAdvance
<1>10. EndedBuried'
  <2> SUFFICES ASSUME NEW k \in Keys, results'[k] # NoResult
               PROVE  \/ k.generation < high_water'[k.code]
                      \/ row'[k.code].generation = k.generation /\ row'[k.code].retired
    BY DEF EndedBuried
  <2>1. CASE results[k] # NoResult
    BY <2>1 DEF Fenced, EndedBuried, TopRows, RowsAdvance, RowAdvances
  <2> QED BY <2>1 DEF Narrows
<1>11. StaleAlone'
  <2>1. \A k \in Keys : Works(k)' => Works(k)
    BY KeyFacts DEF Works, Narrows
  <2>2. \A c \in Codes : row'[c].stale => row'[c] = row[c]
    BY DEF RowsAdvance, RowAdvances
  <2> QED BY <2>1, <2>2 DEF StaleAlone, Fenced, RowsAdvance
<1> QED BY <1>1, <1>5, <1>7, <1>8, <1>9, <1>10, <1>11 DEF Fenced

\* The fence of the upsert: a save by a game that is known advances the rows.
LEMMA SaveAdvances ==
    ASSUME Typed, TopRows, Bound, NEW k \in Keys, NEW s \in SessionType,
           Known(k), Superseded(k), Save(k, s)
    PROVE  RowsAdvance
<1> USE Ranges
<1>1. high_water' = high_water
  BY DEF Save
<1>2. CASE ~Saves(k, s)
  BY <1>1, <1>2 DEF Save, RowsAdvance
<1>3. CASE Saves(k, s)
  <2>1. \A c \in Codes : c # k.code => row'[c] = row[c]
    BY <1>3 DEF Save, Typed, DbType
  <2>2. /\ row'[k.code].generation = k.generation /\ row'[k.code].revision = s.revision
        /\ ~row'[k.code].retired /\ row'[k.code].stale = FALSE
    BY <1>3 DEF Save, RowOf, NoRow, Typed, DbType
  <2>3. s.revision \in Nat
    BY PersistenceConstants DEF SessionType, Revisions
  <2>4. k.generation = high_water[k.code]
    BY <1>3 DEF Saves, Newer, Known, Superseded, TopRows
  <2>5. binding # NoKey => k.code # binding.code
    BY <2>4, KeyFacts DEF Bound, Known, Typed, MemoryType
  <2>6. RowAdvances(k.code)
    BY <1>3, <2>2, <2>3, <2>4, <2>5 DEF Saves, Newer, RowAdvances
  <2> QED BY <1>1, <2>1, <2>6 DEF RowsAdvance
<1> QED BY <1>2, <1>3

\* A tombstone over the row of a known game advances the rows.
LEMMA BurialAdvances ==
    ASSUME Typed, TopRows, Bound, NEW k \in Keys, Known(k), ActiveRow(k),
           row' = [row EXCEPT ![k.code] = Tombstone(k)], high_water' = high_water
    PROVE  RowsAdvance /\ row'[k.code].generation = k.generation /\ row'[k.code].retired
<1> USE Ranges
<1>1. \A c \in Codes : c # k.code => row'[c] = row[c]
  BY DEF Typed, DbType
<1>2. row'[k.code].generation = k.generation /\ row'[k.code].retired /\ row'[k.code].stale = FALSE
  BY DEF Tombstone, NoRow, Typed, DbType
<1>3. k.generation = high_water[k.code]
  BY DEF ActiveRow, TopRows
<1>4. binding # NoKey => k.code # binding.code
  BY <1>3, KeyFacts DEF Bound, Known, Typed, MemoryType
<1>5. RowAdvances(k.code)
  BY <1>2, <1>3, <1>4 DEF RowAdvances
<1> QED BY <1>1, <1>2, <1>5 DEF RowsAdvance

\* Workers stay with their games, rest, or start for a game that is there.
LEMMA WorkersKept ==
    ASSUME NEW k, k = NoKey \/ Works(k),
           \A v \in Workers : worker'[v].key \in {worker[v].key, NoKey, k}
    PROVE  \A w \in Workers : worker'[w].key # NoKey => Works(worker'[w].key)
BY DEF Works

\* A step that leaves the registry, the sessions and the binding alone narrows
\* memory when the workers, retirements and terminals are of games already there.
LEMMA StillNarrows ==
    ASSUME Typed, Fenced, UNCHANGED <<phase, registry, session, binding>>,
           \A w \in Workers : worker'[w].key # NoKey => Works(worker'[w].key),
           \A t \in retiring' : t \in retiring \/ Works(t.key),
           \A e \in ending' : Works(e.key) \/ \E f \in ending : f.key = e.key,
           \A k \in Keys : results'[k] # NoResult =>
             results[k] # NoResult \/ (row'[k.code].generation = k.generation /\ row'[k.code].retired)
    PROVE  Narrows
<1>1. binding' # NoKey => phase' = "up" /\ registry'[binding.code] = 0
  BY DEF Fenced, Bound
<1>2. \A c \in Codes : registry'[c] # 0 =>
        registry'[c] = registry[c] /\ session'[Key(c, registry[c])] # NoSession
  BY DEF Fenced, LiveRegistered
<1> QED BY <1>1, <1>2 DEF Narrows

\* A worker goes on with its key or comes to rest.
LEMMA WorkersRest ==
    ASSUME Typed, NEW w \in Workers, Exit(w) \/ FinishIfIdle(w)
    PROVE  \A v \in Workers : worker'[v].key \in {worker[v].key, NoKey}
<1>1. CASE Exit(w)
  BY <1>1 DEF Exit, Resting, Typed, SaveType
<1>2. CASE ~Exit(w)
  BY <1>2 DEF FinishIfIdle, Typed, SaveType, WorkerType
<1> QED BY <1>1, <1>2

\* Worker steps keep the fences; the write is a save of a known game.
LEMMA WorkerStepNarrows ==
    ASSUME Typed, Fenced, NEW w \in Workers, WorkerStep(w)
    PROVE  RowsAdvance /\ Narrows
<1>1. \A v \in Workers : worker'[v].key \in {worker[v].key, NoKey}
  <2>1. CASE Capture(w) /\ ~Exit(w)
    BY <2>1 DEF Capture, Typed, SaveType, WorkerType
  <2>2. CASE Exit(w) \/ FinishIfIdle(w)
    BY <2>2, WorkersRest
  <2> QED BY <2>1, <2>2 DEF WorkerStep, Write, Cancelled, SaveFails
<1>2. UNCHANGED <<phase, registry, session, binding, retiring, ending, results>>
  BY DEF WorkerStep, Capture, Write, Cancelled, SaveFails, process, memory, db, Save
<1>3. Narrows
  BY <1>1, <1>2, StillNarrows DEF Works
<1>4. RowsAdvance
  <2>1. CASE Write(w)
    <3>1. worker[w].key \in Keys /\ worker[w].taken \in SessionType
      BY <2>1 DEF Write, Typed, SaveType, WorkerType
    <3>2. Known(worker[w].key) /\ Superseded(worker[w].key)
      BY <3>1, KeyFacts DEF Fenced, AllKnown, WritersFenced
    <3> QED BY <2>1, <3>1, <3>2, SaveAdvances DEF Write, Fenced
  <2> QED BY <2>1 DEF WorkerStep, Capture, Cancelled, SaveFails, db, RowsAdvance
<1> QED BY <1>3, <1>4

\* A request puts a worker at work for its game only.
LEMMA RequestNarrows ==
    ASSUME Typed, NEW k \in Keys, NEW s, Request(k, s)
    PROVE  \A v \in Workers : worker'[v].key \in {worker[v].key, k}
<1>1. CASE UNCHANGED saves
  BY <1>1 DEF saves
<1>2. CASE pending[k] # NoWorker /\ worker' = [worker EXCEPT ![pending[k]].asked = TRUE]
  BY <1>2 DEF Typed, SaveType, WorkerType
<1>3. ASSUME NEW w \in Workers,
             worker' = [worker EXCEPT ![w] = [Resting EXCEPT !.key = k, !.step = "lease", !.asked = TRUE]]
      PROVE  \A v \in Workers : worker'[v].key \in {worker[v].key, k}
  BY <1>3 DEF Typed, SaveType, Resting
<1> QED BY <1>1, <1>2, <1>3 DEF Request

\* What leaves the registry is one code, whose session stays or goes with it.
LEMMA UnregisterNarrows ==
    ASSUME Typed, Fenced, NEW c \in Codes, Unregister(c)
    PROVE  /\ \A d \in Codes : registry'[d] \in {registry[d], 0}
           /\ \A k \in Keys : session'[k] # NoSession => session[k] # NoSession
           /\ \A d \in Codes : registry'[d] # 0 =>
                registry'[d] = registry[d] /\ session'[Key(d, registry[d])] # NoSession
<1>1. \A d \in Codes : registry'[d] = IF d = c THEN 0 ELSE registry[d]
  BY DEF Unregister, Typed, MemoryType
<1>2. \A k \in Keys : k.code # c => session'[k] = session[k]
  BY DEF Unregister
<1>3. \A d \in Codes : registry[d] # 0 => Key(d, registry[d]) \in Keys /\ Key(d, registry[d]).code = d
  BY KeyFacts, Ranges
<1>4. \A k \in Keys : session'[k] # NoSession => session[k] # NoSession
  BY DEF Unregister
<1> QED BY <1>1, <1>2, <1>3, <1>4 DEF Fenced, LiveRegistered

\* Play keeps the fences.
LEMMA PlayNarrows ==
    ASSUME Typed, Fenced, NEW k \in Keys,
           \/ \E stage \in Stages, asks \in BOOLEAN : Mutate(k, stage, asks)
           \/ Ask(k) \/ GameOver(k) \/ Abandon(k) \/ Forfeit(k) \/ Dissolve(k) \/ Drop(k) \/ Flush(k)
    PROVE  RowsAdvance /\ Narrows
<1>1. CASE Flush(k)
  <2>1. session[k] # NoSession /\ session[k] \in SessionType
    BY <1>1, Ranges, KeyFacts DEF Flush, Registered, Fenced, LiveRegistered, Typed, MemoryType
  <2>2. RowsAdvance
    BY <1>1, <2>1, SaveAdvances DEF Flush, Fenced, AllKnown, WritersFenced
  <2>3. Narrows
    BY <1>1, StillNarrows DEF Flush, process, saves, memory, Works, Save
  <2> QED BY <2>2, <2>3
<1>2. CASE ~Flush(k)
  <2>1. RowsAdvance
    BY <1>2 DEF Mutate, Ask, GameOver, Abandon, Forfeit, Dissolve, Drop, db, RowsAdvance
  <2>2. CASE Drop(k)
    <3>1. \A j \in Keys : session'[j] # NoSession => session[j] # NoSession /\ ~(j = k)
      BY <2>2 DEF Drop, Typed, MemoryType
    <3>2. \A c \in Codes : registry[c] # 0 => Key(c, registry[c]) \in Keys /\ Key(c, registry[c]) # k
      BY <2>2, KeyFacts, Ranges DEF Drop, Registered
    <3>3. \A j \in Keys : j # k => session'[j] = session[j]
      BY <2>2 DEF Drop, Typed, MemoryType
    <3>4. \A c \in Codes : registry'[c] # 0 =>
            registry'[c] = registry[c] /\ session'[Key(c, registry[c])] # NoSession
      BY <2>2, <3>2, <3>3 DEF Drop, Fenced, LiveRegistered
    <3>5. UNCHANGED <<phase, registry, worker, binding, retiring, ending, results>>
      BY <2>2 DEF Drop, process, db, saves
    <3>6. \A w \in Workers : worker'[w].key # NoKey => Works(worker'[w].key)
      BY <3>5, WorkersKept
    <3> QED BY <2>1, <3>1, <3>4, <3>5, <3>6 DEF Narrows, Fenced, Bound
  <2>3. CASE Dissolve(k)
    <3>1. Unregister(k.code) /\ binding = NoKey /\ binding' = NoKey /\ session[k] # NoSession
      BY <2>3 DEF Dissolve, Playing
    <3>2. \A t \in retiring' : t \in retiring \/ Works(t.key)
      BY <2>3, <3>1 DEF Dissolve, Works
    <3>3. UNCHANGED <<phase, worker, ending, results>>
      BY <2>3 DEF Dissolve, process, db, saves
    <3>4. \A w \in Workers : worker'[w].key # NoKey => Works(worker'[w].key)
      BY <3>3, WorkersKept
    <3> QED BY <2>1, <3>1, <3>2, <3>3, <3>4, UnregisterNarrows, KeyFacts DEF Narrows
  <2>4. CASE Ask(k) \/ Abandon(k) \/ Forfeit(k)
    <3>1. \A v \in Workers : worker'[v].key \in {worker[v].key, k}
      BY <2>4, RequestNarrows DEF Ask, Abandon, Forfeit, saves
    <3>2. session[k] # NoSession
      BY <2>4 DEF Ask, Abandon, Forfeit, Playing
    <3>3. \A e \in ending' : e \in ending \/ e.key = k
      BY <2>4 DEF Ask, Abandon, Forfeit, End, memory
    <3>4. UNCHANGED <<phase, registry, session, binding, retiring, results>>
      BY <2>4 DEF Ask, Abandon, Forfeit, memory, process, db
    <3>5. Works(k)
      BY <3>2 DEF Works
    <3>6. \A w \in Workers : worker'[w].key # NoKey => Works(worker'[w].key)
      BY <3>1, <3>5, WorkersKept
    <3>7. \A e \in ending' : Works(e.key) \/ \E f \in ending : f.key = e.key
      BY <3>3, <3>5
    <3> QED BY <2>1, <3>4, <3>6, <3>7, StillNarrows
  <2>5. ASSUME \/ \E stage \in Stages, asks \in BOOLEAN : Mutate(k, stage, asks)
               \/ GameOver(k)
        PROVE  Narrows
    <3>1. \A v \in Workers : worker'[v].key \in {worker[v].key, k}
      BY <2>5, RequestNarrows DEF Mutate, GameOver, saves
    <3>2. session[k] # NoSession /\ \A j \in Keys : j # k => session'[j] = session[j]
      BY <2>5 DEF Mutate, GameOver, Playing, Typed, MemoryType
    <3>3. session'[k].stage \in Stages
      BY <2>5 DEF Mutate, GameOver, Typed, MemoryType, SessionType, Stages
    <3>4. session'[k] # NoSession
      BY <3>3 DEF Stages, NoSession
    <3>5. \A e \in ending' : e \in ending \/ e.key = k
      BY <2>5 DEF Mutate, GameOver, End
    <3>6. UNCHANGED <<phase, registry, binding, retiring, results>>
      BY <2>5 DEF Mutate, GameOver, process, db
    <3>7. \A c \in Codes : registry'[c] # 0 =>
            registry'[c] = registry[c] /\ session'[Key(c, registry[c])] # NoSession
      BY <3>2, <3>4, <3>6, KeyFacts, Ranges DEF Fenced, LiveRegistered
    <3> QED BY <3>1, <3>2, <3>4, <3>5, <3>6, <3>7 DEF Narrows, Works, Fenced, Bound
  <2> QED BY <1>2, <2>1, <2>2, <2>3, <2>4, <2>5
<1> QED BY <1>1, <1>2

\* Retirements keep the fences: what they bury is the row of a known game.
LEMMA RetireNarrows ==
    ASSUME Typed, Fenced, NEW t \in retiring, RetireUnstarted(t) \/ RetireFails(t)
    PROVE  RowsAdvance /\ Narrows
<1>1. UNCHANGED <<phase, registry, session, binding, worker, ending, results, high_water>> /\ retiring' \subseteq retiring
  BY DEF RetireUnstarted, RetireFails, process, db, saves
<1>2. Narrows
  BY <1>1, StillNarrows DEF Works
<1>3. t.key \in Keys /\ Known(t.key)
  BY DEF Typed, MemoryType, RetiringType, Fenced, AllKnown
<1>4. RowsAdvance
  <2>1. CASE row' = row
    BY <1>1, <2>1 DEF RowsAdvance
  <2>2. CASE row' # row
    <3>1. ActiveRow(t.key) /\ row' = [row EXCEPT ![t.key.code] = Tombstone(t.key)]
      BY <2>2 DEF RetireUnstarted, RetireFails, Retirable, db
    <3> QED BY <1>1, <1>3, <3>1, BurialAdvances DEF Fenced
  <2> QED BY <2>1, <2>2
<1> QED BY <1>2, <1>4

\* The transaction of a terminal writes a result only with its tombstone.
LEMMA RecordNarrows ==
    ASSUME Typed, Fenced, NEW e \in EndingType, Known(e.key), Prepared(e) \/ Preparable(e), Record(e),
           high_water' = high_water
    PROVE  /\ RowsAdvance
           /\ \A k \in Keys : results'[k] # NoResult =>
                results[k] # NoResult \/ (row'[k.code].generation = k.generation /\ row'[k.code].retired)
           /\ \A k \in Keys : results[k] # NoResult => results'[k] = results[k]
<1>1. e.key \in Keys
  BY DEF EndingType
<1>2. CASE Prepared(e)
  BY <1>2 DEF Record, RowsAdvance
<1>3. CASE ~Prepared(e)
  <2>1. ActiveRow(e.key) /\ results[e.key] = NoResult
    BY <1>3 DEF Preparable
  <2>2. row' = [row EXCEPT ![e.key.code] = Tombstone(e.key)]
    BY <1>3 DEF Record
  <2>3. \A k \in Keys : k # e.key => results'[k] = results[k]
    BY <1>3 DEF Record, Typed, DbType
  <2>4. RowsAdvance /\ row'[e.key.code].generation = e.key.generation /\ row'[e.key.code].retired
    BY <1>1, <2>1, <2>2, BurialAdvances DEF Fenced
  <2> QED BY <2>1, <2>3, <2>4
<1> QED BY <1>2, <1>3

\* Terminals keep the fences.
LEMMA TerminalNarrows ==
    ASSUME Typed, Fenced, NEW e \in ending, TerminalStep(e)
    PROVE  RowsAdvance /\ Narrows
<1>1. e \in EndingType /\ e.key \in Keys /\ Known(e.key)
  BY DEF Typed, MemoryType, EndingType, Fenced, AllKnown
<1>2. \A f \in ending' : \E g \in ending : g.key = f.key
  <2>1. [e EXCEPT !.step = "remove"].key = e.key
    BY <1>1 DEF EndingType
  <2> QED BY <2>1 DEF TerminalStep, Commit, CommitRefused, CommitFails, DeliveriesUnread, RemoveEnded, GiveUp, TryAgain
<1>3. CASE RemoveEnded(e)
  <2>1. Unregister(e.key.code) /\ binding = NoKey /\ binding' = NoKey
    BY <1>3 DEF RemoveEnded
  <2>2. Narrows
    BY <1>1, <1>2, <1>3, <2>1, UnregisterNarrows, KeyFacts DEF RemoveEnded, Narrows, process, db, saves, Works
  <2> QED BY <1>3, <2>2 DEF RemoveEnded, RowsAdvance, db
<1>4. CASE CommitRefused(e) \/ CommitFails(e)
  <2>1. UNCHANGED <<phase, registry, session, binding, retiring, worker, row, high_water, results>>
    BY <1>4 DEF CommitRefused, CommitFails, process, db, saves
  <2>2. Narrows
    BY <1>2, <2>1, StillNarrows DEF Works
  <2> QED BY <2>1, <2>2 DEF RowsAdvance
<1>5. CASE Commit(e) \/ DeliveriesUnread(e)
  <2>1. UNCHANGED <<phase, registry, session, binding, retiring, worker, high_water>>
    BY <1>5 DEF Commit, DeliveriesUnread, process
  <2>2. Record(e) /\ (Prepared(e) \/ Preparable(e))
    BY <1>5 DEF Commit, DeliveriesUnread
  <2>3. Narrows
    BY <1>1, <1>2, <2>1, <2>2, RecordNarrows, StillNarrows DEF Works
  <2> QED BY <1>1, <2>1, <2>2, <2>3, RecordNarrows
<1> QED BY <1>3, <1>4, <1>5 DEF TerminalStep

\* So do a failed initialization, a failed restore, the shutdown and a crash.
LEMMA CrashNarrows ==
    ASSUME Typed, Fenced, InitializeFails \/ (\E c \in Codes : RestoreFails(c)) \/ Shutdown \/ Crash
    PROVE  RowsAdvance /\ Narrows
<1>1. RowsAdvance
  BY DEF InitializeFails, RestoreFails, Shutdown, Crash, db, RowsAdvance
<1>2. CASE InitializeFails
  <2>1. UNCHANGED <<phase, registry, session, worker, retiring, ending, results>> /\ binding' = NoKey
    BY <1>2 DEF InitializeFails, process, db, saves
  <2>2. \A w \in Workers : worker'[w].key # NoKey => Works(worker'[w].key)
    BY <2>1, WorkersKept
  <2> QED BY <1>1, <2>1, <2>2 DEF Narrows, Fenced, LiveRegistered
<1>3. CASE (\E c \in Codes : RestoreFails(c)) \/ Shutdown
  <2>1. binding = NoKey
    BY <1>3 DEF RestoreFails, Shutdown, Fenced, Bound
  <2>2. UNCHANGED <<registry, session, worker, binding, retiring, ending, results>>
    BY <1>3 DEF RestoreFails, Shutdown, db, saves, memory
  <2>3. \A w \in Workers : worker'[w].key # NoKey => Works(worker'[w].key)
    BY <2>2, WorkersKept
  <2> QED BY <1>1, <2>1, <2>2, <2>3 DEF Narrows, Fenced, LiveRegistered
<1>4. CASE Crash
  <2>1. \A w \in Workers : worker'[w].key = NoKey
    BY <1>4 DEF Crash, Resting
  <2> QED BY <1>1, <1>4, <2>1 DEF Crash, Narrows, db
<1> QED BY <1>1, <1>2, <1>3, <1>4

-----------------------------------------------------------------------------
(* The steps that create, restore and delete games. *)

\* What TombstoneHolds, NeverOlder and EndedStaysEnded say of one step.
RowsHold ==
    \A c \in Codes :
        /\ row[c].retired => row'[c].retired \/ row'[c].generation > row[c].generation
        /\ row'[c].generation = row[c].generation /\ ~row'[c].retired /\ row[c].stage # "none"
             => row'[c].revision >= row[c].revision
ResultsHold == \A k \in Keys : results[k] # NoResult => results'[k] = results[k]

\* Rows that advance hold.
LEMMA AdvancingHolds ==
    ASSUME Typed, TopRows, RowsAdvance
    PROVE  RowsHold
BY Ranges DEF TopRows, RowsAdvance, RowAdvances, RowsHold, NoRow

\* A new key supersedes every other of its code.
LEMMA BindFenced ==
    ASSUME Typed, Typed', Fenced, NEW c \in Codes, BindKey(c)
    PROVE  Fenced' /\ RowsHold /\ ResultsHold
<1> DEFINE k == Key(c, NextGeneration(c))
<1>1. NextGeneration(c) \in 1..MaxGames /\ NextGeneration(c) = high_water[c] + 1
  BY GenerationsBounded DEF BindKey, Typed, NextGeneration
<1>2. k \in Keys /\ k.code = c /\ k.generation = high_water[c] + 1
  BY <1>1, KeyFacts
<1>3. /\ phase = "up" /\ registry[c] = 0 /\ (row[c] = NoRow \/ row[c].retired)
      /\ high_water' = [high_water EXCEPT ![c] = k.generation]
      /\ row' = [row EXCEPT ![c] = [NoRow EXCEPT !.generation = k.generation]]
      /\ binding' = k
      /\ UNCHANGED <<phase, results, worker, registry, session, retiring, ending>>
  BY DEF BindKey, process, saves
<1> HIDE DEF k
<1>4. /\ high_water'[c] = high_water[c] + 1 /\ \A d \in Codes : d # c => high_water'[d] = high_water[d]
      /\ row'[c] = [NoRow EXCEPT !.generation = k.generation] /\ \A d \in Codes : d # c => row'[d] = row[d]
  BY <1>2, <1>3 DEF Typed, DbType
<1>5. row'[c].generation = high_water[c] + 1 /\ row'[c].retired = FALSE /\ row'[c].stale = FALSE
  BY <1>2, <1>4 DEF NoRow
<1>6. \A j \in Keys : Known(j) => Known(j)'
  BY <1>2, <1>3, <1>4, Ranges DEF Known
<1>7. \A j \in Keys : Superseded(j) => Superseded(j)'
  BY <1>4, <1>5, KeyFacts DEF Superseded
<1>8. TopRows'
  <2>1. row'[c].generation \in {0, high_water'[c]} /\ row'[c].generation # 0
    BY <1>4, <1>5, Ranges
  <2>2. \A d \in Codes : d # c => /\ row'[d].generation \in {0, high_water'[d]}
                                  /\ row'[d].generation = 0 => row'[d] = NoRow
    BY <1>4 DEF Fenced, TopRows
  <2> QED BY <2>1, <2>2 DEF TopRows
<1>9. Bound'
  BY <1>2, <1>3, <1>4 DEF Bound
<1>10. AllKnown' /\ WritersFenced'
  <2>1. \A w \in Workers : worker[w].key # NoKey => worker[w].key \in Keys
    BY DEF Typed, SaveType, WorkerType
  <2>2. (\A t \in retiring : t.key \in Keys) /\ (\A e \in ending : e.key \in Keys)
    BY DEF Typed, MemoryType, RetiringType, EndingType
  <2>3. AllKnown'
    BY <1>3, <1>6, <2>1, <2>2 DEF Fenced, AllKnown, Known
  <2>4. WritersFenced'
    BY <1>3, <1>7, <2>1 DEF Fenced, WritersFenced, Superseded
  <2> QED BY <2>3, <2>4
<1>11. LiveRegistered'
  BY <1>3, <1>4 DEF Fenced, LiveRegistered
<1>12. EndedBuried'
  <2> SUFFICES ASSUME NEW j \in Keys, results[j] # NoResult
               PROVE  \/ j.generation < high_water'[j.code]
                      \/ row'[j.code].generation = j.generation /\ row'[j.code].retired
    BY <1>3 DEF EndedBuried
  <2>1. CASE j.code = c
    BY <1>4, <2>1, Ranges DEF Fenced, EndedBuried, TopRows
  <2>2. CASE j.code # c
    BY <1>4, <2>2, Ranges DEF Fenced, EndedBuried
  <2> QED BY <2>1, <2>2
<1>13. RowsHold
  <2>1. row'[c].generation > row[c].generation
    BY <1>5, Ranges DEF Fenced, TopRows
  <2>2. row'[c].generation # row[c].generation
    BY <1>5, Ranges DEF Fenced, TopRows
  <2>3. \A d \in Codes : d # c => row'[d] = row[d] /\ row[d].revision >= row[d].revision
    BY <1>4, Ranges
  <2> QED BY <2>1, <2>2, <2>3 DEF RowsHold
<1>14. StaleAlone'
  <2>1. \A j \in Keys : Works(j)' => Works(j)
    BY <1>3 DEF Works
  <2> QED BY <1>4, <1>5, <2>1 DEF StaleAlone, Fenced
<1> QED BY <1>3, <1>8, <1>9, <1>10, <1>11, <1>12, <1>13, <1>14 DEF Fenced, ResultsHold

\* An initialized game takes the row that waited for it; a game that it
\* replaces is buried.
LEMMA InitializeShape ==
    ASSUME Typed, Fenced, NEW stage \in {"waiting", "started"}, Initialize(stage)
    PROVE  /\ binding \in Keys /\ binding' = NoKey
           /\ UNCHANGED <<phase, boot, retention, high_water, results, worker, retiring, ending>>
           /\ row'[binding.code].generation = binding.generation /\ row'[binding.code].revision = 0
           /\ row'[binding.code].retired = FALSE /\ row'[binding.code].stage = stage
           /\ row'[binding.code].stale = FALSE
           /\ \A c \in Codes : c # binding.code =>
                \/ row'[c] = row[c]
                \/ /\ row'[c].generation = row[c].generation /\ row'[c].retired
                   /\ row[c].generation # 0 /\ row'[c].stale = FALSE
           /\ session'[binding].revision = 0 /\ session'[binding].stage = stage
           /\ \A k \in Keys : k # binding => session'[k] = session[k]
           /\ registry' = [registry EXCEPT ![binding.code] = binding.generation]
           /\ \/ retention = "SingleUser" /\ active'.key = binding
              \/ retention # "SingleUser" /\ \A c \in Codes : c # binding.code => row'[c] = row[c]
<1> DEFINE s == [revision |-> 0, stage |-> stage, epoch |-> NoEpoch]
<1>1. binding \in Keys /\ binding.code \in Codes
  BY KeyFacts DEF Initialize, Typed, MemoryType
<1>2. /\ binding' = NoKey /\ UNCHANGED <<phase, boot, retention, retiring, ending>>
      /\ registry' = [registry EXCEPT ![binding.code] = binding.generation]
  BY DEF Initialize, process
<1>3. \/ retention = "SingleUser" /\ Activate(binding, s)
      \/ /\ retention # "SingleUser" /\ FirstSave(binding, s)
         /\ session' = [session EXCEPT ![binding] = s] /\ UNCHANGED saves
  BY DEF Initialize
<1>4. s.revision = 0 /\ s.stage = stage
  OBVIOUS
<1> HIDE DEF s
<1>5. CASE retention = "SingleUser" /\ Activate(binding, s)
  <2> DEFINE epoch == active.epoch + 1
             replaced == [c \in Codes |-> IF active.key # NoKey /\ active.key.code = c /\ ActiveRow(active.key)
                                          THEN Tombstone(active.key) ELSE row[c]]
  <2>1. /\ row' = [replaced EXCEPT ![binding.code] = RowOf(binding, s, epoch)]
        /\ session' = [session EXCEPT ![binding] = [s EXCEPT !.epoch = epoch]]
        /\ active' = [key |-> binding, epoch |-> epoch]
        /\ UNCHANGED <<high_water, results, worker>>
    BY <1>5 DEF Activate
  <2>2. \A c \in Codes : replaced[c] = row[c]
                         \/ (/\ replaced[c].generation = row[c].generation /\ replaced[c].retired
                             /\ row[c].generation # 0 /\ replaced[c].stale = FALSE)
    BY Ranges DEF Tombstone, NoRow, ActiveRow, Typed, DbType
  <2>3. replaced \in [Codes -> {replaced[c] : c \in Codes}]
    OBVIOUS
  <2> HIDE DEF epoch, replaced
  <2>4. row'[binding.code] = RowOf(binding, s, epoch) /\ \A c \in Codes : c # binding.code => row'[c] = replaced[c]
    BY <1>1, <2>1, <2>3
  <2>5. /\ row'[binding.code].generation = binding.generation /\ row'[binding.code].revision = 0
        /\ row'[binding.code].retired = FALSE /\ row'[binding.code].stage = stage
        /\ row'[binding.code].stale = FALSE
    BY <1>4, <2>4 DEF RowOf, NoRow
  <2>6. session'[binding] = [s EXCEPT !.epoch = epoch] /\ \A k \in Keys : k # binding => session'[k] = session[k]
    BY <1>1, <2>1 DEF Typed, MemoryType
  <2>7. session'[binding].revision = 0 /\ session'[binding].stage = stage
    BY <2>6 DEF s
  <2>8. active'.key = binding
    BY <2>1
  <2> QED BY <1>1, <1>2, <1>5, <2>1, <2>2, <2>4, <2>5, <2>6, <2>7, <2>8
<1>6. CASE /\ retention # "SingleUser" /\ FirstSave(binding, s)
           /\ session' = [session EXCEPT ![binding] = s] /\ UNCHANGED saves
  <2>1. row' = [row EXCEPT ![binding.code] = RowOf(binding, s, s.epoch)] /\ UNCHANGED <<high_water, results, worker>>
    BY <1>6 DEF FirstSave, Save, saves
  <2>2. row'[binding.code] = RowOf(binding, s, s.epoch) /\ \A c \in Codes : c # binding.code => row'[c] = row[c]
    BY <1>1, <2>1 DEF Typed, DbType
  <2>3. /\ row'[binding.code].generation = binding.generation /\ row'[binding.code].revision = 0
        /\ row'[binding.code].retired = FALSE /\ row'[binding.code].stage = stage
        /\ row'[binding.code].stale = FALSE
    BY <1>4, <2>2 DEF RowOf, NoRow
  <2>4. session'[binding] = s /\ \A k \in Keys : k # binding => session'[k] = session[k]
    BY <1>1, <1>6 DEF Typed, MemoryType
  <2> QED BY <1>1, <1>2, <1>4, <1>6, <2>1, <2>2, <2>3, <2>4
<1> QED BY <1>3, <1>5, <1>6

\* So the fences hold after it.
LEMMA InitializeFenced ==
    ASSUME Typed, Typed', Fenced, NEW stage \in {"waiting", "started"}, Initialize(stage)
    PROVE  Fenced' /\ RowsHold /\ ResultsHold
<1>0. /\ binding \in Keys /\ binding' = NoKey
      /\ UNCHANGED <<phase, high_water, results, worker, retiring, ending>>
      /\ row'[binding.code].generation = binding.generation /\ row'[binding.code].stale = FALSE
      /\ \A c \in Codes : c # binding.code =>
           \/ row'[c] = row[c]
           \/ /\ row'[c].generation = row[c].generation /\ row'[c].retired
              /\ row[c].generation # 0 /\ row'[c].stale = FALSE
      /\ session'[binding].stage = stage
      /\ \A k \in Keys : k # binding => session'[k] = session[k]
      /\ registry' = [registry EXCEPT ![binding.code] = binding.generation]
  BY InitializeShape
<1>1. /\ binding.code \in Codes /\ binding.generation = high_water[binding.code]
      /\ row[binding.code] = [NoRow EXCEPT !.generation = binding.generation]
      /\ binding.generation # 0
  BY <1>0, KeyFacts, Ranges DEF Fenced, Bound
<1>2. row[binding.code].retired = FALSE /\ row[binding.code].stage = "none"
      /\ row[binding.code].generation = binding.generation
  BY <1>1 DEF NoRow
<1>3. \A c \in Codes : row'[c].generation = row[c].generation /\ (row[c].retired => row'[c].retired)
  BY <1>0, <1>1, <1>2
<1>4. TopRows'
  BY <1>0, <1>1, <1>2 DEF Fenced, TopRows
<1>5. Bound'
  BY <1>0 DEF Bound
<1>6. \A k \in Keys : /\ Known(k) => Known(k)'
                      /\ Superseded(k) => Superseded(k)'
  BY <1>0, <1>3, KeyFacts DEF Known, Superseded
<1>8. AllKnown' /\ WritersFenced'
  <2>1. \A w \in Workers : worker[w].key # NoKey => worker[w].key \in Keys
    BY DEF Typed, SaveType, WorkerType
  <2>2. (\A t \in retiring : t.key \in Keys) /\ (\A e \in ending : e.key \in Keys)
    BY DEF Typed, MemoryType, RetiringType, EndingType
  <2>3. \A k \in Keys : session'[k] # NoSession => Known(k)' /\ Superseded(k)'
    <3> SUFFICES ASSUME NEW k \in Keys, session'[k] # NoSession PROVE Known(k)' /\ Superseded(k)'
      OBVIOUS
    <3>1. CASE k = binding
      BY <1>0, <1>1, <3>1, KeyFacts, Ranges DEF Known, Superseded
    <3>2. CASE k # binding
      BY <1>0, <1>6, <3>2 DEF Fenced, AllKnown, WritersFenced
    <3> QED BY <3>1, <3>2
  <2>4. AllKnown'
    BY <1>0, <1>6, <2>1, <2>2, <2>3 DEF Fenced, AllKnown, Known
  <2>5. WritersFenced'
    BY <1>0, <1>6, <2>1, <2>3 DEF Fenced, WritersFenced, Superseded
  <2> QED BY <2>4, <2>5
<1>9. LiveRegistered'
  <2>1. session'[binding] # NoSession
    BY <1>0 DEF NoSession
  <2>2. \A c \in Codes : registry'[c] = IF c = binding.code THEN binding.generation ELSE registry[c]
    BY <1>0, <1>1 DEF Typed, MemoryType
  <2>3. Key(binding.code, binding.generation) = binding
    BY <1>0, KeyFacts
  <2>4. \A c \in Codes : c # binding.code /\ registry[c] # 0 =>
          Key(c, registry[c]) \in Keys /\ Key(c, registry[c]) # binding
    BY <1>0, KeyFacts, Ranges
  <2> QED BY <1>0, <1>1, <2>1, <2>2, <2>3, <2>4 DEF Fenced, LiveRegistered
<1>10. EndedBuried'
  BY <1>0, <1>3, KeyFacts DEF Fenced, EndedBuried
<1>11. RowsHold
  <2>1. \A c \in Codes : row[c].revision >= row[c].revision
    BY Ranges
  <2> QED BY <1>0, <1>2, <1>3, <2>1 DEF RowsHold
<1>12. StaleAlone'
  <2>1. \A c \in Codes : row'[c].stale => c # binding.code /\ row'[c] = row[c]
    BY <1>0
  <2>2. \A k \in Keys : k # binding => (Works(k)' => Works(k))
    BY <1>0 DEF Works
  <2> QED BY <1>0, <2>1, <2>2 DEF StaleAlone, Fenced
<1> QED BY <1>0, <1>4, <1>5, <1>8, <1>9, <1>10, <1>11, <1>12 DEF Fenced, ResultsHold

\* A row that ages stays the row it is.
LEMMA AgeFenced ==
    ASSUME Typed, Typed', Fenced, NEW c \in Codes, RowAges(c)
    PROVE  Fenced' /\ RowsHold /\ ResultsHold
<1>1. /\ row[c] # NoRow /\ ~row[c].retired /\ binding.code # c
      /\ row' = [row EXCEPT ![c].stale = TRUE]
      /\ UNCHANGED <<high_water, results, phase, worker, registry, session, binding, retiring, ending>>
  BY DEF RowAges, process, saves, memory
<1>2. \A k \in Keys : k.code = c /\ Works(k) => k.generation = row[c].generation
  BY DEF RowAges, Held, Works
<1>3. /\ row'[c].generation = row[c].generation /\ row'[c].revision = row[c].revision
      /\ row'[c].retired = row[c].retired /\ row'[c].stage = row[c].stage
      /\ \A d \in Codes : d # c => row'[d] = row[d]
  BY <1>1 DEF Typed, DbType, RowType
<1>4. row[c].generation = high_water[c] /\ row[c].generation # 0
  BY <1>1 DEF Fenced, TopRows
<1>5. TopRows'
  BY <1>1, <1>3, <1>4 DEF Fenced, TopRows
<1>6. Bound' /\ AllKnown' /\ LiveRegistered'
  <2>1. Bound'
    BY <1>1, <1>3, KeyFacts DEF Fenced, Bound, Typed, MemoryType
  <2> QED BY <1>1, <2>1 DEF Fenced, AllKnown, Known, LiveRegistered
<1>7. \A d \in Codes : row'[d].generation = row[d].generation /\ row'[d].retired = row[d].retired
                       /\ row'[d].revision = row[d].revision
  BY <1>3
<1>8. WritersFenced'
  <2>1. \A w \in Workers : worker[w].key # NoKey => worker[w].key \in Keys
    BY DEF Typed, SaveType, WorkerType
  <2> QED BY <1>1, <1>7, <2>1, KeyFacts DEF Fenced, WritersFenced, Superseded
<1>9. EndedBuried'
  BY <1>1, <1>7, KeyFacts DEF Fenced, EndedBuried
<1>10. StaleAlone'
  <2>1. \A k \in Keys : Works(k)' => Works(k)
    BY <1>1 DEF Works
  <2> QED BY <1>1, <1>2, <1>3, <1>4, <2>1 DEF Fenced, StaleAlone
<1>11. RowsHold
  BY <1>7, Ranges DEF RowsHold
<1> QED BY <1>1, <1>5, <1>6, <1>8, <1>9, <1>10, <1>11 DEF Fenced, ResultsHold

\* The cleanup deletes a row whose code nothing but its own game still writes.
LEMMA DeleteFenced ==
    ASSUME Typed, Typed', Fenced, NEW c \in Codes, DeleteStale(c)
    PROVE  Fenced' /\ RowsHold /\ ResultsHold
<1>1. /\ row[c].stale /\ row' = [row EXCEPT ![c] = NoRow]
      /\ UNCHANGED <<high_water, results, phase, worker, registry, session, binding, retiring, ending>>
  BY DEF DeleteStale, process, saves, memory
<1>2. /\ ~row[c].retired
      /\ \A k \in Keys : k.code = c /\ Works(k) => k.generation = high_water[c]
  BY <1>1 DEF Fenced, StaleAlone
<1>3. row'[c] = NoRow /\ \A d \in Codes : d # c => row'[d] = row[d]
  BY <1>1 DEF Typed, DbType
<1>4. row[c] # NoRow /\ row[c].generation # 0 /\ NoRow.generation = 0 /\ NoRow.stale = FALSE
  <2>1. NoRow.generation = 0 /\ NoRow.stale = FALSE
    BY DEF NoRow
  <2> QED BY <1>1, <2>1 DEF Fenced, TopRows
<1>5. binding # NoKey => binding.code # c
  <2>1. \A g : [NoRow EXCEPT !.generation = g].stale = FALSE
    BY DEF NoRow
  <2> QED BY <1>1, <2>1 DEF Fenced, Bound
<1>6. TopRows' /\ Bound' /\ AllKnown' /\ LiveRegistered'
  <2>1. TopRows'
    BY <1>1, <1>3, <1>4 DEF Fenced, TopRows
  <2>2. Bound'
    BY <1>1, <1>3, <1>5, KeyFacts DEF Fenced, Bound, Typed, MemoryType
  <2> QED BY <1>1, <2>1, <2>2 DEF Fenced, AllKnown, Known, LiveRegistered
<1>7. WritersFenced'
  <2>1. \A k \in Keys : Works(k) => Superseded(k)'
    <3> SUFFICES ASSUME NEW k \in Keys, Works(k) PROVE Superseded(k)'
      OBVIOUS
    <3>1. CASE k.code = c
      BY <1>1, <1>2, <3>1, Ranges DEF Superseded
    <3>2. CASE k.code # c
      BY <1>1, <1>3, <3>2, KeyFacts DEF Fenced, WritersFenced, Superseded, Works
    <3> QED BY <3>1, <3>2
  <2>2. \A w \in Workers : worker[w].key # NoKey => worker[w].key \in Keys
    BY DEF Typed, SaveType, WorkerType
  <2>3. \A w \in Workers, k \in Keys : worker[w].key = k => Superseded(k)'
    BY <2>1 DEF Works
  <2> QED BY <1>1, <2>1, <2>2, <2>3 DEF WritersFenced, Superseded, Works
<1>8. EndedBuried'
  BY <1>1, <1>2, <1>3, KeyFacts DEF Fenced, EndedBuried
<1>9. StaleAlone'
  <2>1. \A k \in Keys : Works(k)' => Works(k)
    BY <1>1 DEF Works
  <2> QED BY <1>1, <1>3, <1>4, <2>1 DEF Fenced, StaleAlone
<1>10. RowsHold
  <2>1. row'[c].generation # row[c].generation
    BY <1>3, <1>4
  <2>2. \A d \in Codes : row[d].revision >= row[d].revision
    BY Ranges
  <2> QED BY <1>2, <1>3, <2>1, <2>2 DEF RowsHold
<1> QED BY <1>1, <1>6, <1>7, <1>8, <1>9, <1>10 DEF Fenced, ResultsHold

\* A restore registers the game of a row, which is the last of its code, or
\* buries it; it runs while nothing is being bound.
LEMMA RestoreFenced ==
    ASSUME Typed, Typed', Fenced, NEW c \in Codes, NEW resumed \in 0..1, Restore(c, resumed)
    PROVE  Fenced' /\ RowsHold /\ ResultsHold
<1>1. binding = NoKey /\ binding' = NoKey
  BY RestoreCases DEF Fenced, Bound
<1>2. UNCHANGED <<high_water, worker, retiring, ending>>
  BY RestoreCases DEF saves
<1>3. Readable(c) => /\ RestoredKey(c) \in Keys /\ RestoredKey(c).code = c
                     /\ RestoredKey(c).generation = row[c].generation /\ row[c].generation = high_water[c]
                     /\ row[c].generation # 0
  <2>1. Readable(c) => row[c] # NoRow
    BY DEF Readable
  <2>2. Readable(c) => row[c].generation = high_water[c] /\ row[c].generation # 0
    BY <2>1 DEF Fenced, TopRows
  <2>3. row[c].generation \in 0..MaxGames
    BY Ranges
  <2> QED BY <2>2, <2>3, KeyFacts, PersistenceConstants DEF RestoredKey
<1>4. CASE \/ UNCHANGED <<row, results, registry, session>>
           \/ /\ Readable(c) /\ UNCHANGED <<registry, session>> /\ resumed = 0
              /\ Prepared(RestoredEnd(c, resumed)) \/ Preparable(RestoredEnd(c, resumed))
              /\ Record(RestoredEnd(c, resumed))
  <2> DEFINE e == RestoredEnd(c, resumed)
  <2>1. /\ RowsAdvance /\ ResultsHold
        /\ \A k \in Keys : results'[k] # NoResult =>
                results[k] # NoResult \/ (row'[k.code].generation = k.generation /\ row'[k.code].retired)
    <3>1. CASE UNCHANGED <<row, results, registry, session>>
      BY <1>2, <3>1 DEF RowsAdvance, ResultsHold
    <3>2. CASE /\ Readable(c) /\ UNCHANGED <<registry, session>> /\ resumed = 0
               /\ Prepared(e) \/ Preparable(e)
               /\ Record(e)
      <4>1. e.key = RestoredKey(c)
        BY DEF RestoredEnd
      <4>2. e \in EndingType
        BY <3>2, RestoredTyped DEF Readable, Typed, Fenced
      <4>3. Known(e.key)
        BY <1>1, <1>3, <3>2, <4>1, KeyFacts, Ranges DEF Known
      <4> QED BY <1>2, <3>2, <4>2, <4>3, RecordNarrows DEF ResultsHold
    <3> QED BY <1>4, <3>1, <3>2
  <2>2. UNCHANGED <<registry, session>>
    BY <1>4
  <2>3. \A w \in Workers : worker'[w].key # NoKey => Works(worker'[w].key)
    BY <1>2, WorkersKept
  <2>4. Narrows
    BY <1>1, <1>2, <2>1, <2>2, <2>3 DEF Narrows, Fenced, LiveRegistered
  <2> QED BY <2>1, <2>4, NarrowingKeepsFences, AdvancingHolds DEF Fenced
<1>5. CASE /\ Readable(c) /\ UNCHANGED results
           /\ resumed = 0 \/ Saves(RestoredKey(c), RestoredSession(c, resumed))
           /\ row' = IF resumed = 1
                     THEN [row EXCEPT ![c] = RowOf(RestoredKey(c), RestoredSession(c, resumed), row[c].epoch)]
                     ELSE row
           /\ registry' = [registry EXCEPT ![c] = row[c].generation]
           /\ session' = [session EXCEPT ![RestoredKey(c)] = RestoredSession(c, resumed)]
  <2>1. \A d \in Codes : d # c => row'[d] = row[d]
    BY <1>5 DEF Typed, DbType
  <2>2. /\ row'[c].generation = row[c].generation /\ row'[c].retired = FALSE /\ row[c].retired = FALSE
        /\ row'[c].revision >= row[c].revision
    <3>1. CASE resumed = 0
      BY <1>5, <3>1, Ranges DEF Readable
    <3>2. CASE resumed = 1
      <4>1. row'[c] = RowOf(RestoredKey(c), RestoredSession(c, resumed), row[c].epoch)
        BY <1>5, <3>2 DEF Typed, DbType
      <4>2. row'[c].generation = row[c].generation /\ row'[c].retired = FALSE /\ row'[c].revision = row[c].revision + 1
        <5>1. RestoredKey(c).generation = row[c].generation
          BY <1>3, <1>5
        <5>2. RestoredSession(c, resumed).revision = row[c].revision + 1
          BY <3>2 DEF RestoredSession
        <5> QED BY <4>1, <5>1, <5>2 DEF RowOf, NoRow
      <4> QED BY <1>5, <4>2, Ranges DEF Readable
    <3>3. resumed = 0 \/ resumed = 1
      OBVIOUS
    <3> QED BY <3>1, <3>2, <3>3
  <2>3. RowsAdvance
    <3>1. row' = row \/ row'[c].stale = FALSE
      BY <1>5 DEF RowOf, NoRow, Typed, DbType
    <3> QED BY <1>1, <1>2, <1>3, <1>5, <2>1, <2>2, <3>1, Ranges DEF RowsAdvance, RowAdvances
  <2>4. TopRows'
    BY <1>2, <1>3, <1>5, <2>1, <2>2 DEF Fenced, TopRows
  <2>5. \A k \in Keys : /\ Known(k) => Known(k)'
                        /\ Superseded(k) => Superseded(k)'
    BY <1>1, <1>2, <2>1, <2>2, KeyFacts DEF Known, Superseded
  <2>6. AllKnown' /\ WritersFenced'
    <3>1. \A w \in Workers : worker[w].key # NoKey => worker[w].key \in Keys
      BY DEF Typed, SaveType, WorkerType
    <3>2. (\A t \in retiring : t.key \in Keys) /\ (\A e \in ending : e.key \in Keys)
      BY DEF Typed, MemoryType, RetiringType, EndingType
    <3>3. \A k \in Keys : session'[k] # NoSession => Known(k)' /\ Superseded(k)'
      <4> SUFFICES ASSUME NEW k \in Keys, session'[k] # NoSession PROVE Known(k)' /\ Superseded(k)'
        OBVIOUS
      <4>1. CASE k = RestoredKey(c)
        BY <1>1, <1>2, <1>3, <1>5, <4>1, KeyFacts, Ranges DEF Known, Superseded
      <4>2. CASE k # RestoredKey(c)
        <5>1. session[k] # NoSession
          BY <1>5, <4>2 DEF Typed, MemoryType
        <5> QED BY <2>5, <5>1 DEF Fenced, AllKnown, WritersFenced
      <4> QED BY <4>1, <4>2
    <3>4. AllKnown'
      BY <1>2, <2>5, <3>1, <3>2, <3>3 DEF Fenced, AllKnown, Known
    <3>5. WritersFenced'
      BY <1>2, <2>5, <3>1, <3>3 DEF Fenced, WritersFenced, Superseded
    <3> QED BY <3>4, <3>5
  <2>7. LiveRegistered'
    <3>1. \A d \in Codes : registry'[d] = IF d = c THEN row[c].generation ELSE registry[d]
      BY <1>5 DEF Typed, MemoryType
    <3>2. \A d \in Codes : d # c /\ registry[d] # 0 =>
            Key(d, registry[d]) \in Keys /\ Key(d, registry[d]) # RestoredKey(c)
      BY <1>3, <1>5, KeyFacts, Ranges
    <3>3. session'[RestoredKey(c)] = RestoredSession(c, resumed)
          /\ \A k \in Keys : k # RestoredKey(c) => session'[k] = session[k]
      BY <1>3, <1>5 DEF Typed, MemoryType
    <3>4. session'[RestoredKey(c)] # NoSession
      BY <1>5, <3>3 DEF RestoredSession, NoSession, Readable
    <3> QED BY <1>2, <1>3, <1>5, <3>1, <3>2, <3>3, <3>4 DEF Fenced, LiveRegistered, RestoredKey
  <2>8. EndedBuried'
    BY <1>2, <1>5, <2>1, <2>2, KeyFacts DEF Fenced, EndedBuried
  <2>9. StaleAlone'
    <3>1. \A k \in Keys : Works(k)' => Works(k) \/ k = RestoredKey(c)
      BY <1>2, <1>5 DEF Works, Typed, MemoryType
    <3>2. \A d \in Codes : row'[d].stale => row'[d] = row[d]
      <4>1. resumed = 1 => row'[c].stale = FALSE
        BY <1>5 DEF RowOf, NoRow, Typed, DbType
      <4> QED BY <1>5, <2>1, <4>1
    <3> QED BY <1>2, <1>3, <1>5, <3>1, <3>2 DEF Fenced, StaleAlone
  <2> QED BY <1>1, <1>5, <2>3, <2>4, <2>6, <2>7, <2>8, <2>9, AdvancingHolds DEF Fenced, Bound, ResultsHold
<1> QED BY <1>4, <1>5, RestoreCases

-----------------------------------------------------------------------------
(* The inductive invariant of the fences, and the theorems. *)

\* It holds of an empty database.
LEMMA InitFences ==
    ASSUME PInit PROVE Typed /\ Fenced
<1>1. Typed
  BY RecordFacts, PersistenceConstants DEF PInit, Typed, ProcessType, DbType, SaveType, MemoryType, Resting
<1>2. TopRows /\ Bound
  BY DEF PInit, TopRows, Bound, NoRow
<1>3. AllKnown /\ WritersFenced
  <2>1. \A w \in Workers : worker[w].key = NoKey
    BY DEF PInit, Resting
  <2> QED BY <2>1 DEF PInit, AllKnown, WritersFenced
<1>4. LiveRegistered /\ EndedBuried /\ StaleAlone
  BY DEF PInit, LiveRegistered, EndedBuried, StaleAlone, NoRow
<1> QED BY <1>1, <1>2, <1>3, <1>4 DEF Fenced

\* Every step keeps the types.
LEMMA NextTyped ==
    ASSUME Typed, Fenced, PNext PROVE Typed'
BY WorkerStepTyped, CreateTyped, PlayTyped, RetireTyped, TerminalTyped, CrashTyped, RestoreTyped
   DEF PNext, Fenced

\* A step records a result only for a game that has none.
LEMMA NextResultsHold ==
    ASSUME Typed, Fenced, PNext PROVE ResultsHold
<1>1. CASE UNCHANGED results
  BY <1>1 DEF ResultsHold
<1>2. ASSUME NEW e \in ending, TerminalStep(e), results' # results PROVE ResultsHold
  <2>1. e \in EndingType /\ Known(e.key)
    BY DEF Typed, MemoryType, Fenced, AllKnown
  <2>2. Record(e) /\ (Prepared(e) \/ Preparable(e)) /\ high_water' = high_water
    BY <1>2 DEF TerminalStep, Commit, CommitRefused, CommitFails, DeliveriesUnread, RemoveEnded, db
  <2> QED BY <2>1, <2>2, RecordNarrows DEF ResultsHold
<1>3. ASSUME NEW c \in Codes, NEW resumed \in 0..1, Restore(c, resumed) PROVE ResultsHold
  BY <1>3, NextTyped, RestoreFenced, RestoreTyped DEF Fenced
<1>4. ASSUME NEW stage \in {"waiting", "started"}, Initialize(stage) PROVE ResultsHold
  BY <1>4, InitializeShape DEF ResultsHold
<1>5. ASSUME NEW c \in Codes, BindKey(c) \/ RowAges(c) \/ DeleteStale(c) \/ RestoreFails(c)
      PROVE  UNCHANGED results
  BY <1>5 DEF BindKey, RowAges, DeleteStale, RestoreFails, db
<1>6. ASSUME NEW w \in Workers, WorkerStep(w) PROVE UNCHANGED results
  BY <1>6 DEF WorkerStep, Capture, Write, Cancelled, SaveFails, db, Save
<1>7. ASSUME NEW k \in Keys,
             \/ \E stage \in Stages, asks \in BOOLEAN : Mutate(k, stage, asks)
             \/ Ask(k) \/ GameOver(k) \/ Abandon(k) \/ Forfeit(k) \/ Dissolve(k) \/ Drop(k) \/ Flush(k)
      PROVE  UNCHANGED results
  BY <1>7 DEF Mutate, Ask, GameOver, Abandon, Forfeit, Dissolve, Drop, Flush, db, Save
<1>8. ASSUME NEW t \in retiring, RetireUnstarted(t) \/ RetireFails(t) PROVE UNCHANGED results
  BY <1>8 DEF RetireUnstarted, RetireFails, db
<1>9. ASSUME InitializeFails \/ Shutdown \/ Crash PROVE UNCHANGED results
  BY <1>9 DEF InitializeFails, Shutdown, Crash, db
<1> QED BY <1>1, <1>2, <1>3, <1>4, <1>5, <1>6, <1>7, <1>8, <1>9 DEF PNext

\* Every step keeps the fences, and the rows hold across it.
LEMMA NextFenced ==
    ASSUME Typed, Fenced, PNext PROVE Fenced' /\ RowsHold
<1>1. Typed'
  BY NextTyped
<1>2. ASSUME RowsAdvance, Narrows PROVE Fenced' /\ RowsHold
  BY <1>1, <1>2, NarrowingKeepsFences, AdvancingHolds DEF Fenced
<1>3. ASSUME NEW c \in Codes, BindKey(c) \/ RowAges(c) \/ DeleteStale(c) \/ RestoreFails(c)
      PROVE  Fenced' /\ RowsHold
  BY <1>1, <1>2, <1>3, BindFenced, AgeFenced, DeleteFenced, CrashNarrows
<1>4. ASSUME NEW stage \in {"waiting", "started"}, Initialize(stage) PROVE Fenced' /\ RowsHold
  BY <1>1, <1>4, InitializeFenced
<1>5. ASSUME NEW c \in Codes, NEW resumed \in 0..1, Restore(c, resumed) PROVE Fenced' /\ RowsHold
  BY <1>1, <1>5, RestoreFenced
<1>6. ASSUME \/ \E w \in Workers : WorkerStep(w)
             \/ \E t \in retiring : RetireUnstarted(t) \/ RetireFails(t)
             \/ \E e \in ending : TerminalStep(e)
             \/ InitializeFails \/ Shutdown \/ Crash
      PROVE  Fenced' /\ RowsHold
  BY <1>2, <1>6, WorkerStepNarrows, RetireNarrows, TerminalNarrows, CrashNarrows
<1>7. ASSUME NEW k \in Keys,
             \/ \E stage \in Stages, asks \in BOOLEAN : Mutate(k, stage, asks)
             \/ Ask(k) \/ GameOver(k) \/ Abandon(k) \/ Forfeit(k) \/ Dissolve(k) \/ Drop(k) \/ Flush(k)
      PROVE  Fenced' /\ RowsHold
  BY <1>2, <1>7, PlayNarrows
<1> QED BY <1>3, <1>4, <1>5, <1>6, <1>7 DEF PNext

\* A step that changes nothing keeps everything.
LEMMA StutterFenced ==
    ASSUME Typed, Fenced, UNCHANGED pvars PROVE Typed' /\ Fenced' /\ RowsHold /\ ResultsHold
<1> USE DEF pvars, process, db, saves, memory
<1>1. Typed'
  BY DEF Typed, ProcessType, DbType, SaveType, MemoryType
<1>2. TopRows' /\ Bound' /\ LiveRegistered' /\ EndedBuried'
  BY DEF Fenced, TopRows, Bound, LiveRegistered, EndedBuried
<1>3. AllKnown' /\ WritersFenced' /\ StaleAlone'
  BY DEF Fenced, AllKnown, WritersFenced, Known, Superseded, StaleAlone, Works
<1>4. RowsHold /\ ResultsHold
  BY Ranges DEF RowsHold, ResultsHold
<1> QED BY <1>1, <1>2, <1>3, <1>4 DEF Fenced

\* The types and the fences hold throughout, whatever handlers, workers,
\* retirements, terminals, crashes and restores interleave.
LEMMA FencesHold == PSpec => [](Typed /\ Fenced)
<1>1. Typed /\ Fenced /\ [PNext]_pvars => (Typed /\ Fenced)'
  BY NextTyped, NextFenced, StutterFenced
<1> QED BY <1>1, InitFences, PTL DEF PSpec

\* The database rows, the registry of sessions, the save workers and the tasks
\* that retire and end games stay of their kinds, and a key is registered only
\* to a worker that is at work on it (Scheduler::request, finish_if_idle).
THEOREM PersistenceTypes == PSpec => []PTypeOK
BY FencesHold, TypeParts, PTL

\* The game a code stands for in memory is the last generation created under it
\* (create_full_session_key, load_active_full_sessions).
THEOREM NewestLives == PSpec => []NewestIsLive
<1>1. Fenced => NewestIsLive
  BY DEF Fenced, LiveRegistered, NewestIsLive
<1> QED BY <1>1, FencesHold, PTL

\* No late save, restore or cleanup brings a retired game back
\* (save_full_session_parts, delete_stale).
THEOREM TombstonesHold == PSpec => TombstoneHolds
<1>1. Typed /\ Fenced /\ [PNext]_pvars =>
        [\A c \in Codes : row[c].retired => row'[c].retired \/ row'[c].generation > row[c].generation]_pvars
  BY NextFenced DEF RowsHold
<1> QED BY <1>1, FencesHold, PTL DEF PSpec, TombstoneHolds

\* No save that was captured earlier overwrites a later one: the row of a game
\* never goes back (the WHERE of the upsert in save_full_session_parts).
THEOREM RowsNeverOlder == PSpec => NeverOlder
<1>1. Typed /\ Fenced /\ [PNext]_pvars =>
        [\A c \in Codes : row'[c].generation = row[c].generation /\ ~row'[c].retired /\ row[c].stage # "none"
             => row'[c].revision >= row[c].revision]_pvars
  BY NextFenced DEF RowsHold
<1> QED BY <1>1, FencesHold, PTL DEF PSpec, NeverOlder

\* A game with a recorded result never has an active row again, and the result
\* first recorded stays (prepare_full_terminal).
THEOREM EndedGamesStayEnded == PSpec => EndedStaysEnded
<1>1. Typed /\ Fenced => \A k \in Keys : results[k] # NoResult => ~ActiveRow(k)
  BY Ranges DEF Fenced, EndedBuried, TopRows, ActiveRow
<1>2. Typed /\ Fenced /\ [PNext]_pvars =>
        [\A k \in Keys : results[k] # NoResult => results'[k] = results[k]]_pvars
  BY NextResultsHold DEF ResultsHold
<1> QED BY <1>1, <1>2, FencesHold, PTL DEF PSpec, EndedStaysEnded

-----------------------------------------------------------------------------
(* Durability.  Nearly every step lets sessions only advance, writes a row   *)
(* from its own game's session, and buries no game that lives.               *)

RowContinues(c) ==
    \/ row'[c] = row[c]
    \/ \E k \in Keys :
        /\ k.code = c /\ row'[c].generation = k.generation
        /\ row'[c].retired = FALSE /\ row'[c].stage # "none"
        /\ session[k] # NoSession => row'[c].revision <= session[k].revision
    \/ /\ row'[c].retired
       /\ \A k \in Keys : k.code = c /\ Registered(k) => results'[k] # NoResult

WorkerContinues(w) ==
    worker'[w].step = "write" =>
        /\ worker'[w].key = worker[w].key /\ worker[w].key \in Keys
        /\ \/ worker[w].step = "write" /\ worker'[w].taken = worker[w].taken
           \/ worker'[w].taken = session[worker[w].key] /\ session[worker[w].key] # NoSession

Continues ==
    /\ retention' = retention /\ active'.key \in {active.key, NoKey}
    /\ \A k \in Keys : session'[k] # NoSession =>
        session'[k].stage # "none" /\ session'[k].revision >= session[k].revision
    /\ \A c \in Codes : RowContinues(c)
    /\ \A w \in Workers : WorkerContinues(w)

\* A key is its code and its generation.
LEMMA SameKey == \A j, k \in Keys : j.code = k.code /\ j.generation = k.generation => j = k
BY DEF Keys

\* The revisions that sessions and workers hold.
LEMMA RevisionRanges ==
    ASSUME Typed
    PROVE  /\ \A k \in Keys : session[k].revision \in Nat
           /\ \A w \in Workers : worker[w].taken.revision \in Nat
<1>1. Revisions \subseteq Nat
  BY PersistenceConstants DEF Revisions
<1>2. \A k \in Keys : session[k] \in SessionType
  BY DEF Typed, MemoryType
<1>3. \A w \in Workers : worker[w].taken \in SessionType
  BY DEF Typed, SaveType, WorkerType
<1> QED BY <1>1, <1>2, <1>3 DEF SessionType

\* Such a step keeps sessions ahead of the rows and of the workers.
LEMMA ContinuingStaysAhead ==
    ASSUME Typed, Typed', Fenced, Ahead, Narrows, Continues
    PROVE  Ahead'
<1>1. ASSUME NEW k \in Keys, session'[k] # NoSession, ActiveRow(k)'
      PROVE  row'[k.code].revision <= session'[k].revision
  <2>1. session[k] # NoSession /\ session'[k].revision >= session[k].revision
    BY <1>1 DEF Narrows, Continues
  <2>2. row'[k.code].revision <= session[k].revision
    <3>1. RowContinues(k.code) /\ k.code \in Codes /\ row'[k.code].retired = FALSE
          /\ row'[k.code].generation = k.generation
      BY <1>1, KeyFacts, Ranges DEF Continues, ActiveRow, Typed, DbType, RowType
    <3>2. CASE row'[k.code] = row[k.code]
      BY <1>1, <2>1, <3>1, <3>2 DEF Ahead, ActiveRow
    <3>3. ASSUME NEW j \in Keys, j.code = k.code, row'[k.code].generation = j.generation,
                 session[j] # NoSession => row'[k.code].revision <= session[j].revision
          PROVE  row'[k.code].revision <= session[k].revision
      <4>1. j = k
        BY <3>1, <3>3, SameKey
      <4> QED BY <2>1, <3>3, <4>1
    <3> QED BY <3>1, <3>2, <3>3 DEF RowContinues
  <2>3. row'[k.code].revision \in Nat /\ session'[k].revision \in Nat /\ session[k].revision \in Nat
    BY RevisionRanges, KeyFacts, PersistenceConstants DEF Typed, DbType, MemoryType, RowType, SessionType, Revisions
  <2> QED BY <2>1, <2>2, <2>3
<1>2. ASSUME NEW w \in Workers, worker'[w].step = "write"
      PROVE  /\ worker'[w].taken.stage # "none"
             /\ session'[worker'[w].key] # NoSession =>
                  worker'[w].taken.revision <= session'[worker'[w].key].revision
  <2> DEFINE k == worker[w].key
  <2>1. worker'[w].key = k /\ k \in Keys
    BY <1>2 DEF Continues, WorkerContinues
  <2>2. /\ worker'[w].taken.stage # "none"
        /\ session[k] # NoSession => worker'[w].taken.revision <= session[k].revision
    <3>1. CASE worker[w].step = "write" /\ worker'[w].taken = worker[w].taken
      BY <3>1 DEF Ahead
    <3>2. CASE worker'[w].taken = session[k] /\ session[k] # NoSession
      BY <2>1, <3>2, RevisionRanges DEF Ahead
    <3> QED BY <1>2, <3>1, <3>2 DEF Continues, WorkerContinues
  <2>3. session'[k] # NoSession => session[k] # NoSession /\ session'[k].revision >= session[k].revision
    BY <2>1 DEF Narrows, Continues
  <2>4. worker'[w].taken.revision \in Nat /\ session'[k].revision \in Nat /\ session[k].revision \in Nat
    BY <2>1, RevisionRanges, PersistenceConstants DEF Typed, SaveType, MemoryType, WorkerType, SessionType, Revisions
  <2> HIDE DEF k
  <2> QED BY <2>1, <2>2, <2>3, <2>4
<1>3. \A k \in Keys : session'[k] # NoSession => session'[k].stage # "none"
  BY DEF Continues
<1> QED BY <1>1, <1>2, <1>3 DEF Ahead

\* And it takes the row from no game that lives.
LEMMA ContinuingKeepsRows ==
    ASSUME Typed, Typed', Fenced, Fenced', Narrows, ResultsHold, Continues
    PROVE  KeepsRows
<1> SUFFICES ASSUME NEW k \in Keys, Registered(k)', results'[k] = NoResult, Replaced(k)' = FALSE,
                    Live(k) => HasRow(k)
             PROVE  HasRow(k)'
  BY DEF KeepsRows, Live, Replaced
<1>1. k.code \in Codes /\ k.generation \in 1..MaxGames
  BY KeyFacts
<1>2. Registered(k)
  BY <1>1 DEF Registered, Narrows
<1>3. results[k] = NoResult
  BY DEF ResultsHold
<1>4. ~Replaced(k)
  BY KeyFacts DEF Replaced, Continues
<1>5. HasRow(k)
  BY <1>2, <1>3, <1>4 DEF Live
<1>6. CASE row'[k.code] = row[k.code]
  BY <1>5, <1>6 DEF HasRow, ActiveRow
<1>7. ASSUME NEW j \in Keys, j.code = k.code, row'[k.code].generation = j.generation,
             row'[k.code].retired = FALSE, row'[k.code].stage # "none"
      PROVE  HasRow(k)'
  <2>1. row'[k.code].generation = high_water'[k.code]
    BY <1>1, <1>7, KeyFacts DEF Fenced, TopRows
  <2>2. k.generation = high_water'[k.code]
    BY <1>1 DEF Fenced, LiveRegistered, Registered
  <2> QED BY <1>7, <2>1, <2>2 DEF HasRow, ActiveRow
<1>8. RowContinues(k.code)
  BY <1>1 DEF Continues
<1> QED BY <1>2, <1>6, <1>7, <1>8 DEF RowContinues

\* A save of a game's own session, or of what a worker captured of it.
LEMMA SaveContinues ==
    ASSUME Typed, NEW k \in Keys, NEW s \in SessionType, s.stage # "none",
           session[k] # NoSession => s.revision <= session[k].revision, Save(k, s)
    PROVE  \A c \in Codes : RowContinues(c)
<1>1. CASE ~Saves(k, s)
  BY <1>1 DEF Save, RowContinues
<1>2. CASE Saves(k, s)
  <2>1. k.code \in Codes
    BY KeyFacts
  <2>2. row'[k.code] = RowOf(k, s, s.epoch) /\ \A c \in Codes : c # k.code => row'[c] = row[c]
    BY <1>2, <2>1 DEF Save, Typed, DbType
  <2>3. /\ row'[k.code].generation = k.generation /\ row'[k.code].retired = FALSE
        /\ row'[k.code].stage = s.stage /\ row'[k.code].revision = s.revision
    BY <2>2 DEF RowOf, NoRow
  <2> QED BY <2>2, <2>3 DEF RowContinues
<1> QED BY <1>1, <1>2

\* What a worker that exits or goes round again holds is nothing.
LEMMA WorkersContinue ==
    ASSUME Typed, NEW w \in Workers, Exit(w) \/ FinishIfIdle(w)
    PROVE  \A v \in Workers : WorkerContinues(v)
<1>1. worker'[w].step # "write" /\ \A v \in Workers : v # w => worker'[v] = worker[v]
  <2>1. CASE Exit(w)
    BY <2>1 DEF Exit, Resting, Typed, SaveType
  <2>2. CASE ~Exit(w)
    BY <2>2 DEF FinishIfIdle, Typed, SaveType, WorkerType
  <2> QED BY <2>1, <2>2
<1>2. \A v \in Workers : worker[v].step = "write" => worker[v].key \in Keys
  BY DEF Typed, SaveType, WorkerType
<1> QED BY <1>1, <1>2 DEF WorkerContinues

\* Workers that are left alone.
LEMMA SameWorkers ==
    ASSUME Typed, worker' = worker PROVE \A v \in Workers : WorkerContinues(v)
<1>1. \A v \in Workers : worker[v].step = "write" => worker[v].key \in Keys
  BY DEF Typed, SaveType, WorkerType
<1> QED BY <1>1 DEF WorkerContinues

\* Sessions that are left alone.
LEMMA SameSessions ==
    ASSUME Typed, Ahead, session' = session
    PROVE  \A k \in Keys : session'[k] # NoSession =>
             session'[k].stage # "none" /\ session'[k].revision >= session[k].revision
BY RevisionRanges DEF Ahead

\* Worker steps.
LEMMA WorkerStepContinues ==
    ASSUME Typed, Ahead, NEW w \in Workers, WorkerStep(w)
    PROVE  Continues
<1>1. UNCHANGED <<retention, active, session>>
  BY DEF WorkerStep, Capture, Write, Cancelled, SaveFails, process, memory, db, Save
<1>2. \A v \in Workers : WorkerContinues(v)
  <2>1. CASE Capture(w) /\ ~Exit(w)
    <3>1. worker' = [worker EXCEPT ![w].asked = FALSE, ![w].taken = session[worker[w].key], ![w].step = "write"]
          /\ session[worker[w].key] # NoSession /\ worker[w].step = "lease"
      BY <2>1 DEF Capture
    <3>2. worker[w].key \in Keys /\ \A v \in Workers : worker[v].step = "write" => worker[v].key \in Keys
      BY <3>1 DEF Typed, SaveType, WorkerType
    <3>3. /\ worker'[w].key = worker[w].key /\ worker'[w].taken = session[worker[w].key]
          /\ \A v \in Workers : v # w => worker'[v] = worker[v]
      BY <3>1 DEF Typed, SaveType, WorkerType
    <3> QED BY <3>1, <3>2, <3>3 DEF WorkerContinues
  <2>2. CASE Exit(w) \/ FinishIfIdle(w)
    BY <2>2, WorkersContinue
  <2> QED BY <2>1, <2>2 DEF WorkerStep, Write, Cancelled, SaveFails
<1>3. \A c \in Codes : RowContinues(c)
  <2>1. CASE Write(w)
    <3>1. worker[w].key \in Keys /\ worker[w].taken \in SessionType /\ worker[w].step = "write"
      BY <2>1 DEF Write, Typed, SaveType, WorkerType
    <3> QED BY <2>1, <3>1, SaveContinues DEF Write, Ahead
  <2> QED BY <2>1 DEF WorkerStep, Capture, Cancelled, SaveFails, db, RowContinues
<1> QED BY <1>1, <1>2, <1>3, SameSessions DEF Continues

\* A request gives no worker anything to write yet.
LEMMA RequestContinues ==
    ASSUME Typed, NEW k \in Keys, NEW s, Request(k, s)
    PROVE  \A v \in Workers : WorkerContinues(v)
<1>1. CASE UNCHANGED saves
  BY <1>1, SameWorkers DEF saves
<1>0. \A v \in Workers : worker[v].step = "write" => worker[v].key \in Keys
  BY DEF Typed, SaveType, WorkerType
<1>2. CASE pending[k] # NoWorker /\ worker' = [worker EXCEPT ![pending[k]].asked = TRUE]
  <2>1. \A v \in Workers : /\ worker'[v].key = worker[v].key /\ worker'[v].step = worker[v].step
                           /\ worker'[v].taken = worker[v].taken
    BY <1>2 DEF Typed, SaveType, WorkerType
  <2> QED BY <1>0, <2>1 DEF WorkerContinues
<1>3. ASSUME NEW w \in Workers,
             worker' = [worker EXCEPT ![w] = [Resting EXCEPT !.key = k, !.step = "lease", !.asked = TRUE]]
      PROVE  \A v \in Workers : WorkerContinues(v)
  <2>1. worker'[w].step = "lease" /\ \A v \in Workers : v # w => worker'[v] = worker[v]
    BY <1>3 DEF Typed, SaveType, Resting
  <2> QED BY <1>0, <2>1 DEF WorkerContinues
<1> QED BY <1>1, <1>2, <1>3 DEF Request

\* Play.
LEMMA PlayContinues ==
    ASSUME Typed, Fenced, Ahead, NEW k \in Keys,
           \/ \E stage \in Stages, asks \in BOOLEAN : Mutate(k, stage, asks)
           \/ Ask(k) \/ GameOver(k) \/ Abandon(k) \/ Forfeit(k) \/ Dissolve(k) \/ Drop(k) \/ Flush(k)
    PROVE  Continues
<1>1. UNCHANGED <<retention, active>>
  BY DEF Mutate, Ask, GameOver, Abandon, Forfeit, Dissolve, Drop, Flush, process, db, Save
<1>2. \A c \in Codes : RowContinues(c)
  <2>1. CASE Flush(k)
    <3>1. session[k] # NoSession /\ session[k] \in SessionType
      BY <2>1, Ranges, KeyFacts DEF Flush, Registered, Fenced, LiveRegistered, Typed, MemoryType
    <3>2. session[k].stage # "none" /\ session[k].revision <= session[k].revision
      BY <3>1, RevisionRanges DEF Ahead
    <3> QED BY <2>1, <3>1, <3>2, SaveContinues DEF Flush
  <2> QED BY <2>1 DEF Mutate, Ask, GameOver, Abandon, Forfeit, Dissolve, Drop, db, RowContinues
<1>3. \A v \in Workers : WorkerContinues(v)
  BY RequestContinues, SameWorkers DEF Mutate, Ask, GameOver, Abandon, Forfeit, Dissolve, Drop, Flush, saves
<1>4. \A j \in Keys : session'[j] # NoSession =>
        session'[j].stage # "none" /\ session'[j].revision >= session[j].revision
  <2>1. CASE Ask(k) \/ Abandon(k) \/ Forfeit(k) \/ Flush(k)
    BY <2>1, SameSessions DEF Ask, Abandon, Forfeit, Flush, memory
  <2>2. CASE Dissolve(k) \/ Drop(k)
    <3>1. \A j \in Keys : session'[j] \in {session[j], NoSession}
      BY <2>2 DEF Dissolve, Drop, Unregister, Typed, MemoryType
    <3> QED BY <3>1, RevisionRanges DEF Ahead
  <2>3. ASSUME \/ \E stage \in Stages, asks \in BOOLEAN : Mutate(k, stage, asks)
               \/ GameOver(k)
        PROVE  \A j \in Keys : session'[j] # NoSession =>
                 session'[j].stage # "none" /\ session'[j].revision >= session[j].revision
    <3>1. \A j \in Keys : j # k => session'[j] = session[j]
      BY <2>3 DEF Mutate, GameOver, Typed, MemoryType
    <3>2. session'[k].stage \in Stages /\ session'[k].revision = session[k].revision + 1
      BY <2>3 DEF Mutate, GameOver, Typed, MemoryType, SessionType, Stages
    <3>3. session'[k].stage # "none" /\ session'[k].revision >= session[k].revision
      BY <3>2, RevisionRanges DEF Stages
    <3> QED BY <3>1, <3>3, RevisionRanges DEF Ahead
  <2> QED BY <2>1, <2>2, <2>3
<1> QED BY <1>1, <1>2, <1>3, <1>4 DEF Continues

\* A tombstone over a game that is not registered, or that has its result.
LEMMA BurialContinues ==
    ASSUME Typed, Fenced, NEW k \in Keys, ActiveRow(k),
           row' = [row EXCEPT ![k.code] = Tombstone(k)],
           Registered(k) => results'[k] # NoResult
    PROVE  \A c \in Codes : RowContinues(c)
<1>1. \A c \in Codes : c # k.code => row'[c] = row[c]
  BY DEF Typed, DbType
<1>2. row'[k.code].retired
  BY KeyFacts DEF Tombstone, NoRow, Typed, DbType
<1>3. \A j \in Keys : j.code = k.code /\ Registered(j) => j = k
  <2> SUFFICES ASSUME NEW j \in Keys, j.code = k.code, Registered(j) PROVE j = k
    OBVIOUS
  <2>1. j.generation = high_water[j.code]
    BY KeyFacts, Ranges DEF Registered, Fenced, LiveRegistered
  <2>2. k.generation = high_water[k.code]
    BY KeyFacts, Ranges DEF ActiveRow, Fenced, TopRows
  <2> QED BY <2>1, <2>2, SameKey
<1> QED BY <1>1, <1>2, <1>3 DEF RowContinues

\* Retirements bury rooms that have left the registry.
LEMMA RetireContinues ==
    ASSUME Typed, Fenced, Ahead, RetiringGone, NEW t \in retiring, RetireUnstarted(t) \/ RetireFails(t)
    PROVE  Continues
<1>1. t.key \in Keys
  BY DEF Typed, MemoryType, RetiringType
<1>2. UNCHANGED <<retention, session, worker>> /\ active'.key \in {active.key, NoKey}
  BY DEF RetireUnstarted, RetireFails, process, db, saves, NoActive
<1>3. \A c \in Codes : RowContinues(c)
  <2>1. CASE row' = row
    BY <2>1 DEF RowContinues
  <2>2. CASE row' # row
    <3>1. ActiveRow(t.key) /\ row' = [row EXCEPT ![t.key.code] = Tombstone(t.key)]
      BY <2>2 DEF RetireUnstarted, RetireFails, Retirable, db
    <3> QED BY <1>1, <3>1, BurialContinues DEF RetiringGone
  <2> QED BY <2>1, <2>2
<1> QED BY <1>2, <1>3, SameSessions, SameWorkers DEF Continues

\* A terminal buries a game with its result.
LEMMA RecordContinues ==
    ASSUME Typed, Fenced, NEW e \in EndingType, Prepared(e) \/ Preparable(e), Record(e)
    PROVE  active'.key \in {active.key, NoKey} /\ \A c \in Codes : RowContinues(c)
<1>1. CASE Prepared(e)
  BY <1>1 DEF Record, RowContinues
<1>2. CASE ~Prepared(e)
  <2>1. e.key \in Keys /\ ActiveRow(e.key) /\ row' = [row EXCEPT ![e.key.code] = Tombstone(e.key)]
    BY <1>2 DEF Record, Preparable, EndingType
  <2>2. results'[e.key] # NoResult
    BY <1>2, <2>1, RecordFacts DEF Record, Typed, DbType
  <2>3. active'.key \in {active.key, NoKey}
    BY <1>2 DEF Record, NoActive
  <2> QED BY <2>1, <2>2, <2>3, BurialContinues
<1> QED BY <1>1, <1>2

\* Terminals.
LEMMA TerminalContinues ==
    ASSUME Typed, Fenced, Ahead, NEW e \in ending, TerminalStep(e)
    PROVE  Continues
<1>1. UNCHANGED <<retention, worker>>
  BY DEF TerminalStep, Commit, CommitRefused, CommitFails, DeliveriesUnread, RemoveEnded, process, saves
<1>2. active'.key \in {active.key, NoKey} /\ \A c \in Codes : RowContinues(c)
  <2>1. CASE Commit(e) \/ DeliveriesUnread(e)
    <3>1. e \in EndingType
      BY DEF Typed, MemoryType
    <3> QED BY <2>1, <3>1, RecordContinues DEF Commit, DeliveriesUnread
  <2>2. CASE CommitRefused(e) \/ CommitFails(e) \/ RemoveEnded(e)
    BY <2>2 DEF CommitRefused, CommitFails, RemoveEnded, db, RowContinues
  <2> QED BY <2>1, <2>2 DEF TerminalStep
<1>3. \A j \in Keys : session'[j] # NoSession =>
        session'[j].stage # "none" /\ session'[j].revision >= session[j].revision
  <2>1. CASE RemoveEnded(e)
    <3>1. \A j \in Keys : session'[j] \in {session[j], NoSession}
      BY <2>1 DEF RemoveEnded, Unregister
    <3> QED BY <3>1, RevisionRanges DEF Ahead
  <2>2. CASE ~RemoveEnded(e)
    BY <2>2, SameSessions DEF TerminalStep, Commit, CommitRefused, CommitFails, DeliveriesUnread
  <2> QED BY <2>1, <2>2
<1> QED BY <1>1, <1>2, <1>3, SameWorkers DEF Continues

\* Failures, the shutdown and a crash.
LEMMA CrashContinues ==
    ASSUME Typed, Ahead, InitializeFails \/ (\E c \in Codes : RestoreFails(c)) \/ Shutdown \/ Crash
    PROVE  Continues
<1>1. UNCHANGED <<retention, active>> /\ \A c \in Codes : RowContinues(c)
  BY DEF InitializeFails, RestoreFails, Shutdown, Crash, process, db, RowContinues
<1>2. CASE Crash
  <2>1. \A v \in Workers : worker'[v].step # "write"
    BY <1>2 DEF Crash, Resting
  <2> QED BY <1>1, <1>2, <2>1 DEF Crash, Continues, WorkerContinues
<1>3. CASE ~Crash
  <2>1. UNCHANGED <<session, worker>>
    BY <1>3 DEF InitializeFails, RestoreFails, Shutdown, saves, memory
  <2> QED BY <1>1, <2>1, SameSessions, SameWorkers DEF Continues
<1> QED BY <1>2, <1>3

\* The steps that create, delete and restore games.
LEMMA BindDurable ==
    ASSUME Typed, Typed', Fenced, Ahead, NEW c \in Codes, BindKey(c)
    PROVE  Ahead' /\ KeepsRows
<1>1. /\ UNCHANGED <<retention, active, results, worker, registry, session>> /\ registry[c] = 0
  BY DEF BindKey, process, saves
<1>2. \A d \in Codes : d # c => row'[d] = row[d]
  BY DEF BindKey, Typed, DbType
<1>3. \A k \in Keys : session[k] # NoSession /\ k.code = c => ~ActiveRow(k)'
  <2>1. row'[c].generation = high_water[c] + 1
    <3>1. row'[c] = [NoRow EXCEPT !.generation = Key(c, NextGeneration(c)).generation]
      BY DEF BindKey, Typed, DbType
    <3>2. row'[c].generation = Key(c, NextGeneration(c)).generation
      BY <3>1 DEF NoRow
    <3> QED BY <3>2 DEF Key, NextGeneration
  <2> QED BY <2>1, Ranges DEF Fenced, AllKnown, Known, ActiveRow
<1>4. Ahead'
  <2>1. \A k \in Keys : session[k] # NoSession => (ActiveRow(k)' => row'[k.code].revision <= session[k].revision)
    BY <1>2, <1>3, KeyFacts DEF Ahead, ActiveRow
  <2> QED BY <1>1, <2>1 DEF Ahead
<1>5. KeepsRows
  <2>1. \A k \in Keys : Registered(k) => k.code # c /\ k.code \in Codes
    BY <1>1, KeyFacts DEF Registered
  <2> QED BY <1>1, <1>2, <2>1 DEF KeepsRows, Live, Registered, Replaced, HasRow, ActiveRow
<1> QED BY <1>4, <1>5

\* A row that ages restores what it restored before; a row that is deleted was
\* stale, and those of other codes stay.
LEMMA CleanupDurable ==
    ASSUME Typed, Typed', Fenced, Ahead, NEW c \in Codes, RowAges(c) \/ DeleteStale(c)
    PROVE  Ahead' /\ KeepsRows
<1>1. UNCHANGED <<retention, active, results, worker, registry, session>>
  BY DEF RowAges, DeleteStale, process, saves, memory
<1>2. \A d \in Codes : d # c => row'[d] = row[d]
  BY DEF RowAges, DeleteStale, Typed, DbType
<1>3. \/ /\ row'[c].generation = row[c].generation /\ row'[c].revision = row[c].revision
         /\ row'[c].retired = row[c].retired /\ row'[c].stage = row[c].stage
      \/ row[c].stale /\ row'[c] = NoRow
  BY DEF RowAges, DeleteStale, Typed, DbType, RowType
<1>4. \A k \in Keys : k.code \in Codes /\ k.generation # 0 /\ NoRow.generation = 0
  BY KeyFacts DEF NoRow
<1>5. \A k \in Keys : ActiveRow(k)' => ActiveRow(k) /\ row'[k.code].revision = row[k.code].revision
  BY <1>2, <1>3, <1>4 DEF ActiveRow
<1>6. Ahead'
  BY <1>1, <1>5 DEF Ahead
<1>7. \A k \in Keys : HasRow(k) => HasRow(k)' \/ (row[k.code].stale /\ row'[k.code] = NoRow)
  BY <1>2, <1>3, <1>4 DEF HasRow, ActiveRow
<1>8. \A k \in Keys : Live(k)' => Live(k)
  BY <1>1 DEF Live, Registered, Replaced
<1> QED BY <1>6, <1>7, <1>8 DEF KeepsRows

\* A game is in memory only after its first save, and the game it replaces has
\* lost its row by then.
LEMMA InitializeDurable ==
    ASSUME Typed, Typed', Fenced, Ahead, NEW stage \in {"waiting", "started"}, Initialize(stage)
    PROVE  Ahead' /\ KeepsRows
<1>1. /\ binding \in Keys /\ UNCHANGED <<retention, results, worker>>
      /\ row'[binding.code].generation = binding.generation /\ row'[binding.code].revision = 0
      /\ row'[binding.code].retired = FALSE /\ row'[binding.code].stage = stage
      /\ \A c \in Codes : c # binding.code => row'[c] = row[c] \/ row'[c].retired
      /\ session'[binding].revision = 0 /\ session'[binding].stage = stage
      /\ \A k \in Keys : k # binding => session'[k] = session[k]
      /\ registry' = [registry EXCEPT ![binding.code] = binding.generation]
      /\ \/ retention = "SingleUser" /\ active'.key = binding
         \/ retention # "SingleUser" /\ \A c \in Codes : c # binding.code => row'[c] = row[c]
  BY InitializeShape
<1>2. binding.code \in Codes /\ registry[binding.code] = 0
  BY <1>1, KeyFacts DEF Fenced, Bound
<1>3. \A k \in Keys : k # binding /\ k.code = binding.code => ~ActiveRow(k)'
  BY <1>1, SameKey DEF ActiveRow
<1>4. Ahead'
  <2>1. ASSUME NEW k \in Keys, session'[k] # NoSession
        PROVE  session'[k].stage # "none" /\ (ActiveRow(k)' => row'[k.code].revision <= session'[k].revision)
    <3>1. CASE k = binding
      BY <1>1, <3>1
    <3>2. CASE k # binding
      BY <1>1, <1>3, <2>1, <3>2, KeyFacts DEF Ahead, ActiveRow
    <3> QED BY <3>1, <3>2
  <2>2. \A w \in Workers : worker[w].step = "write" => worker[w].key \in Keys /\ worker[w].key # binding
    BY KeyFacts DEF Typed, SaveType, WorkerType, Fenced, AllKnown, Known
  <2> QED BY <1>1, <2>1, <2>2 DEF Ahead
<1>5. KeepsRows
  <2> SUFFICES ASSUME NEW k \in Keys, Registered(k)', results'[k] = NoResult, Replaced(k)' = FALSE,
                      Live(k) => HasRow(k)
               PROVE  HasRow(k)'
    BY DEF KeepsRows, Live, Replaced
  <2>1. CASE k = binding
    BY <1>1, <2>1 DEF HasRow, ActiveRow
  <2>2. CASE k # binding
    <3>1. k.code # binding.code /\ k.code \in Codes
      BY <1>1, <1>2, <2>2, SameKey, KeyFacts DEF Registered, Typed, MemoryType
    <3>2. Registered(k) /\ results[k] = NoResult
      BY <1>1, <1>2, <3>1 DEF Registered, Typed, MemoryType
    <3>3. retention # "SingleUser" /\ row'[k.code] = row[k.code]
      BY <1>1, <2>2, <3>1 DEF Replaced
    <3> QED BY <3>2, <3>3 DEF Live, HasRow, ActiveRow, Replaced
  <2> QED BY <2>1, <2>2
<1> QED BY <1>4, <1>5

\* A restored game has the row it was read from, or the one written back.
LEMMA RestoreDurable ==
    ASSUME Typed, Typed', Fenced, Fenced', Booting, Ahead, ResultsHold,
           NEW c \in Codes, NEW resumed \in 0..1, Restore(c, resumed)
    PROVE  Ahead' /\ KeepsRows
<1>1. /\ UNCHANGED <<retention, worker>> /\ registry[c] = 0 /\ c \in boot
      /\ \A w \in Workers : worker[w].step # "write"
  <2>1. phase = "booting" /\ c \in boot /\ UNCHANGED <<retention, worker>>
    BY RestoreCases DEF saves
  <2>2. \A w \in Workers : worker[w].step # "write"
    BY <2>1 DEF Booting, Typed, SaveType
  <2>3. registry[c] = 0
    <3>1. 1 \in 1..MaxGames
      BY PersistenceConstants
    <3> QED BY <2>1, <3>1, KeyFacts DEF Booting
  <2> QED BY <2>1, <2>2, <2>3
<1>2. CASE \/ UNCHANGED <<row, active, results, registry, session>>
           \/ /\ Readable(c) /\ UNCHANGED <<registry, session>> /\ resumed = 0
              /\ Prepared(RestoredEnd(c, resumed)) \/ Preparable(RestoredEnd(c, resumed))
              /\ Record(RestoredEnd(c, resumed))
  <2>1. active'.key \in {active.key, NoKey} /\ \A d \in Codes : RowContinues(d)
    <3>1. CASE UNCHANGED <<row, active, results, registry, session>>
      BY <3>1 DEF RowContinues
    <3>2. CASE /\ Readable(c) /\ resumed = 0
               /\ Prepared(RestoredEnd(c, resumed)) \/ Preparable(RestoredEnd(c, resumed))
               /\ Record(RestoredEnd(c, resumed))
      <4>1. RestoredEnd(c, resumed) \in EndingType
        BY <3>2, RestoredTyped DEF Readable, Typed, Fenced
      <4> QED BY <3>2, <4>1, RecordContinues
    <3> QED BY <1>2, <3>1, <3>2
  <2>2. UNCHANGED <<registry, session>>
    BY <1>2
  <2>3. Continues
    BY <1>1, <2>1, <2>2, SameSessions, SameWorkers DEF Continues
  <2>4. \A k \in Keys : session'[k] # NoSession => session[k] # NoSession
    BY <2>2
  <2>5. Narrows
    <3>1. binding = NoKey /\ binding' = NoKey /\ UNCHANGED <<retiring, ending>>
      BY RestoreCases DEF Fenced, Bound
    <3>2. \A w \in Workers : worker'[w].key # NoKey => Works(worker'[w].key)
      BY <1>1, WorkersKept
    <3>3. \A k \in Keys : results'[k] # NoResult =>
            results[k] # NoResult \/ (row'[k.code].generation = k.generation /\ row'[k.code].retired)
      <4>1. CASE UNCHANGED <<row, active, results, registry, session>>
        BY <4>1
      <4>2. CASE /\ Readable(c) /\ resumed = 0
                 /\ Prepared(RestoredEnd(c, resumed)) \/ Preparable(RestoredEnd(c, resumed))
                 /\ Record(RestoredEnd(c, resumed))
        <5> DEFINE e == RestoredEnd(c, resumed)
        <5>1. e \in EndingType
          BY <4>2, RestoredTyped DEF Readable, Typed, Fenced
        <5>2. e.key \in Keys /\ e.key.generation = high_water[e.key.code]
          <6>1. e.key = RestoredKey(c)
            BY DEF RestoredEnd
          <6>2. /\ RestoredKey(c) \in Keys /\ RestoredKey(c).code = c
                /\ RestoredKey(c).generation = row[c].generation
            BY <4>2, RestoredTyped DEF Readable, Typed, Fenced
          <6>3. row[c].generation = high_water[c]
            BY <4>2 DEF Readable, Fenced, TopRows
          <6> QED BY <6>1, <6>2, <6>3
        <5>3. Known(e.key) /\ high_water' = high_water
          BY <3>1, <5>2, Ranges, KeyFacts, RestoreCases DEF Known
        <5> QED BY <4>2, <5>1, <5>3, RecordNarrows
      <4> QED BY <1>2, <4>1, <4>2
    <3> QED BY <2>2, <3>1, <3>2, <3>3 DEF Narrows, Fenced, LiveRegistered
  <2> QED BY <2>3, <2>5, ContinuingStaysAhead, ContinuingKeepsRows
<1>3. CASE /\ Readable(c) /\ UNCHANGED <<active, results>>
           /\ row' = IF resumed = 1
                     THEN [row EXCEPT ![c] = RowOf(RestoredKey(c), RestoredSession(c, resumed), row[c].epoch)]
                     ELSE row
           /\ registry' = [registry EXCEPT ![c] = row[c].generation]
           /\ session' = [session EXCEPT ![RestoredKey(c)] = RestoredSession(c, resumed)]
  <2> DEFINE k == RestoredKey(c)
             s == RestoredSession(c, resumed)
  <2>1. k \in Keys /\ k.code = c /\ k.generation = row[c].generation /\ row[c].generation # 0
    <3>1. row[c].generation # 0 /\ row[c].generation \in 0..MaxGames
      BY <1>3, Ranges DEF Readable, Fenced, TopRows
    <3> QED BY <3>1, KeyFacts, PersistenceConstants DEF RestoredKey
  <2>2. s.revision = row[c].revision + resumed /\ s.stage = row[c].stage
    BY DEF RestoredSession
  <2>3. /\ session' = [session EXCEPT ![k] = s]
        /\ row' = IF resumed = 1 THEN [row EXCEPT ![c] = RowOf(k, s, row[c].epoch)] ELSE row
    BY <1>3
  <2> HIDE DEF k, s
  <2>4. session'[k] = s /\ \A j \in Keys : j # k => session'[j] = session[j]
    BY <2>1, <2>3 DEF Typed, MemoryType
  <2>5. \A d \in Codes : d # c => row'[d] = row[d]
    BY <2>3 DEF Typed, DbType
  <2>6. row'[c].generation = k.generation /\ row'[c].retired = FALSE
        /\ row'[c].revision <= s.revision /\ row'[c].stage # "none" /\ s.stage # "none"
    <3>0. resumed = 0 \/ resumed = 1
      OBVIOUS
    <3>1. CASE resumed = 0
      BY <1>3, <2>1, <2>2, <2>3, <3>1, Ranges DEF Readable
    <3>2. CASE resumed = 1
      <4>1. row'[c] = RowOf(k, s, row[c].epoch)
        BY <2>3, <3>2 DEF Typed, DbType
      <4>2. row'[c].generation = k.generation /\ row'[c].retired = FALSE
            /\ row'[c].revision = s.revision /\ row'[c].stage = s.stage
        BY <4>1 DEF RowOf, NoRow
      <4> QED BY <1>3, <2>2, <4>2, Ranges DEF Readable
    <3> QED BY <3>0, <3>1, <3>2
  <2>7. Ahead'
    <3>1. ASSUME NEW j \in Keys, session'[j] # NoSession
          PROVE  session'[j].stage # "none" /\ (ActiveRow(j)' => row'[j.code].revision <= session'[j].revision)
      <4>1. CASE j = k
        BY <2>1, <2>4, <2>6, <4>1
      <4>2. CASE j # k /\ j.code = c
        BY <1>1, <2>4, <3>1, <4>2 DEF Booting
      <4>3. CASE j.code # c
        BY <2>1, <2>4, <2>5, <3>1, <4>3, KeyFacts DEF Ahead, ActiveRow
      <4> QED BY <4>1, <4>2, <4>3
    <3> QED BY <1>1, <3>1 DEF Ahead
  <2>8. KeepsRows
    <3> SUFFICES ASSUME NEW j \in Keys, Registered(j)', results'[j] = NoResult, Replaced(j)' = FALSE,
                        Live(j) => HasRow(j)
                 PROVE  HasRow(j)'
      BY DEF KeepsRows, Live, Replaced
    <3>1. CASE j.code = c
      <4>1. j.generation = row[c].generation
        BY <1>3, <3>1 DEF Registered, Typed, MemoryType
      <4> QED BY <2>1, <2>6, <3>1, <4>1 DEF HasRow, ActiveRow
    <3>2. CASE j.code # c
      <4>1. j.code \in Codes
        BY KeyFacts
      <4>2. Registered(j) /\ results[j] = NoResult /\ ~Replaced(j)
        BY <1>1, <1>3, <3>2, <4>1 DEF Registered, Replaced, Typed, MemoryType
      <4> QED BY <2>5, <3>2, <4>1, <4>2 DEF Live, HasRow, ActiveRow
    <3> QED BY <3>1, <3>2
  <2> QED BY <2>7, <2>8
<1> QED BY <1>2, <1>3, RestoreCases

\* A process that is up or stopping has restored its rows.
LEMMA BootedStays ==
    ASSUME Typed, Booting, phase # "booting", phase' # "booting", boot' = boot
    PROVE  Booting'
BY DEF Booting

\* Nothing but restores happens while the rows are restored.
LEMMA NextBooting ==
    ASSUME Typed, Fenced, Booting, PNext
    PROVE  Booting'
<1>1. ASSUME NEW w \in Workers, WorkerStep(w) PROVE Booting'
  <2>1. worker[w].step # "none" /\ UNCHANGED <<phase, boot>>
    BY <1>1 DEF WorkerStep, Capture, Write, Cancelled, SaveFails, process
  <2>2. phase # "booting"
    BY <2>1 DEF Booting, Typed, SaveType
  <2> QED BY <2>1, <2>2, BootedStays
<1>2. ASSUME NEW k \in Keys, Drop(k) PROVE Booting'
  <2>1. \A j \in Keys : session[j] = NoSession => session'[j] = NoSession
    BY <1>2 DEF Drop, Typed, MemoryType
  <2>2. UNCHANGED <<phase, boot, registry, worker, retiring, ending>>
    BY <1>2 DEF Drop, process, saves
  <2> QED BY <2>1, <2>2 DEF Booting
<1>3. ASSUME NEW k \in Keys,
             \/ \E stage \in Stages, asks \in BOOLEAN : Mutate(k, stage, asks)
             \/ Ask(k) \/ GameOver(k) \/ Abandon(k) \/ Forfeit(k) \/ Dissolve(k) \/ Flush(k)
      PROVE  Booting'
  <2>1. phase # "booting" /\ UNCHANGED <<phase, boot>>
    BY <1>3 DEF Mutate, Ask, GameOver, Abandon, Forfeit, Dissolve, Flush, Playing, process
  <2> QED BY <2>1, BootedStays
<1>4. ASSUME \/ \E t \in retiring : RetireUnstarted(t) \/ RetireFails(t)
             \/ \E e \in ending : TerminalStep(e)
      PROVE  Booting'
  <2>1. phase # "booting"
    BY <1>4 DEF Booting
  <2>2. UNCHANGED <<phase, boot>>
    BY <1>4 DEF RetireUnstarted, RetireFails, TerminalStep, Commit, CommitRefused, CommitFails,
                DeliveriesUnread, RemoveEnded, process
  <2> QED BY <2>1, <2>2, BootedStays
<1>9. ASSUME NEW c \in Codes, RowAges(c) \/ DeleteStale(c) PROVE Booting'
  BY <1>9 DEF RowAges, DeleteStale, process, saves, memory, Booting
<1>5. ASSUME \/ \E c \in Codes : BindKey(c)
             \/ \E stage \in {"waiting", "started"} : Initialize(stage)
             \/ InitializeFails \/ Shutdown
      PROVE  Booting'
  <2>1. phase # "booting" /\ phase' # "booting" /\ boot' = boot
    BY <1>5 DEF BindKey, Initialize, InitializeFails, Shutdown, process
  <2> QED BY <2>1, BootedStays
<1>6. ASSUME Crash PROVE Booting'
  <2>1. \A w \in Workers : worker'[w].key = NoKey
    BY <1>6 DEF Crash, Resting
  <2> QED BY <1>6, <2>1, KeyFacts DEF Crash, Booting
<1>7. ASSUME NEW c \in Codes, RestoreFails(c) PROVE Booting'
  <2>1. /\ phase = "booting" /\ boot' = boot \ {c} /\ phase' = IF boot = {c} THEN "up" ELSE phase
        /\ UNCHANGED <<worker, registry, session, retiring, ending>> /\ c \in boot
    BY <1>7 DEF RestoreFails, saves, memory
  <2> QED BY <2>1 DEF Booting
<1>8. ASSUME NEW c \in Codes, NEW resumed \in 0..1, Restore(c, resumed) PROVE Booting'
  <2>1. /\ phase = "booting" /\ c \in boot /\ boot' = boot \ {c} /\ phase' = IF boot = {c} THEN "up" ELSE phase
        /\ UNCHANGED <<worker, retiring, ending>>
    BY <1>8, RestoreCases DEF saves
  <2>2. \A k \in Keys : k.code # c => session'[k] = session[k] /\ registry'[k.code] = registry[k.code]
    <3>1. CASE UNCHANGED <<registry, session>>
      BY <3>1
    <3>2. CASE /\ registry' = [registry EXCEPT ![c] = row[c].generation]
               /\ session' = [session EXCEPT ![RestoredKey(c)] = RestoredSession(c, resumed)]
      <4>1. RestoredKey(c).code = c
        BY DEF RestoredKey, Key
      <4> QED BY <3>2, <4>1, KeyFacts DEF Typed, MemoryType
    <3> QED BY <1>8, <3>1, <3>2, RestoreCases
  <2> QED BY <2>1, <2>2 DEF Booting
<1> QED BY <1>1, <1>2, <1>3, <1>4, <1>5, <1>6, <1>7, <1>8, <1>9 DEF PNext

\* A room is retired only when it has left the registry, and its key is not
\* registered again.
LEMMA NextRetiringGone ==
    ASSUME Typed, Fenced, Booting, RetiringGone, PNext
    PROVE  RetiringGone'
<1>0. \A t \in retiring : t.key \in Keys /\ t.key.code \in Codes /\ t.key.generation # 0
  BY KeyFacts, Ranges DEF Typed, MemoryType, RetiringType
<1>1. ASSUME retiring' \subseteq retiring, \A c \in Codes : registry'[c] \in {registry[c], 0}
      PROVE  RetiringGone'
  BY <1>0, <1>1 DEF RetiringGone, Registered
<1>2. ASSUME Narrows, retiring' \subseteq retiring PROVE RetiringGone'
  BY <1>1, <1>2 DEF Narrows
<1>3. ASSUME NEW w \in Workers, WorkerStep(w) PROVE RetiringGone'
  <2>1. retiring' = retiring
    BY <1>3 DEF WorkerStep, Capture, Write, Cancelled, SaveFails, memory
  <2> QED BY <1>2, <1>3, <2>1, WorkerStepNarrows
<1>4. ASSUME NEW k \in Keys, Dissolve(k) PROVE RetiringGone'
  <2>1. retiring' = retiring \cup {[key |-> k, epoch |-> session[k].epoch]}
        /\ registry' = [registry EXCEPT ![k.code] = 0]
    BY <1>4 DEF Dissolve, Unregister
  <2>2. k.code \in Codes /\ k.generation # 0
    BY KeyFacts, Ranges
  <2>3. \A c \in Codes : registry'[c] = IF c = k.code THEN 0 ELSE registry[c]
    BY <2>1 DEF Typed, MemoryType
  <2>4. \A t \in retiring' : t \in retiring \/ t.key = k
    BY <2>1
  <2> QED BY <1>0, <2>2, <2>3, <2>4 DEF RetiringGone, Registered
<1>5. ASSUME NEW k \in Keys,
             \/ \E stage \in Stages, asks \in BOOLEAN : Mutate(k, stage, asks)
             \/ Ask(k) \/ GameOver(k) \/ Abandon(k) \/ Forfeit(k) \/ Drop(k) \/ Flush(k)
      PROVE  RetiringGone'
  <2>1. retiring' = retiring
    BY <1>5 DEF Mutate, Ask, GameOver, Abandon, Forfeit, Drop, Flush, memory
  <2> QED BY <1>2, <1>5, <2>1, PlayNarrows
<1>6. ASSUME NEW t \in retiring, RetireUnstarted(t) \/ RetireFails(t) PROVE RetiringGone'
  <2>1. retiring' \subseteq retiring
    BY <1>6 DEF RetireUnstarted, RetireFails
  <2> QED BY <1>2, <1>6, <2>1, RetireNarrows
<1>7. ASSUME NEW e \in ending, TerminalStep(e) PROVE RetiringGone'
  <2>1. retiring' = retiring
    BY <1>7 DEF TerminalStep, Commit, CommitRefused, CommitFails, DeliveriesUnread, RemoveEnded
  <2> QED BY <1>2, <1>7, <2>1, TerminalNarrows
<1>8. ASSUME InitializeFails \/ (\E c \in Codes : RestoreFails(c)) \/ Shutdown \/ Crash PROVE RetiringGone'
  <2>1. retiring' \subseteq retiring
    BY <1>8 DEF InitializeFails, RestoreFails, Shutdown, Crash, memory
  <2> QED BY <1>2, <1>8, <2>1, CrashNarrows
<1>9. ASSUME NEW c \in Codes, BindKey(c) \/ RowAges(c) \/ DeleteStale(c) PROVE RetiringGone'
  <2>1. UNCHANGED <<retiring, registry>>
    BY <1>9 DEF BindKey, RowAges, DeleteStale, memory
  <2> QED BY <1>1, <2>1
<1>10. ASSUME NEW stage \in {"waiting", "started"}, Initialize(stage) PROVE RetiringGone'
  <2>1. /\ binding \in Keys /\ retiring' = retiring /\ binding.code \in Codes
        /\ registry' = [registry EXCEPT ![binding.code] = binding.generation]
    BY <1>10, InitializeShape, KeyFacts
  <2>2. \A c \in Codes : registry'[c] = IF c = binding.code THEN binding.generation ELSE registry[c]
    BY <2>1 DEF Typed, MemoryType
  <2>3. \A t \in retiring : t.key # binding
    BY DEF Fenced, AllKnown, Known
  <2>4. \A t \in retiring : t.key.code = binding.code => t.key.generation # binding.generation
    BY <1>0, <2>1, <2>3, SameKey
  <2> QED BY <1>0, <2>1, <2>2, <2>4 DEF RetiringGone, Registered
<1>11. ASSUME NEW c \in Codes, NEW resumed \in 0..1, Restore(c, resumed) PROVE RetiringGone'
  <2>1. retiring' = {}
    BY <1>11, RestoreCases DEF Booting
  <2> QED BY <2>1 DEF RetiringGone
<1> QED BY <1>3, <1>4, <1>5, <1>6, <1>7, <1>8, <1>9, <1>10, <1>11 DEF PNext

\* Every step keeps the games that live durable.
LEMMA NextDurable ==
    ASSUME Typed, Fenced, Durable, PNext
    PROVE  Durable' /\ KeepsRows
<1>1. Typed' /\ Fenced' /\ ResultsHold
  BY NextTyped, NextFenced, NextResultsHold
<1>2. Booting' /\ RetiringGone'
  BY NextBooting, NextRetiringGone DEF Durable
<1>3. ASSUME Narrows, Continues PROVE Durable' /\ KeepsRows
  BY <1>1, <1>2, <1>3, ContinuingStaysAhead, ContinuingKeepsRows DEF Durable
<1>4. ASSUME NEW c \in Codes, BindKey(c) \/ RowAges(c) \/ DeleteStale(c) \/ RestoreFails(c)
      PROVE  Durable' /\ KeepsRows
  BY <1>1, <1>2, <1>3, <1>4, BindDurable, CleanupDurable, CrashNarrows, CrashContinues DEF Durable
<1>5. ASSUME NEW stage \in {"waiting", "started"}, Initialize(stage) PROVE Durable' /\ KeepsRows
  BY <1>1, <1>2, <1>5, InitializeDurable DEF Durable
<1>6. ASSUME NEW c \in Codes, NEW resumed \in 0..1, Restore(c, resumed) PROVE Durable' /\ KeepsRows
  BY <1>1, <1>2, <1>6, RestoreDurable DEF Durable
<1>7. ASSUME \/ \E w \in Workers : WorkerStep(w)
             \/ \E t \in retiring : RetireUnstarted(t) \/ RetireFails(t)
             \/ \E e \in ending : TerminalStep(e)
             \/ InitializeFails \/ Shutdown \/ Crash
      PROVE  Durable' /\ KeepsRows
  BY <1>3, <1>7, WorkerStepNarrows, WorkerStepContinues, RetireNarrows, RetireContinues,
     TerminalNarrows, TerminalContinues, CrashNarrows, CrashContinues DEF Durable
<1>8. ASSUME NEW k \in Keys,
             \/ \E stage \in Stages, asks \in BOOLEAN : Mutate(k, stage, asks)
             \/ Ask(k) \/ GameOver(k) \/ Abandon(k) \/ Forfeit(k) \/ Dissolve(k) \/ Drop(k) \/ Flush(k)
      PROVE  Durable' /\ KeepsRows
  BY <1>3, <1>8, PlayNarrows, PlayContinues DEF Durable
<1> QED BY <1>4, <1>5, <1>6, <1>7, <1>8 DEF PNext

\* A game that comes into memory has a row to restore it from after a crash, no
\* newer than the game itself, and keeps one until its result is recorded; the
\* only thing that takes it is the cleanup, from a game that was not saved for a
\* day (initialize_full_runtime, the save workers, retire_unstarted_full_session,
\* prepare_full_terminal, delete_stale).
THEOREM LiveGamesDurable == PSpec => LiveGameDurable
<1>1. PInit => Durable
  <2> SUFFICES ASSUME PInit PROVE Durable
    OBVIOUS
  <2>1. \A w \in Workers : worker[w].step = "none"
    BY DEF PInit, Resting
  <2> QED BY <2>1 DEF PInit, Durable, Booting, Ahead, RetiringGone
<1>2. Typed /\ Fenced /\ Durable /\ [PNext]_pvars => Durable'
  <2> SUFFICES ASSUME Typed, Fenced, Durable, UNCHANGED pvars PROVE Durable'
    BY NextDurable
  <2>1. UNCHANGED <<retention, row, active, results, phase, boot, registry, session, worker, retiring, ending>>
    BY DEF pvars, process, db, saves, memory
  <2>2. Booting' /\ RetiringGone'
    BY <2>1 DEF Durable, Booting, RetiringGone, Registered
  <2>3. Ahead'
    BY <2>1 DEF Durable, Ahead, ActiveRow
  <2> QED BY <2>2, <2>3 DEF Durable
<1>3. ASSUME Typed, Fenced, Durable, PNext
      PROVE  \A k \in Keys : Live(k)' /\ (Live(k) => Restorable(k)) =>
               Restorable(k)' \/ (row[k.code].stale /\ row'[k.code] = NoRow)
  <2> SUFFICES ASSUME NEW k \in Keys, Live(k)', Live(k) => Restorable(k),
                      ~(row[k.code].stale /\ row'[k.code] = NoRow)
               PROVE  Restorable(k)'
    OBVIOUS
  <2>1. Typed' /\ Fenced' /\ Durable' /\ KeepsRows
    BY <1>3, NextTyped, NextFenced, NextDurable
  <2>2. HasRow(k)'
    BY <2>1 DEF KeepsRows, Restorable, HasRow
  <2>3. registry'[k.code] = k.generation /\ k.generation # 0 /\ k.code \in Codes /\ k = Key(k.code, k.generation)
    BY KeyFacts DEF Live, Registered
  <2>4. session'[k] # NoSession
    BY <2>1, <2>3 DEF Fenced, LiveRegistered
  <2> QED BY <2>1, <2>2, <2>4 DEF HasRow, Restorable, Durable, Ahead
<1>4. Typed /\ Fenced /\ Durable /\ [PNext]_pvars =>
        [\A k \in Keys : Live(k)' /\ (Live(k) => Restorable(k)) =>
           Restorable(k)' \/ (row[k.code].stale /\ row'[k.code] = NoRow)]_pvars
  BY <1>3
<1> QED BY <1>1, <1>2, <1>4, FencesHold, PTL DEF PSpec, LiveGameDurable
=============================================================================
