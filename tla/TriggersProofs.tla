--------------------------- MODULE TriggersProofs ---------------------------
(***************************************************************************)
(* No accepted delivery is forgotten, and no run outlives its process, for *)
(* any number of pushes, other processes and any deploy window.            *)
(***************************************************************************)
EXTENDS Triggers, TLAPS

\* The worker waits for the run it started.
WorkerWaits ==
    /\ run[Worker] # "none" => worker = "running"
    /\ server = "exited" => worker = "gone" /\ missed = accepted

\* One run at a time holds the lock.
OneHolder == \A p, q \in Runs : Holds(p) /\ Holds(q) => p = q

\* What a fetch saw is no older than anything decided before it.
FetchIsFresh ==
    /\ accepted <= branch /\ handled <= branch /\ held <= branch
    /\ \A p \in Runs : run[p] = "fetched" => sees[p] >= handled /\ sees[p] <= branch
    /\ run[Worker] = "fetched" => sees[Worker] >= held

TriggersInv ==
    TypeOK /\ WorkerWaits /\ OneHolder /\ FetchIsFresh /\ DeliveryIsHeeded

\* The initial state has nothing accepted, running or decided.
LEMMA TriggersInit == Init => TriggersInv
<1> SUFFICES ASSUME Init PROVE TriggersInv
  OBVIOUS
<1>1. Worker \in Runs BY DEF Runs
<1>2. TypeOK
  <2>1. /\ run \in [Runs -> {"none", "starting", "locked", "fetched", "deploying"}]
        /\ sees = [p \in Runs |-> 0]
    BY DEF Init
  <2>2. 0 \in Pushes BY TriggersAssumption DEF Pushes
  <2>3. sees \in [Runs -> Pushes] BY <2>1, <2>2
  <2>4. clock \in 0..(Day - 1) BY TriggersAssumption DEF Init
  <2> QED BY <2>1, <2>2, <2>3, <2>4 DEF Init, TypeOK
<1>3. /\ WorkerWaits /\ OneHolder /\ FetchIsFresh /\ DeliveryIsHeeded
  BY <1>1 DEF Init, WorkerWaits, OneHolder, FetchIsFresh, DeliveryIsHeeded, Holds
<1> QED BY <1>2, <1>3 DEF TriggersInv

\* The next opening lies in the future, at most a day away.
LEMMA OpeningAhead ==
    ASSUME NEW t \in 0..(Day - 1)
    PROVE  UntilOpening(t) \in 1..Day
  BY TriggersAssumption DEF UntilOpening

\* The clock, the Git host and other processes keep the invariant.
LEMMA EnvironmentKeeps == TriggersInv /\ Environment => TriggersInv'
<1> SUFFICES ASSUME TriggersInv, Environment PROVE TriggersInv'
  OBVIOUS
<1> USE TriggersAssumption
    DEF TriggersInv, TypeOK, WorkerWaits, OneHolder, FetchIsFresh, DeliveryIsHeeded,
        Coming, Held, Holds, Pushes
<1>1. CASE Tick
  <2>1. clock' \in 0..(Day - 1) BY <1>1 DEF Tick
  <2>2. /\ timer' \in 0..Day \cup {NoTimer}
        /\ timer # NoTimer => timer' # NoTimer
    BY <1>1 DEF Tick, NoTimer
  <2> QED BY <1>1, <2>1, <2>2 DEF Tick
<1>2. CASE Push BY <1>2 DEF Push
<1>3. CASE Deliver BY <1>3 DEF Deliver, Trigger
<1>4. CASE Terminate \/ ListenerFails BY <1>4 DEF Terminate, ListenerFails, Server
<1>5. CASE Restart BY <1>5 DEF Restart
<1>6. ASSUME NEW r \in Readers, ReaderLocks(r) \/ ReaderUnlocks(r) PROVE TriggersInv'
  BY <1>6 DEF ReaderLocks, ReaderUnlocks
<1>7. ASSUME NEW p \in Operators, OperatorStarts(p) PROVE TriggersInv'
  <2>1. p \in Runs /\ p # Worker /\ Worker \in Runs BY DEF Runs
  <2> QED BY <1>7, <2>1 DEF OperatorStarts
<1> QED BY <1>1, <1>2, <1>3, <1>4, <1>5, <1>6, <1>7 DEF Environment

\* A run that returns releases the lock and leaves the other runs alone.
LEMMA ReturnKeeps ==
    ASSUME TriggersInv, NEW p \in Runs, NEW step, Return(p, step)
    PROVE  /\ run' \in [Runs -> {"none", "starting", "locked", "fetched", "deploying"}]
           /\ sees' \in [Runs -> Pushes]
           /\ run'[p] = "none"
           /\ \A q \in Runs : q # p => run'[q] = run[q] /\ sees'[q] = sees[q]
  BY TriggersAssumption DEF TriggersInv, TypeOK, Return, Pushes

\* The steps of a run keep the invariant, whoever's run it is.
LEMMA RunKeeps ==
    ASSUME TriggersInv, NEW p \in Runs, RunStep(p)
    PROVE  TriggersInv'
<1>0. Worker \in Runs BY DEF Runs
<1> USE <1>0, TriggersAssumption
    DEF TriggersInv, TypeOK, WorkerWaits, OneHolder, FetchIsFresh, DeliveryIsHeeded,
        Coming, Held, Holds, Pushes
<1>1. CASE Lock(p) BY <1>1 DEF Lock, CanLock
<1>2. CASE TurnedAway(p) \/ Fails(p)
  <2>1. Return(p, "waiting") BY <1>2 DEF TurnedAway, Fails, ReturnEmptyHanded
  <2>2. missed' = (IF p = Worker THEN accepted ELSE missed)
    BY <1>2 DEF TurnedAway, Fails, ReturnEmptyHanded
  <2>3. /\ UNCHANGED <<clock, branch, accepted, queue, server, readers, timer, handled, held>>
        /\ run[p] # "none"
    BY <1>2 DEF TurnedAway, Fails
  <2>4. worker' = IF p = Worker THEN "waiting" ELSE worker BY <2>1 DEF Return
  <2> QED BY <2>1, <2>2, <2>3, <2>4, ReturnKeeps
<1>3. CASE Fetch(p) BY <1>3 DEF Fetch
<1>4. CASE NothingNew(p) \/ Deployed(p)
  <2>1. Return(p, "waiting") BY <1>4 DEF NothingNew, Deployed
  <2>2. /\ UNCHANGED <<clock, branch, accepted, queue, server, readers, timer, handled, held, missed>>
        /\ run[p] \in {"fetched", "deploying"}
        /\ run[p] = "fetched" => sees[p] = handled
    BY <1>4 DEF NothingNew, Deployed
  <2>3. worker' = IF p = Worker THEN "waiting" ELSE worker BY <2>1 DEF Return
  <2> QED BY <2>1, <2>2, <2>3, ReturnKeeps
<1>5. CASE TakeOn(p) BY <1>5 DEF TakeOn
<1>6. CASE OutsideWindow(p)
  <2>1. Return(p, "schedule") BY <1>6 DEF OutsideWindow
  <2>2. /\ UNCHANGED <<clock, branch, accepted, queue, server, readers, timer, handled, missed>>
        /\ run[p] = "fetched"
        /\ held' = IF p = Worker THEN sees[p] ELSE held
    BY <1>6 DEF OutsideWindow
  <2>3. worker' = IF p = Worker THEN "schedule" ELSE worker BY <2>1 DEF Return
  <2> QED BY <2>1, <2>2, <2>3, ReturnKeeps
<1> QED BY <1>1, <1>2, <1>3, <1>4, <1>5, <1>6 DEF RunStep

\* The worker between runs, the timer and the end of the process keep it.
LEMMA ServerKeeps ==
    ASSUME TriggersInv,
           TakeTrigger \/ Schedule \/ WorkerStops \/ TimerFires \/ ShutdownEnds \/ ProcessEnds
    PROVE  TriggersInv'
<1>0. Worker \in Runs BY DEF Runs
<1> USE <1>0, TriggersAssumption
    DEF TriggersInv, TypeOK, WorkerWaits, OneHolder, FetchIsFresh, DeliveryIsHeeded,
        Coming, Held, Holds, Pushes
<1>1. CASE TakeTrigger BY <1>1 DEF TakeTrigger
<1>2. CASE Schedule
  <2>1. timer' \in 1..Day BY <1>2, OpeningAhead DEF Schedule
  <2> QED BY <1>2, <2>1 DEF Schedule, NoTimer
<1>3. CASE WorkerStops BY <1>3 DEF WorkerStops, WorkerDone
<1>4. CASE TimerFires BY <1>4 DEF TimerFires, Trigger, NoTimer
<1>5. CASE ShutdownEnds BY <1>5 DEF ShutdownEnds, Server
<1>6. CASE ProcessEnds BY <1>6 DEF ProcessEnds
<1> QED BY <1>1, <1>2, <1>3, <1>4, <1>5, <1>6

\* The invariant is inductive.
LEMMA TriggersInvariant == Spec => []TriggersInv
<1>1. TriggersInv /\ Next => TriggersInv'
  <2> SUFFICES ASSUME TriggersInv, Next PROVE TriggersInv'
    OBVIOUS
  <2>1. Worker \in Runs /\ Operators \subseteq Runs BY DEF Runs
  <2> QED BY <2>1, EnvironmentKeeps, RunKeeps, ServerKeeps DEF Next, WorkerStep
<1>2. TriggersInv /\ UNCHANGED vars => TriggersInv'
  BY DEF vars, TriggersInv, TypeOK, WorkerWaits, OneHolder, FetchIsFresh,
         DeliveryIsHeeded, Coming, Held, Holds
<1> QED BY <1>1, <1>2, TriggersInit, PTL DEF Spec

\* One slot is enough for the webhook's triggers (Trigger, processTriggers): no
\* accepted delivery is left behind the last fetch without a run or a timer.
THEOREM NoDeliveryForgotten == Spec => []DeliveryIsHeeded
  BY TriggersInvariant, PTL DEF TriggersInv

\* drain: when the process has ended, its worker holds no lock.
THEOREM DrainWaits == Spec => []NoRunIsLeftBehind
<1>1. TriggersInv => NoRunIsLeftBehind
  BY DEF TriggersInv, WorkerWaits, NoRunIsLeftBehind, Holds
<1> QED BY <1>1, TriggersInvariant, PTL

\* The trigger queue holds at most one delivery, and the lock at most one run.
THEOREM TriggerTypes == Spec => []TypeOK
  BY TriggersInvariant, PTL DEF TriggersInv
=============================================================================
