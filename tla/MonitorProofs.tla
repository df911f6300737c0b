---------------------------- MODULE MonitorProofs ----------------------------
(***************************************************************************)
(* The monitor's memory is well formed, it never judges what a run of its  *)
(* own process may have caused, and it falls silent about an incident only *)
(* when every sink was told of it: for any number of stacks, services,     *)
(* containers and sinks, any streak and any repeat interval. With a single *)
(* sink it alerts once per incident.                                       *)
(***************************************************************************)
EXTENDS Monitor, TLAPS

\* The counter is odd exactly while a run of the process is under way.
Parity == own = "on" <=> activity = 1

\* From the first read of the counter to the second, a run that was active has
\* left its mark in the counter; a check that got past the second saw none.
Marked ==
    /\ pc = "idle" => ~overlap
    /\ pc \in {"load", "snap", "recheck"} /\ overlap => activity # 0
    /\ pc = "observe" => ~overlap

\* A claim on the key of a stack's current incident was left by a sink that was
\* told of this incident; an alert is remembered only during an incident, and
\* only when every sink was told.
Claimed ==
    \A x \in Stacks :
        /\ mem[x].streak > 0 => \A k \in Sinks : claims[x][k] < Interval => x \in alerted[k]
        /\ mem[x].alerted => mem[x].streak > 0 /\ \A k \in Sinks : x \in alerted[k]

\* With one sink, a sink that was told of a stack's incident was told by an
\* alert that is remembered with the stack.
Told == \A x \in Stacks, k \in Sinks : x \in alerted[k] => mem[x].alerted

WorldTypeOK ==
    /\ live \in [Stacks -> Live]
    /\ record \in [version : Versions \cup {0}, held : BOOLEAN]
    /\ activity \in 0..2
    /\ own \in {"off", "on", "ping"}
    /\ lock \in {"none", "own", "other"}
    /\ news \in BOOLEAN

CheckTypeOK ==
    /\ pc \in {"idle", "load", "snap", "recheck", "observe", "ping"}
    /\ todo \subseteq Stacks
    /\ seen \in [Stacks -> Live]
    /\ got \subseteq Stacks
    /\ key \in Versions \cup {0}
    /\ overlap \in BOOLEAN

MemoryTypeOK ==
    /\ mem \in [Stacks -> Memory]
    /\ claims \in [Stacks -> [Sinks -> 0..Interval]]
    /\ alerted \in [Sinks -> SUBSET Stacks]

LEMMA TypeParts == TypeOK <=> WorldTypeOK /\ CheckTypeOK /\ MemoryTypeOK
BY DEF TypeOK, WorldTypeOK, CheckTypeOK, MemoryTypeOK

LEMMA InitialValues ==
    /\ Nothing \in Live
    /\ NothingSeen \in [Stacks -> Live]
    /\ Forgotten \in Memory
    /\ Unclaimed \in [Sinks -> 0..Interval]
<1> USE MonitorAssumption
<1>1. Nothing \in Live BY DEF Nothing, Live
<1>2. NothingSeen \in [Stacks -> Live] BY <1>1 DEF NothingSeen
<1>3. Forgotten \in Memory BY DEF Forgotten, Memory
<1>4. Unclaimed \in [Sinks -> 0..Interval] BY DEF Unclaimed
<1> QED BY <1>1, <1>2, <1>3, <1>4

LEMMA ThrottleType ==
    ASSUME TypeOK, NEW x \in Stacks
    PROVE  Throttle(x) \in [Sinks -> 0..Interval]
BY InitialValues DEF Throttle, TypeOK

\* Steps of a check that only look.
Looks ==
    \/ CheckBegins \/ LoadFails \/ CheckHeld \/ CheckGoesOn \/ Recheck \/ CheckEnds \/ CheckPings
    \/ \E x \in Stacks : Snapshot(x) \/ SnapshotFails(x)

\* Steps in which a check judges stack x.
Judges(x) ==
    \/ ObserveHealthy(x) \/ ObserveTrouble(x) \/ Alert(x, Open(x)) \/ AlertFails(x)

\* Steps outside the monitor.
Outside ==
    \/ \E x \in Stacks : ContainersChange(x)
    \/ PauseOrResume \/ Tick \/ RunStep

LEMMA NextParts == Next <=> Outside \/ Restart \/ Looks \/ \E x \in Stacks : Judges(x)
BY DEF Next, CheckStep, Outside, Looks, Judges

LEMMA OutcomeTypes ==
    ASSUME NEW r \in [version : Versions \cup {0}, held : BOOLEAN], NEW next \in Outcomes(r)
    PROVE  next \in [version : Versions \cup {0}, held : BOOLEAN]
<1>1. CASE next = r
    BY <1>1
<1>2. CASE next = [r EXCEPT !.held = FALSE]
    BY <1>2
<1>3. CASE \E v \in Versions : next = [held |-> FALSE, version |-> v]
    BY <1>3
<1> QED BY <1>1, <1>2, <1>3 DEF Outcomes

LEMMA BumpType == ASSUME NEW a \in 0..2 PROVE Bump(a) \in 1..2
BY DEF Bump

LEMMA WorldStep ==
    ASSUME TypeOK, [Next]_vars
    PROVE  WorldTypeOK'
<1> USE TypeParts DEF WorldTypeOK
<1>1. CASE UNCHANGED vars
    BY <1>1 DEF vars
<1>2. CASE \/ PauseOrResume \/ OtherLocks \/ RunLocks \/ RunPings \/ RunPends
    BY <1>2 DEF PauseOrResume, OtherLocks, RunLocks, RunPings, RunPends
<1>3. CASE RunBegins \/ TurnedAway \/ LockFails
    BY <1>3 DEF RunBegins, TurnedAway, LockFails, Bump
<1>4. CASE RunEnds \/ OtherEnds
    <2>1. record' \in Outcomes(record)
        BY <1>4 DEF RunEnds, OtherEnds
    <2>2. record' \in [version : Versions \cup {0}, held : BOOLEAN]
        BY <2>1, OutcomeTypes
    <2>3. news' \in BOOLEAN
        BY <1>4, Zenon DEF RunEnds, OtherEnds
    <2>4. live' = live /\ own' \in {"off", "on", "ping"} /\ lock' = "none"
        BY <1>4 DEF RunEnds, OtherEnds
    <2>5. activity' \in {activity, Bump(activity)}
        BY <1>4, Zenon DEF RunEnds, OtherEnds
    <2>6. activity' \in 0..2
        BY <2>5, BumpType
    <2> QED BY <2>2, <2>3, <2>4, <2>6
<1>5. CASE NewsSent \/ Tick
    BY <1>5 DEF NewsSent, Tick, world
<1>6. CASE Restart
    <2>1. live' = live /\ record' = record /\ own' = "off" /\ activity' = 0
        BY <1>6 DEF Restart
    <2>2. lock' \in {"none", "own", "other"}
        BY <1>6 DEF Restart
    <2>3. news' \in BOOLEAN
        BY <1>6, Zenon DEF Restart
    <2> QED BY <2>1, <2>2, <2>3
<1>7. CASE Looks
    BY <1>7 DEF Looks, CheckBegins, LoadFails, CheckHeld, CheckGoesOn, Recheck, CheckEnds,
                CheckPings, Snapshot, SnapshotFails, world
<1>8. ASSUME NEW x \in Stacks, Judges(x) PROVE WorldTypeOK'
    BY <1>8 DEF Judges, ObserveHealthy, ObserveTrouble, Alert, AlertFails, Judge, world
<1>9. ASSUME NEW x \in Stacks, ContainersChange(x) PROVE WorldTypeOK'
    BY <1>9 DEF ContainersChange
<1> QED BY <1>1, <1>2, <1>3, <1>4, <1>5, <1>6, <1>7, <1>8, <1>9, NextParts DEF Outside, RunStep

LEMMA CheckTypeStep ==
    ASSUME TypeOK, [Next]_vars
    PROVE  CheckTypeOK'
<1> USE TypeParts, InitialValues DEF CheckTypeOK
<1>1. CASE UNCHANGED vars
    BY <1>1 DEF vars
<1>2. CASE Outside
    <2>1. UNCHANGED <<pc, todo, seen, got, key>>
        BY <1>2 DEF Outside, ContainersChange, PauseOrResume, Tick, RunStep, RunBegins, RunLocks,
                TurnedAway, LockFails, RunPends, RunEnds, RunPings, NewsSent, OtherLocks,
                OtherEnds, check
    <2>2. overlap' \in BOOLEAN
        BY <1>2 DEF Outside, ContainersChange, PauseOrResume, Tick, RunStep, RunBegins, RunLocks,
                TurnedAway, LockFails, RunPends, RunEnds, RunPings, NewsSent, OtherLocks,
                OtherEnds
    <2> QED BY <2>1, <2>2
<1>3. CASE Restart
    BY <1>3 DEF Restart
<1>4. CASE CheckBegins \/ LoadFails \/ CheckHeld \/ CheckEnds \/ CheckPings
    BY <1>4 DEF CheckBegins, LoadFails, CheckHeld, CheckEnds, CheckPings
<1>5. CASE CheckGoesOn
    BY <1>5 DEF CheckGoesOn, OnHold, WorldTypeOK
<1>6. CASE Recheck
    BY <1>6 DEF Recheck
<1>7. ASSUME NEW x \in Stacks, Snapshot(x) \/ SnapshotFails(x) PROVE CheckTypeOK'
    BY <1>7 DEF Snapshot, SnapshotFails, AfterSnapshot, WorldTypeOK
<1>8. ASSUME NEW x \in Stacks, Judges(x) PROVE CheckTypeOK'
    <2>1. Judge(x)
        BY <1>8 DEF Judges, ObserveHealthy, ObserveTrouble, Alert, AlertFails
    <2>2. UNCHANGED <<pc, todo, key, overlap>> /\ got' \subseteq got
        BY <2>1 DEF Judge
    <2>3. seen' \in [Stacks -> Live]
        BY <2>1 DEF Judge
    <2> QED BY <2>2, <2>3
<1> QED BY <1>1, <1>2, <1>3, <1>4, <1>5, <1>6, <1>7, <1>8, NextParts DEF Looks

\* What is remembered of a snapshot fits the memory.
LEMMA RememberType ==
    ASSUME NEW m \in Memory, NEW s \in Live
    PROVE  /\ Remember(m, s) \in Memory
           /\ \A n \in 0..Streak, b \in BOOLEAN :
                [Remember(m, s) EXCEPT !.streak = n, !.alerted = b] \in Memory
<1>1. Remember(m, s) \in Memory
    BY DEF Remember, Memory, Live
<1> HIDE DEF Remember
<1> QED BY <1>1 DEF Memory

LEMMA MemoryStep ==
    ASSUME TypeOK, [Next]_vars
    PROVE  MemoryTypeOK'
<1> USE TypeParts, InitialValues, MonitorAssumption DEF MemoryTypeOK
<1>1. CASE UNCHANGED <<mem, claims, alerted>>
    BY <1>1
<1>2. CASE Tick
    <2>1. \A x \in Stacks, k \in Sinks :
            (IF claims[x][k] < Interval THEN claims[x][k] + 1 ELSE Interval) \in 0..Interval
        OBVIOUS
    <2> QED BY <1>2, <2>1 DEF Tick
<1>3. CASE NewsSent \/ Restart \/ CheckGoesOn
    BY <1>3 DEF NewsSent, Restart, CheckGoesOn
<1>4. ASSUME NEW x \in Stacks, Judges(x) PROVE MemoryTypeOK'
    <2>0. mem[x] \in Memory /\ seen[x] \in Live /\ NextStreak(x) \in 0..Streak /\ mem[x].alerted \in BOOLEAN
        BY DEF CheckTypeOK, NextStreak, Memory
    <2> DEFINE Kept(n, b) == [Remember(mem[x], seen[x]) EXCEPT !.streak = n, !.alerted = b]
    <2>1. CASE ObserveHealthy(x)
        <3>0. 0 \in 0..Streak /\ FALSE \in BOOLEAN
            OBVIOUS
        <3>1. Kept(0, FALSE) \in Memory
            BY <2>0, <3>0, RememberType, Zenon
        <3>2. mem' = [mem EXCEPT ![x] = Kept(0, FALSE)]
            BY <2>1 DEF ObserveHealthy
        <3>3. alerted' \in [Sinks -> SUBSET Stacks]
            BY <2>1 DEF ObserveHealthy
        <3> QED BY <2>1, <3>1, <3>2, <3>3 DEF ObserveHealthy
    <2>2. CASE ObserveTrouble(x)
        <3>1. Remember(mem[x], seen[x]) \in Memory
            BY <2>0, RememberType
        <3>2. [Remember(mem[x], seen[x]) EXCEPT !.streak = NextStreak(x)] \in Memory
            BY <2>0, <3>1 DEF Memory
        <3> QED BY <2>2, <3>2, ThrottleType DEF ObserveTrouble
    <2>3. ASSUME NEW ok \in SUBSET Sinks, Alert(x, ok) PROVE MemoryTypeOK'
        <3>1. (ok = Open(x)) \in BOOLEAN
            OBVIOUS
        <3>2. [Remember(mem[x], seen[x]) EXCEPT !.streak = NextStreak(x), !.alerted = (ok = Open(x))] \in Memory
            BY <2>0, <3>1, RememberType, Zenon
        <3>5. mem' \in [Stacks -> Memory]
            BY <2>3, <3>2 DEF Alert
        <3>3. alerted' \in [Sinks -> SUBSET Stacks]
            BY <2>3 DEF Alert
        <3>4. claims' \in [Stacks -> [Sinks -> 0..Interval]]
            BY <2>3, ThrottleType DEF Alert
        <3> QED BY <3>3, <3>4, <3>5
    <2> QED BY <1>4, <2>1, <2>2, <2>3 DEF Judges, AlertFails, Open
<1> QED
    BY <1>1, <1>2, <1>3, <1>4, NextParts DEF vars, check, Outside, ContainersChange, PauseOrResume,
        RunStep, RunBegins, RunLocks, TurnedAway, LockFails, RunPends, RunEnds, RunPings,
        OtherLocks, OtherEnds, Looks, CheckBegins, LoadFails, CheckHeld, Recheck, CheckEnds,
        CheckPings, Snapshot, SnapshotFails

LEMMA InitialTypes == Init => TypeOK
<1> SUFFICES ASSUME Init PROVE TypeOK
    OBVIOUS
<1>1. WorldTypeOK
    <2>1. record \in [version : Versions \cup {0}, held : BOOLEAN]
        BY DEF Init
    <2>2. news \in BOOLEAN
        BY Zenon DEF Init
    <2>3. activity \in 0..2 /\ live \in [Stacks -> Live] /\ own = "off" /\ lock = "none"
        BY InitialValues DEF Init
    <2> QED BY <2>1, <2>2, <2>3 DEF WorldTypeOK
<1>2. CheckTypeOK
    BY InitialValues DEF Init, CheckTypeOK
<1>3. MemoryTypeOK
    BY InitialValues DEF Init, MemoryTypeOK
<1> QED BY <1>1, <1>2, <1>3, TypeParts

\* The check's view of containers and its memory of each stack stay well formed
\* through runs, restarts and failing sinks.
THEOREM MonitorTypes == Spec => []TypeOK
<1>1. TypeOK /\ [Next]_vars => TypeOK'
    BY WorldStep, CheckTypeStep, MemoryStep DEF TypeOK, WorldTypeOK, CheckTypeOK, MemoryTypeOK
<1> QED BY <1>1, InitialTypes, PTL DEF Spec

-----------------------------------------------------------------------------
LEMMA QuietStep ==
    ASSUME TypeOK, Parity, Marked, [Next]_vars
    PROVE  Parity' /\ Marked'
<1> USE DEF Parity, Marked
<1>0. activity \in 0..2 BY DEF TypeOK
<1>1. CASE UNCHANGED vars
    BY <1>1 DEF vars
<1>2. CASE \/ PauseOrResume \/ Tick \/ RunLocks \/ RunPends \/ NewsSent \/ OtherLocks \/ OtherEnds
           \/ \E x \in Stacks : ContainersChange(x)
    BY <1>2 DEF PauseOrResume, Tick, RunLocks, RunPends, NewsSent, OtherLocks, OtherEnds,
                ContainersChange, check, world
<1>3. CASE RunBegins
    BY <1>0, <1>3 DEF RunBegins, Bump, check, TypeOK
<1>4. CASE TurnedAway \/ LockFails \/ RunEnds
    <2>1. own = "on" /\ own' # "on" /\ activity' = Bump(activity) /\ pc' = pc
        BY <1>4 DEF TurnedAway, LockFails, RunEnds, check
    <2>2. overlap' = overlap
        BY <1>4 DEF TurnedAway, LockFails, RunEnds
    <2>3. activity' = 2
        BY <2>1 DEF Bump
    <2> QED BY <2>1, <2>2, <2>3
<1>5. CASE RunPings
    BY <1>5 DEF RunPings, check
<1>6. CASE Restart
    BY <1>6 DEF Restart
<1>7. CASE CheckBegins
    <2>1. own # "on" /\ own' = own /\ activity' = 0 /\ pc' = "load"
        BY <1>0, <1>7 DEF CheckBegins
    <2>2. overlap' = FALSE
        BY <1>7, <2>1, Zenon DEF CheckBegins
    <2> QED BY <2>1, <2>2
<1>8. CASE LoadFails \/ CheckHeld \/ CheckGoesOn \/ CheckEnds \/ CheckPings
    BY <1>8 DEF LoadFails, CheckHeld, CheckGoesOn, CheckEnds, CheckPings, world
<1>9. CASE Recheck
    BY <1>9 DEF Recheck, world
<1>10. ASSUME NEW x \in Stacks, Snapshot(x) \/ SnapshotFails(x) PROVE Parity' /\ Marked'
    <2>1. own' = own /\ activity' = activity /\ pc = "snap" /\ pc' \in {"snap", "recheck"}
        BY <1>10 DEF Snapshot, SnapshotFails, AfterSnapshot, world
    <2>2. overlap' = overlap
        BY <1>10 DEF Snapshot, SnapshotFails
    <2> QED BY <2>1, <2>2
<1>11. ASSUME NEW x \in Stacks, Judges(x) PROVE Parity' /\ Marked'
    <2>1. Judge(x)
        BY <1>11 DEF Judges, ObserveHealthy, ObserveTrouble, Alert, AlertFails
    <2> QED BY <2>1 DEF Judge, world
<1> QED BY <1>1, <1>2, <1>3, <1>4, <1>5, <1>6, <1>7, <1>8, <1>9, <1>10, <1>11, NextParts
        DEF Outside, RunStep, Looks

\* The two reads of the activity counter (monitor.go:71, 96) are enough: what a
\* check judges was seen while no run of the process was active, however many
\* runs began and ended in between.
THEOREM QuietTimes == Spec => []JudgesQuietTimesOnly
<1>1. Init => Parity /\ Marked
    BY DEF Init, Parity, Marked
<1>2. TypeOK /\ Parity /\ Marked /\ [Next]_vars => Parity' /\ Marked'
    BY QuietStep
<1>3. Marked => JudgesQuietTimesOnly
    BY DEF Marked, JudgesQuietTimesOnly
<1> QED BY <1>1, <1>2, <1>3, MonitorTypes, PTL DEF Spec

-----------------------------------------------------------------------------
\* What each judgement notes of the stack it is about, and what it leaves alone.
LEMMA TroubleMemory ==
    ASSUME TypeOK, NEW x \in Stacks, ObserveTrouble(x)
    PROVE  /\ mem'[x].streak = NextStreak(x) /\ mem'[x].alerted = mem[x].alerted
           /\ claims'[x] = Throttle(x)
           /\ \A y \in Stacks : y # x => mem'[y] = mem[y] /\ claims'[y] = claims[y]
BY DEF ObserveTrouble, TypeOK, Remember, Memory

LEMMA AlertMemory ==
    ASSUME TypeOK, NEW x \in Stacks, NEW ok \in SUBSET Open(x), Alert(x, ok)
    PROVE  /\ mem'[x].streak = NextStreak(x)
           /\ mem'[x].alerted <=> ok = Open(x)
           /\ \A k \in Sinks : k \in ok \/ claims'[x][k] = Throttle(x)[k]
           /\ \A y \in Stacks : y # x => mem'[y] = mem[y] /\ claims'[y] = claims[y]
           /\ \A k \in Sinks, y \in Stacks : y \in alerted'[k] <=> y \in alerted[k] \/ (y = x /\ k \in ok)
<1>1. mem'[x].streak = NextStreak(x) /\ mem'[x].alerted = (ok = Open(x))
    BY DEF Alert, TypeOK, Remember, Memory
<1>5. mem'[x].alerted <=> ok = Open(x)
    BY <1>1, Zenon
<1>2. \A k \in Sinks : k \in ok \/ claims'[x][k] = Throttle(x)[k]
    BY DEF Alert, TypeOK
<1>3. \A y \in Stacks : y # x => mem'[y] = mem[y] /\ claims'[y] = claims[y]
    BY DEF Alert, TypeOK
<1>4. \A k \in Sinks, y \in Stacks : y \in alerted'[k] <=> y \in alerted[k] \/ (y = x /\ k \in ok)
    BY DEF Alert, TypeOK
<1> QED BY <1>1, <1>2, <1>3, <1>4, <1>5

LEMMA NextStreakPositive ==
    ASSUME TypeOK, NEW x \in Stacks
    PROVE  NextStreak(x) \in 1..Streak
BY MonitorAssumption DEF NextStreak, TypeOK, Memory

LEMMA HealthyMemory ==
    ASSUME TypeOK, NEW x \in Stacks, ObserveHealthy(x)
    PROVE  /\ mem'[x].streak = 0 /\ ~mem'[x].alerted
           /\ \A y \in Stacks : y # x => mem'[y] = mem[y]
           /\ claims' = claims
           /\ \A k \in Sinks : alerted'[k] = alerted[k] \ {x}
<1>1. mem'[x].streak = 0 /\ ~mem'[x].alerted
    BY DEF ObserveHealthy, TypeOK, Remember, Memory
<1>2. \A y \in Stacks : y # x => mem'[y] = mem[y]
    BY DEF ObserveHealthy, TypeOK
<1>3. claims' = claims /\ \A k \in Sinks : alerted'[k] = alerted[k] \ {x}
    BY DEF ObserveHealthy
<1> QED BY <1>1, <1>2, <1>3

\* A stack without an incident is remembered so.
LEMMA ForgottenMemory == Forgotten.streak = 0 /\ ~Forgotten.alerted
BY DEF Forgotten

\* A sink that a check would pass over was told of the incident.
LEMMA ThrottleTold ==
    ASSUME TypeOK, Claimed, NEW x \in Stacks
    PROVE  \A k \in Sinks : Throttle(x)[k] = Interval \/ x \in alerted[k]
<1>1. CASE mem[x].streak = 0
    BY <1>1 DEF Throttle, Unclaimed
<1>2. CASE mem[x].streak # 0
    <2>1. mem[x].streak > 0
        BY <1>2 DEF TypeOK, Memory
    <2>2. \A k \in Sinks : claims[x][k] \in 0..Interval
        BY DEF TypeOK
    <2>3. \A k \in Sinks : claims[x][k] = Interval \/ claims[x][k] < Interval
        BY <2>2, MonitorAssumption
    <2> QED BY <1>2, <2>1, <2>3 DEF Throttle, Claimed
<1> QED BY <1>1, <1>2

LEMMA ClaimedStep ==
    ASSUME TypeOK, Claimed, [Next]_vars
    PROVE  Claimed'
<1> USE MonitorAssumption DEF Claimed
<1>1. CASE UNCHANGED <<mem, claims, alerted>>
    BY <1>1
<1>2. CASE Tick
    <2>1. mem' = mem /\ alerted' = alerted
        BY <1>2 DEF Tick
    <2>2. \A x \in Stacks, k \in Sinks : claims'[x][k] < Interval => claims[x][k] < Interval
        BY <1>2 DEF Tick, TypeOK
    <2> QED BY <2>1, <2>2
<1>3. CASE NewsSent
    <2>1. mem' = mem /\ alerted' = alerted
        BY <1>3 DEF NewsSent
    <2>2. \A x \in Stacks, k \in Sinks : claims'[x][k] = Interval
        BY <1>3 DEF NewsSent, Unclaimed
    <2> QED BY <2>1, <2>2
<1>4. CASE Restart \/ (CheckGoesOn /\ record.version # key)
    <2>1. \A x \in Stacks : mem'[x] = Forgotten
        BY <1>4 DEF Restart, CheckGoesOn
    <2> QED BY <2>1, ForgottenMemory
<1>5. CASE CheckGoesOn /\ record.version = key
    BY <1>5 DEF CheckGoesOn
<1>6. ASSUME NEW x \in Stacks, ObserveHealthy(x)
      PROVE  Claimed'
    <2>1. \A k \in Sinks : \A y \in Stacks : y # x => (y \in alerted'[k] <=> y \in alerted[k])
        BY <1>6, HealthyMemory
    <2> QED BY <1>6, <2>1, HealthyMemory
<1>7. ASSUME NEW x \in Stacks, ObserveTrouble(x)
      PROVE  Claimed'
    <2>1. alerted' = alerted
        BY <1>7 DEF ObserveTrouble
    <2>2. \A k \in Sinks : claims'[x][k] < Interval => x \in alerted'[k]
        BY <1>7, <2>1, TroubleMemory, ThrottleTold
    <2> QED BY <1>7, <2>1, <2>2, TroubleMemory, NextStreakPositive
<1>8. ASSUME NEW x \in Stacks, NEW ok \in SUBSET Open(x), Alert(x, ok)
      PROVE  Claimed'
    <2>1. /\ mem'[x].streak = NextStreak(x)
          /\ mem'[x].alerted <=> ok = Open(x)
        BY <1>8, AlertMemory, Zenon
    <2>2. /\ \A k \in Sinks : k \in ok \/ claims'[x][k] = Throttle(x)[k]
          /\ \A k \in Sinks, y \in Stacks : y \in alerted'[k] <=> y \in alerted[k] \/ (y = x /\ k \in ok)
        BY <1>8, AlertMemory, Zenon
    <2>3. \A y \in Stacks : y # x => mem'[y] = mem[y] /\ claims'[y] = claims[y]
        BY <1>8, AlertMemory, Zenon
    <2>4. \A k \in Sinks : \A y \in Stacks : y # x => (y \in alerted'[k] <=> y \in alerted[k])
        BY <2>2
    <2>5. \A k \in Sinks : claims'[x][k] < Interval => x \in alerted'[k]
        BY <2>2, ThrottleTold
    <2>6. ok = Open(x) => \A k \in Sinks : x \in alerted'[k]
        BY <2>2, ThrottleTold DEF Open
    <2>7. mem'[x].streak > 0
        BY <2>1, NextStreakPositive
    <2>8. mem'[x].alerted => \A k \in Sinks : x \in alerted'[k]
        BY <2>1, <2>6
    <2> QED BY <2>3, <2>4, <2>5, <2>7, <2>8
<1> QED
    BY <1>1, <1>2, <1>3, <1>4, <1>5, <1>6, <1>7, <1>8, NextParts DEF vars, check, Outside,
        ContainersChange, PauseOrResume, RunStep, RunBegins, RunLocks, TurnedAway, LockFails,
        RunPends, RunEnds, RunPings, OtherLocks, OtherEnds, Looks, CheckBegins, LoadFails,
        CheckHeld, Recheck, CheckEnds, CheckPings, Snapshot, SnapshotFails, Judges, AlertFails

\* For any number of stacks and sinks, through refused messages, resets and
\* expired claims: the monitor stops telling of an incident (monitor.go:140) only
\* when every sink was told of it (monitor.go:157), since the number in the key
\* keeps the claims of earlier incidents apart.
THEOREM SilentOnceTold == Spec => []ToldBeforeSilent
<1>1. Init => Claimed
    BY ForgottenMemory DEF Init, Claimed
<1>2. TypeOK /\ Claimed /\ [Next]_vars => Claimed'
    BY ClaimedStep
<1>3. Claimed => ToldBeforeSilent
    BY DEF Claimed, ToldBeforeSilent
<1> QED BY <1>1, <1>2, <1>3, MonitorTypes, PTL DEF Spec

-----------------------------------------------------------------------------
LEMMA ToldStep ==
    ASSUME TypeOK, Told, [Next]_vars, NEW only, Sinks = {only}
    PROVE  /\ Told'
           /\ \A x \in Stacks : \A ok \in SUBSET Open(x) :
                Alert(x, ok) => \A k \in ok : x \notin alerted[k]
<1> USE DEF Told
<1>0. \A x \in Stacks : \A ok \in SUBSET Open(x) : Alert(x, ok) => \A k \in ok : x \notin alerted[k]
    BY DEF Alert, Open
<1>1. CASE UNCHANGED <<mem, alerted>>
    BY <1>0, <1>1
<1>2. CASE Restart \/ (CheckGoesOn /\ record.version # key)
    BY <1>0, <1>2 DEF Restart, CheckGoesOn
<1>3. ASSUME NEW x \in Stacks, ObserveHealthy(x) PROVE Told'
    BY <1>3, HealthyMemory
<1>4. ASSUME NEW x \in Stacks, ObserveTrouble(x) PROVE Told'
    <2>1. alerted' = alerted
        BY <1>4 DEF ObserveTrouble
    <2> QED BY <1>4, <2>1, TroubleMemory
<1>5. ASSUME NEW x \in Stacks, NEW ok \in SUBSET Open(x), Alert(x, ok) PROVE Told'
    <2>1. ok = {} \/ ok = Open(x)
        BY DEF Open
    <2>2. \A k \in Sinks : x \notin alerted[k]
        BY <1>5 DEF Alert
    <2>3. mem'[x].alerted <=> ok = Open(x)
        BY <1>5, AlertMemory, Zenon
    <2>4. /\ \A k \in Sinks, y \in Stacks : y \in alerted'[k] <=> y \in alerted[k] \/ (y = x /\ k \in ok)
          /\ \A y \in Stacks : y # x => mem'[y] = mem[y]
        BY <1>5, AlertMemory, Zenon
    <2>5. \A k \in Sinks : x \in alerted'[k] => mem'[x].alerted
        BY <2>1, <2>2, <2>3, <2>4
    <2>6. \A k \in Sinks, y \in Stacks : y # x => (y \in alerted'[k] <=> y \in alerted[k])
        BY <2>4
    <2> QED BY <2>4, <2>5, <2>6
<1> QED
    BY <1>0, <1>1, <1>2, <1>3, <1>4, <1>5, NextParts DEF vars, check, Outside, ContainersChange,
        PauseOrResume, Tick, RunStep, RunBegins, RunLocks, TurnedAway, LockFails, RunPends, RunEnds,
        RunPings, NewsSent, OtherLocks, OtherEnds, Looks, CheckBegins, LoadFails, CheckHeld,
        CheckGoesOn, Recheck, CheckEnds, CheckPings, Snapshot, SnapshotFails, Judges, AlertFails

\* With one sink (Discord alone), a sink that was told of a stack hears of it
\* again only after the stack was seen healthy or the deployment changed, also
\* when a run's message or the end of the hour has lifted the throttle.
THEOREM OneAlert ==
    ASSUME NEW only, Sinks = {only}
    PROVE  Spec => OneAlertPerIncident
<1>1. Init => Told
    BY DEF Init, Told
<1>2. TypeOK /\ Told /\ [Next]_vars =>
        /\ Told'
        /\ [\A x \in Stacks : \A ok \in SUBSET Open(x) :
              Alert(x, ok) => \A k \in ok : x \notin alerted[k]]_vars
    BY ToldStep
<1> QED BY <1>1, <1>2, MonitorTypes, PTL DEF Spec, OneAlertPerIncident
==============================================================================
