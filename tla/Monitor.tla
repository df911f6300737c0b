-------------------------------- MODULE Monitor --------------------------------
(***************************************************************************)
(* The health monitor of a poll or webhook process                         *)
(* (internal/reconcile/monitor.go) beside the reconcile runs of the same   *)
(* process and of another one, and the heartbeat both send.                *)
(*                                                                         *)
(* A check reads the activity counter, the record, one snapshot per stack  *)
(* and the counter again, while runs start, end, replace containers and    *)
(* change the record in between. Runs of another process hold the state    *)
(* lock but do not move this process's counter.                            *)
(*                                                                         *)
(* An alert's throttle key names the stack and the number of its incident, *)
(* which no earlier incident of the process had. Nobody else uses it, so   *)
(* SendThrottled is one step here, and the claims on the key of the        *)
(* stack's last incident are all that is kept of the throttle; module      *)
(* Notifier has the rest.                                                  *)
(***************************************************************************)
EXTENDS Integers, FiniteSets

CONSTANTS
    Stacks,          \* the stacks the record names
    Services,        \* services a stack may have containers for
    Sinks,
    Streak,          \* health_unhealthy_streak
    Interval,        \* RepeatInterval, in ticks
    Ids,             \* container ids a stack's containers may have
    MaxRestarts      \* where restart counts stop

ASSUME MonitorAssumption ==
    /\ Streak \in Nat \ {0}
    /\ Interval \in Nat \ {0}
    /\ MaxRestarts \in Nat
    /\ 0 \in Ids /\ Ids \subseteq Nat

VARIABLES
    live,      \* live[x]: the containers of stack x
    record,    \* the state file: what was deployed last, and whether a pending
               \* commit or revert, or a pause, tells the monitor to hold back
    activity,  \* the process's activity counter, odd during a run
    own,       \* the process's run: "off", "on", or about to send its heartbeat
    lock,      \* who holds the state lock: "none", "own" or "other"
    pc,        \* where the check is
    todo,      \* stacks whose snapshot the check has still to take
    seen,      \* seen[x]: the check's snapshot of x
    got,       \* stacks with a snapshot that is still to be judged
    key,       \* Monitor.key: the deployment the memory is about
    mem,       \* Monitor.stacks
    claims,    \* claims[x][k]: age of the claim of x's last incident at sink k
    news,      \* a run's success message is on its way to the notifier
    \* history
    overlap,   \* a run of this process was active while the check was looking
    alerted    \* alerted[k]: stacks sink k has been told of since they were last
               \* seen healthy or the deployment changed

vars == <<live, record, activity, own, lock, pc, todo, seen, got, key, mem, claims,
          news, overlap, alerted>>
world == <<live, record, activity, own, lock, news>>
check == <<pc, todo, seen, got, key, mem, claims>>

\* The containers of one stack: the services that have one, whether
\* EvaluatePreflight objects to one of them, and the identity and restart
\* count of its containers, which are created together.
Live == [up : SUBSET Services, sick : BOOLEAN, id : Ids, restarts : 0..MaxRestarts]

\* key is "" before the first check, then a deployment; versions stand for the
\* last healthy commit, the expected checkout and the names of the stacks.
Versions == 1..2

Memory == [services : SUBSET Services,
           id       : Ids \cup {-1},       \* -1: no container remembered
           restarts : 0..MaxRestarts,
           streak   : 0..Streak,          \* only compared with 0 and Streak
           alerted  : BOOLEAN]

Forgotten == [services |-> {}, id |-> -1, restarts |-> 0, streak |-> 0, alerted |-> FALSE]

TypeOK ==
    /\ live \in [Stacks -> Live]
    /\ record \in [version : Versions \cup {0}, held : BOOLEAN]
    /\ activity \in 0..2
    /\ own \in {"off", "on", "ping"}
    /\ lock \in {"none", "own", "other"}
    /\ pc \in {"idle", "load", "snap", "recheck", "observe", "ping"}
    /\ todo \subseteq Stacks
    /\ seen \in [Stacks -> Live]
    /\ got \subseteq Stacks
    /\ key \in Versions \cup {0}
    /\ mem \in [Stacks -> Memory]
    /\ claims \in [Stacks -> [Sinks -> 0..Interval]]
    /\ news \in BOOLEAN
    /\ overlap \in BOOLEAN
    /\ alerted \in [Sinks -> SUBSET Stacks]

Nothing == [up |-> {}, sick |-> FALSE, id |-> 0, restarts |-> 0]
Unclaimed == [k \in Sinks |-> Interval]
NothingSeen == [x \in Stacks |-> Nothing]

Init ==
    /\ live = NothingSeen
    /\ record = [version |-> 0, held |-> FALSE]
    /\ activity = 0
    /\ own = "off"
    /\ lock = "none"
    /\ pc = "idle"
    /\ todo = {}
    /\ seen = NothingSeen
    /\ got = {}
    /\ key = 0
    /\ mem = [x \in Stacks |-> Forgotten]
    /\ claims = [x \in Stacks |-> Unclaimed]
    /\ news = FALSE
    /\ overlap = FALSE
    /\ alerted = [k \in Sinks |-> {}]

-----------------------------------------------------------------------------
(* Containers, the operator, time. *)

\* Docker, a run or somebody else changes the containers of a stack. A
\* container keeps its identity while its restart count grows; a new one
\* starts counting anew.
ContainersChange(x) ==
    /\ \E new \in Live :
         /\ new.up = {} => new = [Nothing EXCEPT !.id = live[x].id]
         /\ new.up # {} => \/ new.id = live[x].id /\ new.restarts >= live[x].restarts
                           \/ new.id # live[x].id /\ new.restarts = 0
         /\ live' = [live EXCEPT ![x] = new]
    /\ UNCHANGED <<record, activity, own, lock, news, check, overlap, alerted>>

\* Deployments are paused or resumed, or the time of a pause is over.
PauseOrResume ==
    /\ record' = [record EXCEPT !.held = ~@]
    /\ UNCHANGED <<live, activity, own, lock, news, check, overlap, alerted>>

Tick ==
    /\ claims' = [x \in Stacks |-> [k \in Sinks |->
                    IF claims[x][k] < Interval THEN claims[x][k] + 1 ELSE Interval]]
    /\ UNCHANGED <<world, pc, todo, seen, got, key, mem, overlap, alerted>>

-----------------------------------------------------------------------------
(* Runs. *)

\* The counter is only compared with what the check has read, and a check
\* starts it at 0: above that its parity is enough.
Bump(a) == IF a = 2 THEN 1 ELSE a + 1

\* Reconcile has the single-flight mutex and announces itself.
RunBegins ==
    /\ own = "off"
    /\ own' = "on"
    /\ activity' = Bump(activity)
    /\ overlap' = (overlap \/ pc \in {"load", "snap", "recheck"})
    /\ UNCHANGED <<live, record, lock, news, check, alerted>>

\* The state lock is taken, or another process has it.
RunLocks ==
    /\ own = "on"
    /\ lock = "none"
    /\ lock' = "own"
    /\ UNCHANGED <<live, record, activity, own, news, check, overlap, alerted>>

TurnedAway ==
    /\ own = "on"
    /\ lock = "other"
    /\ own' = "off"
    /\ activity' = Bump(activity)
    /\ UNCHANGED <<live, record, lock, news, check, overlap, alerted>>

\* Taking the lock fails; the run counts as completed.
LockFails ==
    /\ own = "on"
    /\ lock # "own"
    /\ own' = "ping"
    /\ activity' = Bump(activity)
    /\ UNCHANGED <<live, record, lock, news, check, overlap, alerted>>

OtherLocks ==
    /\ lock = "none"
    /\ lock' = "other"
    /\ UNCHANGED <<live, record, activity, own, news, check, overlap, alerted>>

\* A run saves its pending record.
RunPends ==
    /\ lock # "none"
    /\ record' = [record EXCEPT !.held = TRUE]
    /\ UNCHANGED <<live, activity, own, lock, news, check, overlap, alerted>>

\* What a run leaves in the record: a promoted commit, possibly the one before;
\* or the old one, held or not.
Outcomes(r) ==
    {r, [r EXCEPT !.held = FALSE]} \cup {[held |-> FALSE, version |-> v] : v \in Versions}

RunEnds ==
    /\ own = "on"
    /\ lock = "own"
    /\ record' \in Outcomes(record)
    /\ news' \in {news, TRUE}
    /\ lock' = "none"
    /\ own' = "ping"
    /\ activity' = Bump(activity)
    /\ UNCHANGED <<live, check, overlap, alerted>>

OtherEnds ==
    /\ lock = "other"
    /\ record' \in Outcomes(record)
    /\ lock' = "none"
    /\ UNCHANGED <<live, activity, own, news, check, overlap, alerted>>

\* Reconcile's own heartbeat, after the lock is gone.
RunPings ==
    /\ own = "ping"
    /\ own' = "off"
    /\ UNCHANGED <<live, record, activity, lock, news, check, overlap, alerted>>

\* The message of a successful run has no key and resets the throttle.
NewsSent ==
    /\ news
    /\ news' = FALSE
    /\ claims' = [x \in Stacks |-> Unclaimed]
    /\ UNCHANGED <<live, record, activity, own, lock, pc, todo, seen, got, key, mem,
                   overlap, alerted>>

\* The process dies, or is told to stop, and is started again. The monitor's
\* memory goes with it; a check whose context ends sends no heartbeat.
Restart ==
    /\ own' = "off" /\ activity' = 0 /\ news' = FALSE
    /\ lock' = IF lock = "own" THEN "none" ELSE lock
    /\ pc' = "idle" /\ todo' = {} /\ seen' = NothingSeen /\ got' = {}
    /\ key' = 0
    /\ mem' = [x \in Stacks |-> Forgotten]
    /\ claims' = [x \in Stacks |-> Unclaimed]
    /\ overlap' = FALSE
    /\ alerted' = [k \in Sinks |-> {}]
    /\ UNCHANGED <<live, record>>

-----------------------------------------------------------------------------
(* Check. *)

\* Mutant: a check begins during a run too, and is only discarded later.
CheckBeginsAnyway ==
    /\ pc = "idle"
    /\ activity' = IF activity % 2 = 0 THEN 0 ELSE activity
    /\ pc' = "load"
    /\ UNCHANGED <<live, record, own, lock, news, todo, seen, got, key, mem, claims, overlap, alerted>>

\* The ticker fires. During a run the check returns at once, without a
\* heartbeat.
CheckBegins ==
    /\ pc = "idle"
    /\ activity % 2 = 0
    /\ activity' = 0
    /\ pc' = "load"
    /\ overlap' = (own = "on")
    /\ UNCHANGED <<live, record, own, lock, news, todo, seen, got, key, mem, claims, alerted>>

\* Mutant: a check without a record is one that was not completed.
LoadFailsSilently ==
    /\ pc = "load"
    /\ pc' = "idle"
    /\ overlap' = FALSE
    /\ UNCHANGED <<world, todo, seen, got, key, mem, claims, alerted>>

\* The record cannot be read, or the stacks not be discovered.
LoadFails ==
    /\ pc = "load"
    /\ pc' = "ping"
    /\ UNCHANGED <<world, todo, seen, got, key, mem, claims, overlap, alerted>>

OnHold == record.held \/ record.version = 0

CheckHeld ==
    /\ pc = "load"
    /\ OnHold
    /\ pc' = "ping"
    /\ UNCHANGED <<world, todo, seen, got, key, mem, claims, overlap, alerted>>

\* Mutant: the deployment that the memory is about is not noted.
CheckGoesOnForgets ==
    /\ pc = "load"
    /\ ~OnHold
    /\ pc' = "snap"
    /\ todo' = Stacks
    /\ mem' = [x \in Stacks |-> Forgotten]
    /\ alerted' = [k \in Sinks |-> {}]
    /\ UNCHANGED <<world, seen, got, key, claims, overlap>>

\* Another deployment than last time: the memory is cleared.
CheckGoesOn ==
    /\ pc = "load"
    /\ ~OnHold
    /\ pc' = "snap"
    /\ todo' = Stacks
    /\ key' = record.version
    /\ IF record.version = key
       THEN UNCHANGED <<mem, alerted>>
       ELSE /\ mem' = [x \in Stacks |-> Forgotten]
            /\ alerted' = [k \in Sinks |-> {}]
    /\ UNCHANGED <<world, seen, got, claims, overlap>>

AfterSnapshot(x) ==
    /\ pc = "snap"
    /\ x \in todo
    /\ todo' = todo \ {x}
    /\ pc' = IF todo = {x} THEN "recheck" ELSE "snap"

Snapshot(x) ==
    /\ AfterSnapshot(x)
    /\ seen' = [seen EXCEPT ![x] = live[x]]
    /\ got' = got \cup {x}
    /\ UNCHANGED <<world, key, mem, claims, overlap, alerted>>

SnapshotFails(x) ==
    /\ AfterSnapshot(x)
    /\ UNCHANGED <<world, seen, got, key, mem, claims, overlap, alerted>>

\* Mutant: only a run still under way discards the check.
RecheckParity ==
    /\ pc = "recheck"
    /\ IF activity % 2 = 0
       THEN pc' = "observe" /\ UNCHANGED <<seen, got>>
       ELSE pc' = "idle" /\ seen' = NothingSeen /\ got' = {}
    /\ overlap' = (overlap /\ pc' = "observe")
    /\ UNCHANGED <<world, todo, key, mem, claims, alerted>>

\* The counter has moved: what was seen may be a run's doing.
Recheck ==
    /\ pc = "recheck"
    /\ IF activity = 0
       THEN pc' = "observe" /\ UNCHANGED <<seen, got>>
       ELSE pc' = "idle" /\ seen' = NothingSeen /\ got' = {}
    /\ overlap' = (overlap /\ pc' = "observe")
    /\ UNCHANGED <<world, todo, key, mem, claims, alerted>>

\* stackMemory.problem
Problem(m, s) ==
    \/ s.up = {}
    \/ ~(m.services \subseteq s.up)
    \/ s.sick
    \/ s.id = m.id /\ s.restarts > m.restarts

\* stackMemory.remember
Remember(m, s) ==
    [m EXCEPT !.services = @ \cup s.up,
              !.id = IF s.up = {} THEN -1 ELSE s.id,
              !.restarts = s.restarts]

Judge(x) ==
    /\ pc = "observe"
    /\ x \in got
    /\ got' = got \ {x}
    /\ seen' = [seen EXCEPT ![x] = Nothing]
    /\ UNCHANGED <<world, pc, todo, key, overlap>>

\* The incident is over. Its claims stay where they are.
ObserveHealthy(x) ==
    /\ Judge(x)
    /\ ~Problem(mem[x], seen[x])
    /\ mem' = [mem EXCEPT ![x] = [Remember(@, seen[x]) EXCEPT !.streak = 0, !.alerted = FALSE]]
    /\ alerted' = [k \in Sinks |-> alerted[k] \ {x}]
    /\ UNCHANGED claims

\* The code counts on; the streak is only compared with 0 and with Streak.
NextStreak(x) == IF mem[x].streak < Streak THEN mem[x].streak + 1 ELSE Streak

\* Mutant: the throttle key names the stack alone.
ThrottleByStack(x) == claims[x]

\* The claims on the key of the incident that a check with trouble is about:
\* trouble after none is a new incident, and nobody has claimed its key.
Throttle(x) == IF mem[x].streak = 0 THEN Unclaimed ELSE claims[x]

\* Trouble that has been told of, or has not lasted long enough.
ObserveTrouble(x) ==
    /\ Judge(x)
    /\ Problem(mem[x], seen[x])
    /\ mem[x].alerted \/ NextStreak(x) < Streak
    /\ mem' = [mem EXCEPT ![x] = [Remember(@, seen[x]) EXCEPT !.streak = NextStreak(x)]]
    /\ claims' = [claims EXCEPT ![x] = Throttle(x)]
    /\ UNCHANGED alerted

\* Sinks SendThrottled posts to: those without a claim on this incident.
Open(x) == {k \in Sinks : Throttle(x)[k] = Interval}

\* The alert goes out; the sinks in ok accept it, and a claim that led to
\* nothing is released. A sink that holds a claim already counts as told.
Alert(x, ok) ==
    /\ Judge(x)
    /\ Problem(mem[x], seen[x])
    /\ ~mem[x].alerted
    /\ NextStreak(x) >= Streak
    /\ mem' = [mem EXCEPT ![x] = [Remember(@, seen[x]) EXCEPT !.streak = NextStreak(x),
                                                             !.alerted = (ok = Open(x))]]
    /\ claims' = [claims EXCEPT ![x] = [k \in Sinks |-> IF k \in ok THEN 0 ELSE Throttle(x)[k]]]
    /\ alerted' = [k \in Sinks |-> IF k \in ok THEN alerted[k] \cup {x} ELSE alerted[k]]

AlertFails(x) == \E ok \in (SUBSET Open(x)) \ {Open(x)} : Alert(x, ok)

CheckEnds ==
    /\ pc = "observe"
    /\ got = {}
    /\ pc' = "ping"
    /\ UNCHANGED <<world, todo, seen, got, key, mem, claims, overlap, alerted>>

\* A completed check sends the heartbeat.
CheckPings ==
    /\ pc = "ping"
    /\ pc' = "idle"
    /\ overlap' = FALSE
    /\ UNCHANGED <<world, todo, seen, got, key, mem, claims, alerted>>

CheckStep ==
    \/ LoadFails \/ CheckHeld \/ CheckGoesOn
    \/ \E x \in Stacks : Snapshot(x) \/ SnapshotFails(x)
    \/ Recheck
    \/ \E x \in Stacks : ObserveHealthy(x) \/ ObserveTrouble(x) \/ Alert(x, Open(x)) \/ AlertFails(x)
    \/ CheckEnds \/ CheckPings

RunStep ==
    \/ RunBegins \/ RunLocks \/ TurnedAway \/ LockFails \/ RunPends \/ RunEnds \/ RunPings \/ NewsSent
    \/ OtherLocks \/ OtherEnds

Next ==
    \/ \E x \in Stacks : ContainersChange(x)
    \/ PauseOrResume \/ Tick \/ Restart
    \/ RunStep
    \/ CheckBegins \/ CheckStep

Spec == Init /\ [][Next]_vars

\* The ticker fires again and again and a check goes on, its Docker and HTTP
\* calls having timeouts. Runs may hang.
FairSpec == Spec /\ WF_vars(CheckBegins) /\ WF_vars(CheckStep)

-----------------------------------------------------------------------------

\* What the monitor judges was seen while no run of its own process was active,
\* not even one that came and went between the two reads of the counter.
JudgesQuietTimesOnly == pc = "observe" => ~overlap

\* A stack is remembered as alerted, and its incident so never told of again,
\* only when every sink was told of this very incident: a sink that SendThrottled
\* passes over as told already was told of this one, not of an earlier incident
\* or deployment, and a message it refused is not taken for one it got.
ToldBeforeSilent ==
    \A x \in Stacks : mem[x].alerted => \A k \in Sinks : x \in alerted[k]

\* docs/notifications.md:25, "There is one alert per incident: nothing more is
\* sent while the stack stays broken", and :113, of two sinks one of which fails,
\* "the other does not receive duplicates": a sink that was told of a stack hears
\* of it again only after the stack was seen healthy or the deployment changed.
OneAlertPerIncident ==
    [][\A x \in Stacks : \A ok \in SUBSET Open(x) :
         Alert(x, ok) => \A k \in ok : x \notin alerted[k]]_vars

\* Between runs, a stack that stays broken is told of at every sink, unless
\* checks or posts to that sink keep failing or the process keeps dying: no
\* interleaving with runs, pauses, other stacks or another sink that fails
\* leaves a state in which the streak cannot grow or the sink is passed over.
Broken(x) == live[x].up = {} \/ live[x].sick
Quiet == ~OnHold /\ own = "off" /\ lock = "none"
Refused(x, k) == \E ok \in SUBSET Open(x) : k \in Open(x) \ ok /\ Alert(x, ok)
BrokenIsAlerted ==
    \A x \in Stacks, k \in Sinks :
        <>[](Broken(x) /\ Quiet) =>
            \/ <>[](x \in alerted[k])
            \/ []<><<LoadFails \/ SnapshotFails(x) \/ Refused(x, k) \/ Restart>>_vars

\* docs/running.md:27, a process that "hangs inside a reconcile" goes silent:
\* while a run does not end, the monitor's heartbeats stop.
HungRunGoesSilent == <>[](own = "on") => <>[][~CheckPings]_vars

\* As long as runs end, some heartbeat is always still to come, unless the
\* process keeps dying or the lock keeps turning its runs away.
AliveIsHeard ==
    []<>(own # "on") => []<><<CheckPings \/ RunPings \/ TurnedAway \/ Restart>>_vars
================================================================================
