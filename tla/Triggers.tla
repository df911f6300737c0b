------------------------------ MODULE Triggers ------------------------------
(***************************************************************************)
(* What makes `composelock webhook` run: deliveries of the Git host, the   *)
(* one-slot queue and its worker (internal/webhook/server.go), the lock on *)
(* the state file that other composelock processes hold, the deploy window *)
(* and the timer for its opening (cmd/composelock/commands.go), and the    *)
(* shutdown of the server. What a run does with the commit it picks up is  *)
(* in module Reconcile.                                                    *)
(*                                                                         *)
(* Pushes to the branch are numbered; a delivery announces one of them, or *)
(* none (0) when its body says nothing. The Git host may lose, repeat and  *)
(* reorder deliveries. Time is counted in minutes of the day, the unit of  *)
(* deploy_window; timers fire in the minute they are set for.              *)
(***************************************************************************)
EXTENDS Integers

CONSTANTS
    MaxPushes,
    Day,         \* minutes in a day
    Start, End,  \* deploy_window
    FirstMinute, \* when the process starts
    Operators,   \* other processes that reconcile: `sync`, from cron or by hand
    Readers,     \* processes that take the lock in shared mode: `status`, `check`
    Worker,      \* the webhook server's own runs
    Failures     \* whether runs can fail before they have decided

ASSUME TriggersAssumption ==
    /\ MaxPushes \in Nat
    /\ Day \in Nat \ {0}
    /\ Start \in 0..(Day - 1) /\ End \in 0..(Day - 1) /\ Start # End
    /\ FirstMinute \in 0..(Day - 1)
    /\ Worker \notin Operators
    /\ Failures \in BOOLEAN

Runs == {Worker} \cup Operators

Pushes == 0..MaxPushes

NoTimer == -1

VARIABLES
    clock,     \* minute of the day
    branch,    \* the newest push
    accepted,  \* history: the newest push whose delivery was answered 202
    queue,     \* Server.triggers holds a trigger
    server,    \* Serve: "serving", "closing" (Shutdown), "failed" (listener),
               \* "draining", "exited"
    worker,    \* processTriggers: "waiting", "running", "schedule", "gone"
    run,       \* run[p]: "none", "starting", "locked", "fetched", "deploying"
    sees,      \* sees[p]: the push that the fetch of run p saw
    readers,   \* the readers holding the lock in shared mode
    timer,     \* minutes until windowTimer fires, or NoTimer
    handled,   \* the newest push a run has taken on
    held,      \* history: the newest push the worker found outside the window
    missed     \* history: the newest push accepted when a run of the worker
               \* was turned away or failed, or when the process ended

vars == <<clock, branch, accepted, queue, server, worker, run, sees, readers,
          timer, handled, held, missed>>

TypeOK ==
    /\ clock \in 0..(Day - 1)
    /\ branch \in Pushes /\ accepted \in Pushes
    /\ handled \in Pushes /\ held \in Pushes /\ missed \in Pushes
    /\ queue \in BOOLEAN
    /\ server \in {"serving", "closing", "failed", "draining", "exited"}
    /\ worker \in {"waiting", "running", "schedule", "gone"}
    /\ run \in [Runs -> {"none", "starting", "locked", "fetched", "deploying"}]
    /\ sees \in [Runs -> Pushes]
    /\ readers \subseteq Readers
    /\ timer \in 0..Day \cup {NoTimer}

Init ==
    /\ clock = FirstMinute
    /\ branch = 0 /\ accepted = 0 /\ handled = 0 /\ held = 0 /\ missed = 0
    /\ queue = FALSE
    /\ server = "serving"
    /\ worker = "waiting"
    /\ run = [p \in Runs |-> "none"]
    /\ sees = [p \in Runs |-> 0]
    /\ readers = {}
    /\ timer = NoTimer

-----------------------------------------------------------------------------
(* The deploy window. *)

Open(t) == IF Start < End THEN t >= Start /\ t < End
                          ELSE t >= Start \/ t < End

\* Mutant: the opening is tomorrow's, also when today's is still to come.
UntilOpeningTomorrow(t) == Start + Day - t

\* NextOpening, as the minutes until then: strictly in the future, and not
\* later than this time tomorrow.
UntilOpening(t) == IF t < Start THEN Start - t ELSE Start + Day - t

\* A due timer fires before the minute is over.
Tick ==
    /\ timer # 0
    /\ clock' = (clock + 1) % Day
    /\ timer' = IF timer = NoTimer THEN NoTimer ELSE timer - 1
    /\ UNCHANGED <<branch, accepted, queue, server, worker, run, sees, readers,
                   handled, held, missed>>

-----------------------------------------------------------------------------
(* The Git host and handleWebhook. *)

Push ==
    /\ branch < MaxPushes
    /\ branch' = branch + 1
    /\ UNCHANGED <<clock, accepted, queue, server, worker, run, sees, readers,
                   timer, handled, held, missed>>

\* validSignature, the event header, pushRef and refMatches.
Requests == [signed : BOOLEAN, event : {"none", "push", "ping", "other"},
             ref : {"unreadable", "branch", "other"}]

TriggersRun(request) ==
    /\ request.signed
    /\ request.event \in {"none", "push"}
    /\ request.ref # "other"

\* Mutant: no trigger is queued while a run is under way.
TriggerUnlessRunning == queue' = (worker # "running" \/ queue)

\* Trigger: a send that does not wait. The slot is empty from the moment the
\* worker took the last trigger.
Trigger == queue' = TRUE

\* handleWebhook. Handlers in flight when the server closes are completed. The
\* few that outlive srv.Shutdown or a failed listener are left out: what they
\* queue is forgotten with the process, as ProcessEnds does with every queue.
Deliver ==
    /\ server \in {"serving", "closing"}
    /\ \E request \in Requests, push \in 0..branch :
         /\ TriggersRun(request)
         /\ accepted' = IF push > accepted THEN push ELSE accepted
    /\ Trigger
    /\ UNCHANGED <<clock, branch, server, worker, run, sees, readers, timer,
                   handled, held, missed>>

-----------------------------------------------------------------------------
(* The state lock: flock, exclusive for runs and shared for readers. *)

Holds(p) == run[p] \in {"locked", "fetched", "deploying"}

CanLock == readers = {} /\ \A p \in Runs : ~Holds(p)

ReaderLocks(r) ==
    /\ r \notin readers
    /\ \A p \in Runs : ~Holds(p)
    /\ readers' = readers \cup {r}
    /\ UNCHANGED <<clock, branch, accepted, queue, server, worker, run, sees,
                   timer, handled, held, missed>>

ReaderUnlocks(r) ==
    /\ r \in readers
    /\ readers' = readers \ {r}
    /\ UNCHANGED <<clock, branch, accepted, queue, server, worker, run, sees,
                   timer, handled, held, missed>>

-----------------------------------------------------------------------------
(* One Reconcile of process p, as far as triggers see it. *)

\* Mutant: the worker keeps its context when only the listener has failed.
WorkerDoneByProcess == server \in {"closing", "draining"}

\* The worker's context: done with the process's, and when Serve returns.
WorkerDone == server \in {"closing", "draining", "failed"}

Cancelled(p) == p = Worker /\ WorkerDone

\* The run is over and the lock released; the worker goes on at step.
Return(p, step) ==
    /\ run' = [run EXCEPT ![p] = "none"]
    /\ sees' = [sees EXCEPT ![p] = 0]
    /\ worker' = IF p = Worker THEN step ELSE worker

\* Mutant: a panic in Reconcile takes the worker down with it.
ReturnEmptyHandedPanics(p) ==
    /\ Return(p, "gone")
    /\ missed' = IF p = Worker THEN accepted ELSE missed

\* ... without having taken on what it was triggered for.
ReturnEmptyHanded(p) ==
    /\ Return(p, "waiting")
    /\ missed' = IF p = Worker THEN accepted ELSE missed

OperatorStarts(p) ==
    /\ p \in Operators
    /\ run[p] = "none"
    /\ run' = [run EXCEPT ![p] = "starting"]
    /\ UNCHANGED <<clock, branch, accepted, queue, server, worker, sees, readers,
                   timer, handled, held, missed>>

Lock(p) ==
    /\ run[p] = "starting"
    /\ CanLock
    /\ run' = [run EXCEPT ![p] = "locked"]
    /\ UNCHANGED <<clock, branch, accepted, queue, server, worker, sees, readers,
                   timer, handled, held, missed>>

\* SkipLocked: TryLock does not wait.
TurnedAway(p) ==
    /\ run[p] = "starting"
    /\ ~CanLock
    /\ ReturnEmptyHanded(p)
    /\ UNCHANGED <<clock, branch, accepted, queue, server, readers, timer,
                   handled, held>>

Fetch(p) ==
    /\ run[p] = "locked"
    /\ ~Cancelled(p)
    /\ run' = [run EXCEPT ![p] = "fetched"]
    /\ sees' = [sees EXCEPT ![p] = branch]
    /\ UNCHANGED <<clock, branch, accepted, queue, server, worker, readers, timer,
                   handled, held, missed>>

\* The run fails or panics before it has taken anything on, or finds a pause or
\* DEGRADED.
Fails(p) ==
    /\ Failures \/ Cancelled(p)
    /\ run[p] \in {"starting", "locked", "fetched"}
    /\ ReturnEmptyHanded(p)
    /\ UNCHANGED <<clock, branch, accepted, queue, server, readers, timer,
                   handled, held>>

NothingNew(p) ==
    /\ run[p] = "fetched"
    /\ sees[p] = handled
    /\ Return(p, "waiting")
    /\ UNCHANGED <<clock, branch, accepted, queue, server, readers, timer,
                   handled, held, missed>>

\* The run gets as far as a record of its own; from there recovery and not the
\* next trigger carries it on.
TakeOn(p) ==
    /\ run[p] = "fetched"
    /\ sees[p] # handled
    /\ Open(clock)
    /\ ~Cancelled(p)
    /\ handled' = sees[p]
    /\ run' = [run EXCEPT ![p] = "deploying"]
    /\ UNCHANGED <<clock, branch, accepted, queue, server, worker, sees, readers,
                   timer, held, missed>>

\* SkipOutsideWindow
OutsideWindow(p) ==
    /\ run[p] = "fetched"
    /\ sees[p] # handled
    /\ ~Open(clock)
    /\ held' = IF p = Worker THEN sees[p] ELSE held
    /\ Return(p, "schedule")
    /\ UNCHANGED <<clock, branch, accepted, queue, server, readers, timer,
                   handled, missed>>

Deployed(p) ==
    /\ run[p] = "deploying"
    /\ Return(p, "waiting")
    /\ UNCHANGED <<clock, branch, accepted, queue, server, readers, timer,
                   handled, held, missed>>

RunStep(p) ==
    \/ Lock(p) \/ TurnedAway(p) \/ Fetch(p) \/ Fails(p)
    \/ NothingNew(p) \/ TakeOn(p) \/ OutsideWindow(p) \/ Deployed(p)

-----------------------------------------------------------------------------
(* processTriggers, windowTimer and the end of Serve. *)

\* select chooses freely when the context is done as well.
TakeTrigger ==
    /\ worker = "waiting"
    /\ queue
    /\ queue' = FALSE
    /\ worker' = "running"
    /\ run' = [run EXCEPT ![Worker] = "starting"]
    /\ UNCHANGED <<clock, branch, accepted, server, sees, readers, timer, handled,
                   held, missed>>

\* windowTimer.schedule, with a reading of the clock of its own.
Schedule ==
    /\ worker = "schedule"
    /\ timer' = UntilOpening(clock)
    /\ worker' = "waiting"
    /\ UNCHANGED <<clock, branch, accepted, queue, server, run, sees, readers,
                   handled, held, missed>>

TimerFires ==
    /\ timer = 0
    /\ timer' = NoTimer
    /\ Trigger
    /\ UNCHANGED <<clock, branch, accepted, server, worker, run, sees, readers,
                   handled, held, missed>>

WorkerStops ==
    /\ worker = "waiting"
    /\ WorkerDone
    /\ worker' = "gone"
    /\ UNCHANGED <<clock, branch, accepted, queue, server, run, sees, readers,
                   timer, handled, held, missed>>

\* SIGTERM, the listener's failure, and the end of srv.Shutdown.
Server(from, to) ==
    /\ server = from
    /\ server' = to
    /\ UNCHANGED <<clock, branch, accepted, queue, worker, run, sees, readers,
                   timer, handled, held, missed>>

Terminate == Server("serving", "closing")
ListenerFails == Server("serving", "failed")
ShutdownEnds == Server("closing", "draining")

\* Mutant: Serve returns without waiting for the worker.
ProcessEndsAtOnce ==
    /\ server \in {"draining", "failed"}
    /\ server' = "exited"
    /\ queue' = FALSE
    /\ timer' = NoTimer
    /\ missed' = accepted
    /\ UNCHANGED <<clock, branch, accepted, worker, run, sees, readers, handled,
                   held>>

\* drain, windowTimer.stop: what is still queued or scheduled is forgotten.
ProcessEnds ==
    /\ server \in {"draining", "failed"}
    /\ worker = "gone"
    /\ server' = "exited"
    /\ queue' = FALSE
    /\ timer' = NoTimer
    /\ missed' = accepted
    /\ UNCHANGED <<clock, branch, accepted, worker, run, sees, readers, handled,
                   held>>

\* The supervisor starts the process again; it does not run until triggered.
Restart ==
    /\ server = "exited"
    /\ server' = "serving"
    /\ worker' = "waiting"
    /\ UNCHANGED <<clock, branch, accepted, queue, run, sees, readers, timer,
                   handled, held, missed>>

-----------------------------------------------------------------------------

Environment ==
    \/ Tick \/ Push \/ Deliver \/ Terminate \/ ListenerFails \/ Restart
    \/ \E r \in Readers : ReaderLocks(r) \/ ReaderUnlocks(r)
    \/ \E p \in Operators : OperatorStarts(p)

WorkerStep == RunStep(Worker) \/ TakeTrigger \/ Schedule \/ WorkerStops

Next ==
    \/ Environment
    \/ WorkerStep
    \/ \E p \in Operators : RunStep(p)
    \/ TimerFires \/ ShutdownEnds \/ ProcessEnds

Spec == Init /\ [][Next]_vars

\* The worker and the server go on; runs of other processes may hang, and time
\* and deliveries do as they like.
Fairness ==
    /\ WF_vars(WorkerStep)
    /\ WF_vars(TimerFires)
    /\ WF_vars(ShutdownEnds)
    /\ WF_vars(ProcessEnds)

FairSpec == Spec /\ Fairness

-----------------------------------------------------------------------------
(* Properties. *)

\* A run that will still look at the branch, or is about to decide on a fetch
\* that saw the newest accepted push.
Coming ==
    \/ queue
    \/ run[Worker] \in {"starting", "locked"}
    \/ run[Worker] = "fetched" /\ sees[Worker] >= accepted

\* A push held back by the window has a timer, or is about to get one.
Held == held >= accepted /\ (worker = "schedule" \/ timer # NoTimer)

\* One slot is enough: a delivery that handleWebhook accepted is never behind
\* the fetch of the last run. Unless its run was turned away or failed, its
\* push has been taken on, or a run or a timer for it is due, however
\* deliveries, runs and the window interleave.
DeliveryIsHeeded ==
    server = "serving" =>
        handled >= accepted \/ missed >= accepted \/ Coming \/ Held

\* A process that has ended left no run behind: the state lock is free for the
\* next one (drain).
NoRunIsLeftBehind == server = "exited" => ~Holds(Worker)

\* Every accepted delivery gets its decision: its push is taken on or held, or
\* the run for it was turned away, failed or ended with the process.
DeliveryIsAnswered ==
    \A push \in 1..MaxPushes :
        accepted >= push ~> handled >= push \/ held >= push \/ missed >= push

\* Serve returns once the process is told to stop or the listener failed.
Stops == server # "serving" ~> server = "exited"

\* docs/running.md:65, "a push held outside the window schedules one reconcile
\* for the moment the window opens, so it deploys without another push": with
\* nothing left to run, no push waits for a later opening in an open window.
HeldPushMeetsTheWindow ==
    /\ server = "serving" /\ worker = "waiting" /\ ~queue
    /\ held > handled
    /\ Open(clock)
    => timer = 0
=============================================================================
