----------------------------- MODULE HealthWatch -----------------------------
(***************************************************************************)
(* health.Watch (internal/health/health.go): one stack is polled through   *)
(* its watch window and judged. A snapshot maps the containers present to  *)
(* what Docker reports of them. The states of a container are told apart   *)
(* as far as the watch does: "completed" and "failed" are exited with code *)
(* 0 or another one, "dead" is dead or removing, "created" is any other    *)
(* state that is not running, and "fine" is a healthcheck that is absent,  *)
(* none or healthy. Service names only appear in messages and are left out.*)
(*                                                                         *)
(* The verdict of a poll does not depend on the order of its containers:   *)
(* the loop returns at the first that fails, and then no streak matters.   *)
(***************************************************************************)
EXTENDS Integers, Sequences, FiniteSets

CONSTANTS
    Stacks,        \* what Docker may say of a stack; see StackAssumption
    Windows,       \* WatchDuration, in ticks; 0 disables the watch
    Streaks,       \* UnhealthyStreakLimit
    Tolerances,    \* RestartTolerance
    PollInterval,  \* in ticks
    Stalls         \* ticks that a suspended process may lose at once

States == {"running", "completed", "failed", "dead", "restarting", "created"}

Healths == {"fine", "starting", "unhealthy"}

\* The ids its containers may have, the states and healthchecks reported of
\* them, and a bound on their restart counts.
ASSUME StackAssumption ==
    \A s \in Stacks : /\ s.reports \subseteq [state : States, health : Healths]
                     /\ s.maxRestarts \in Nat

ASSUME WatchAssumption ==
    /\ Windows \subseteq Nat
    /\ Streaks \subseteq Nat \ {0}
    /\ Tolerances \subseteq Nat
    /\ PollInterval \in Nat \ {0}
    /\ Stalls \subseteq Nat \ {0}

VARIABLES
    stack,      \* the stack being watched
    opts,       \* health.Options
    phase,      \* "start", "watching" or "done"
    now,        \* the clock
    deadline,
    base,       \* the restart counts of the baseline's containers
    polls,      \* the snapshots since then, of which Watch keeps the last
    wedged,     \* wedgedStreaks
    unhealthy,  \* unhealthyStreaks
    outcome     \* "none" until Watch returns

vars == <<stack, opts, phase, now, deadline, base, polls, wedged, unhealthy, outcome>>

Containers == UNION {s.containers : s \in Stacks}

Status(s) == {[state |-> r.state, health |-> r.health, restarts |-> n] :
                 r \in s.reports, n \in 0..s.maxRestarts}

Snapshots == [s \in Stacks |-> UNION {[present -> Status(s)] : present \in SUBSET s.containers}]

Baselines == [s \in Stacks |->
                 UNION {[present -> 0..s.maxRestarts] : present \in SUBSET s.containers}]

Options == [window : Windows, streak : Streaks, tolerance : Tolerances,
            expect : BOOLEAN]

TypeOK ==
    /\ stack \in Stacks
    /\ opts \in Options
    /\ phase \in {"start", "watching", "done"}
    /\ now \in Nat
    /\ deadline \in Nat
    /\ base \in Baselines[stack]
    /\ polls \in Seq(Snapshots[stack])
    /\ wedged \in [Containers -> Nat]
    /\ unhealthy \in [Containers -> Nat]
    /\ outcome \in {"none", "healthy", "unhealthy", "error"}

Init ==
    /\ stack \in Stacks
    /\ opts \in Options
    /\ phase = "start"
    /\ now = 0
    /\ deadline = 0
    /\ base = <<>>
    /\ polls = <<>>
    /\ wedged = [c \in Containers |-> 0]
    /\ unhealthy = [c \in Containers |-> 0]
    /\ outcome = "none"

-----------------------------------------------------------------------------
(* What a snapshot says. *)

Last == polls[Len(polls)]

\* What Docker can report next: restart counts only grow.
Successor(snap) ==
    \A c \in DOMAIN snap :
        /\ c \in DOMAIN base => snap[c].restarts >= base[c]
        /\ polls # <<>> /\ c \in DOMAIN Last => snap[c].restarts >= Last[c].restarts

\* checkPopulated
Populated(snap) == opts.expect => DOMAIN snap # {}

\* Mutant: replicas are counted, not identified.
NoneMissingByCount(snap) == Cardinality(DOMAIN snap) >= Cardinality(DOMAIN base)

\* missingContainers
NoneMissing(snap) == DOMAIN base \subseteq DOMAIN snap

\* restartDelta
RestartDelta(snap, c) ==
    snap[c].restarts - (IF c \in DOMAIN base THEN base[c] ELSE 0)

\* A poll that fails the watch whatever came before it.
FailsAtOnce(snap) ==
    \/ ~Populated(snap)
    \/ ~NoneMissing(snap)
    \/ \E c \in DOMAIN snap :
         \/ snap[c].state \in {"failed", "dead"}
         \/ RestartDelta(snap, c) > opts.tolerance

\* The streaks after a poll. A completed container keeps both, and so does one
\* that is not in the snapshot; "starting" keeps the unhealthy one.
WedgedAfter(snap) ==
    [c \in Containers |->
        IF c \notin DOMAIN snap \/ snap[c].state = "completed" THEN wedged[c]
        ELSE IF snap[c].state = "running" THEN 0
        ELSE wedged[c] + 1]

\* Mutant: one streak for the whole stack.
UnhealthyOfAnyone(snap) ==
    [c \in Containers |->
        IF \E d \in DOMAIN snap : snap[d].state = "running" /\ snap[d].health = "unhealthy"
        THEN unhealthy[c] + 1 ELSE 0]

UnhealthyAfter(snap) ==
    [c \in Containers |->
        IF c \notin DOMAIN snap \/ snap[c].state # "running" THEN unhealthy[c]
        ELSE IF snap[c].health = "fine" THEN 0
        ELSE IF snap[c].health = "starting" THEN unhealthy[c]
        ELSE unhealthy[c] + 1]

StreakReached(snap) ==
    \E c \in DOMAIN snap :
        \/ WedgedAfter(snap)[c] >= opts.streak /\ snap[c].state \in {"restarting", "created"}
        \/ UnhealthyAfter(snap)[c] >= opts.streak
           /\ snap[c].state = "running" /\ snap[c].health = "unhealthy"

\* evaluate
Evaluate(snap, tolerateStarting, tolerateRestarting) ==
    \A c \in DOMAIN snap :
        \/ snap[c].state = "completed"
        \/ tolerateRestarting /\ snap[c].state = "restarting"
        \/ /\ snap[c].state = "running"
           /\ \/ snap[c].health = "fine"
              \/ tolerateStarting /\ snap[c].health = "starting"

\* The final verdict: a container still starting has never been judged.
FinalVerdict == Evaluate(Last, FALSE, TRUE)

-----------------------------------------------------------------------------

Finish(verdict) == phase' = "done" /\ outcome' = verdict

Disabled ==
    /\ phase = "start"
    /\ opts.window = 0
    /\ Finish("healthy")
    /\ UNCHANGED <<stack, opts, now, deadline, base, polls, wedged, unhealthy>>

\* The baseline snapshot fails, or is empty where containers are expected.
BaselineFails ==
    /\ phase = "start"
    /\ opts.window > 0
    /\ \/ Finish("error")
       \/ ~Populated(<<>>) /\ Finish("unhealthy")
    /\ UNCHANGED <<stack, opts, now, deadline, base, polls, wedged, unhealthy>>

Baseline ==
    /\ phase = "start"
    /\ opts.window > 0
    /\ base' \in {snap \in Baselines[stack] : Populated(snap)}
    /\ deadline' = now + opts.window
    /\ phase' = "watching"
    /\ UNCHANGED <<stack, opts, now, polls, wedged, unhealthy, outcome>>

\* The host sleeps, or a call takes its time.
Stall ==
    /\ phase = "watching"
    /\ now < deadline
    /\ \E ticks \in Stalls : now' = now + ticks
    /\ UNCHANGED <<stack, opts, phase, deadline, base, polls, wedged, unhealthy, outcome>>

\* At least one poll follows the baseline.
PollDue == phase = "watching" /\ (polls = <<>> \/ now < deadline)

\* The context is cancelled during the sleep, or the snapshot fails.
PollFails ==
    /\ PollDue
    /\ Finish("error")
    /\ UNCHANGED <<stack, opts, now, deadline, base, polls, wedged, unhealthy>>

Poll ==
    /\ PollDue
    /\ now' = now + PollInterval
    /\ \E snap \in Snapshots[stack] :
         /\ Successor(snap)
         /\ polls' = Append(polls, snap)
         /\ \/ /\ FailsAtOnce(snap) \/ StreakReached(snap)
               /\ Finish("unhealthy")
               /\ UNCHANGED <<wedged, unhealthy>>
            \/ /\ ~FailsAtOnce(snap) /\ ~StreakReached(snap)
               /\ wedged' = WedgedAfter(snap)
               /\ unhealthy' = UnhealthyAfter(snap)
               /\ UNCHANGED <<phase, outcome>>
    /\ UNCHANGED <<stack, opts, deadline, base>>

\* Mutant: after the window, wait until the containers have made up their mind.
WindowClosesOnceDecided ==
    /\ phase = "watching"
    /\ ~PollDue
    /\ IF FinalVerdict THEN Finish("healthy") ELSE UNCHANGED <<phase, outcome>>
    /\ UNCHANGED <<stack, opts, now, deadline, base, polls, wedged, unhealthy>>

WindowCloses ==
    /\ phase = "watching"
    /\ ~PollDue
    /\ Finish(IF FinalVerdict THEN "healthy" ELSE "unhealthy")
    /\ UNCHANGED <<stack, opts, now, deadline, base, polls, wedged, unhealthy>>

WatchStep == Disabled \/ BaselineFails \/ Baseline \/ PollFails \/ Poll \/ WindowCloses

\* The verdict has been handed over; nothing is left to do.
Returned == phase = "done" /\ UNCHANGED vars

Next == WatchStep \/ Stall \/ Returned

Spec == Init /\ [][Next]_vars

\* Sleep returns and a snapshot has a timeout, so the loop goes on.
FairSpec == Spec /\ WF_vars(WatchStep)

-----------------------------------------------------------------------------
(* Properties, stated over the whole history of polls. *)

Watched == phase = "done" /\ opts.window > 0

Is(i, c, state, health) ==
    c \in DOMAIN polls[i] /\ polls[i][c].state \in state /\ polls[i][c].health \in health

NotRunning == {"restarting", "created"}

\* docs/how-it-works.md, "A deploy fails when a container ...": a healthy
\* verdict means that none of it happened at any poll, whatever the streaks
\* say, and that the window was used up.
HealthyIsSound ==
    Watched /\ outcome = "healthy" =>
        /\ now >= deadline
        /\ polls # <<>>
        /\ \A i \in 1..Len(polls) :
             /\ DOMAIN base \subseteq DOMAIN polls[i]
             /\ \A c \in DOMAIN polls[i] :
                  /\ polls[i][c].state \notin {"failed", "dead"}
                  /\ RestartDelta(polls[i], c) <= opts.tolerance
        /\ \A c \in Containers, i \in 1..Len(polls) :
             i + opts.streak - 1 <= Len(polls) =>
                 /\ \E j \in i..(i + opts.streak - 1) : ~Is(j, c, {"running"}, {"unhealthy"})
                 /\ \E j \in i..(i + opts.streak - 1) : ~Is(j, c, NotRunning, Healths)
        /\ \A c \in DOMAIN Last : ~Is(Len(polls), c, {"running"}, {"starting", "unhealthy"})

\* A streak of bad polls of one container, none of them taken back by a poll
\* in between that found it well.
Streak(c, bad, badHealth, well, wellHealth) ==
    \E i, j \in 1..Len(polls) :
        /\ i <= j
        /\ Cardinality({k \in i..j : Is(k, c, bad, badHealth)}) >= opts.streak
        /\ \A k \in i..j : ~Is(k, c, well, wellHealth)

\* An unhealthy verdict has a cause that one container accounts for: bad polls
\* of several containers, or bad polls with a good one between them, do not
\* add up (justified in property_test.go).
UnhealthyIsJustified ==
    Watched /\ outcome = "unhealthy" =>
        \/ polls = <<>> /\ ~Populated(<<>>)
        \/ polls # <<>> /\ ~Populated(Last)
        \/ DOMAIN base \ DOMAIN Last # {}
        \/ \E c \in DOMAIN Last :
             \/ Last[c].state \in {"failed", "dead"}
             \/ RestartDelta(Last, c) > opts.tolerance
             \/ Streak(c, {"running"}, {"unhealthy"}, {"running"}, {"fine"})
             \/ Streak(c, NotRunning, Healths, {"running"}, Healths)
             \/ now >= deadline /\ Is(Len(polls), c, {"created"}, Healths)
             \/ now >= deadline /\ Is(Len(polls), c, {"running"}, {"starting", "unhealthy"})

\* The watch ends, with at most as many polls as fit the window.
Terminates == <>(phase = "done")
=============================================================================
