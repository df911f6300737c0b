----------------------------- MODULE WatchStacks -----------------------------
(***************************************************************************)
(* watchStacks (internal/reconcile/watch.go): the stacks of a cycle are    *)
(* watched concurrently, a goroutine each and at most MaxConcurrentWatches *)
(* at a time. The first stack found unhealthy cancels the context the      *)
(* others run under, and the caller's context may be cancelled by a        *)
(* shutdown; both reach a watch as the same error, context.Canceled. Once  *)
(* all have returned, their outcomes are combined in the order of the      *)
(* stacks. What one watch does is in module HealthWatch.                   *)
(***************************************************************************)
EXTENDS Naturals, FiniteSets

CONSTANTS
    N,                     \* number of stacks
    MaxConcurrentWatches   \* maxConcurrentWatches (16 in the code)

ASSUME WatchStacksAssumption ==
    /\ N \in Nat
    /\ MaxConcurrentWatches \in Nat \ {0}

Stacks == 1..N

VARIABLES
    phase,      \* "dispatch", "combine" or "done"
    next,       \* the stack to dispatch or to combine next
    watch,      \* watch[i]: "none", "running", or how the watch of i ended:
                \* "healthy", "unhealthy", "canceled" or with another "error"
    stopped,    \* cancel() has been called
    shutdown,   \* the caller's context is done
    combined,   \* combined.Outcome
    verdict     \* what watchStacks returned: "none" until it has

vars == <<phase, next, watch, stopped, shutdown, combined, verdict>>

Verdicts == {"healthy", "unhealthy", "error"}

TypeOK ==
    /\ phase \in {"dispatch", "combine", "done"}
    /\ next \in 1..(N + 1)
    /\ watch \in [Stacks -> {"none", "running", "healthy", "unhealthy", "canceled", "error"}]
    /\ stopped \in BOOLEAN
    /\ shutdown \in BOOLEAN
    /\ combined \in {"healthy", "unhealthy"}
    /\ verdict \in Verdicts \cup {"none"}

\* Mutant: the combined result starts as the zero Result, which is Unknown.
InitUnknown ==
    /\ phase = "dispatch"
    /\ next = 1
    /\ watch = [i \in Stacks |-> "none"]
    /\ stopped = FALSE
    /\ shutdown = FALSE
    /\ combined = "unknown"
    /\ verdict = "none"

Init ==
    /\ phase = "dispatch"
    /\ next = 1
    /\ watch = [i \in Stacks |-> "none"]
    /\ stopped = FALSE
    /\ shutdown = FALSE
    /\ combined = "healthy"
    /\ verdict = "none"

Running == {i \in Stacks : watch[i] = "running"}

\* watchCtx.Err() # nil
Done == stopped \/ shutdown

\* Mutant: a watch that has ended keeps its slot.
DispatchLeaksSlots ==
    /\ phase = "dispatch"
    /\ next \in Stacks
    /\ Cardinality({i \in Stacks : watch[i] # "none"}) < MaxConcurrentWatches
    /\ watch' = [watch EXCEPT ![next] = "running"]
    /\ next' = next + 1
    /\ UNCHANGED <<phase, stopped, shutdown, combined, verdict>>

\* A slot of the semaphore is free.
Dispatch ==
    /\ phase = "dispatch"
    /\ next \in Stacks
    /\ Cardinality(Running) < MaxConcurrentWatches
    /\ watch' = [watch EXCEPT ![next] = "running"]
    /\ next' = next + 1
    /\ UNCHANGED <<phase, stopped, shutdown, combined, verdict>>

\* select takes either case when both are ready.
SkipDispatch ==
    /\ phase = "dispatch"
    /\ next \in Stacks
    /\ Done
    /\ watch' = [watch EXCEPT ![next] = "canceled"]
    /\ next' = next + 1
    /\ UNCHANGED <<phase, stopped, shutdown, combined, verdict>>

\* health.Watch returns. A cancellation may come too late to be noticed.
WatchReturns(i, outcome) ==
    /\ watch[i] = "running"
    /\ outcome = "canceled" => Done
    /\ watch' = [watch EXCEPT ![i] = outcome]
    /\ stopped' = (stopped \/ outcome = "unhealthy")
    /\ UNCHANGED <<phase, next, shutdown, combined, verdict>>

\* wg.Wait
AllReturned ==
    /\ phase = "dispatch"
    /\ next = N + 1
    /\ Running = {}
    /\ phase' = "combine"
    /\ next' = 1
    /\ UNCHANGED <<watch, stopped, shutdown, combined, verdict>>

\* Mutant: a cancellation is always taken for another stack's failure.
StoppedEarlyByAnyone(i) == watch[i] = "canceled"

\* Mutant: a cancellation is an error like any other.
StoppedEarlyNever(i) == FALSE

\* A watch that another stack's failure stopped is passed over.
StoppedEarly(i) == watch[i] = "canceled" /\ ~shutdown

Combine ==
    /\ phase = "combine"
    /\ next \in Stacks
    /\ StoppedEarly(next) \/ watch[next] \in {"healthy", "unhealthy"}
    /\ combined' = IF watch[next] = "unhealthy" THEN "unhealthy" ELSE combined
    /\ next' = next + 1
    /\ UNCHANGED <<phase, watch, stopped, shutdown, verdict>>

\* The first error ends it, whatever the other stacks found.
CombineFails ==
    /\ phase = "combine"
    /\ next \in Stacks
    /\ ~StoppedEarly(next)
    /\ watch[next] \in {"canceled", "error"}
    /\ phase' = "done"
    /\ verdict' = "error"
    /\ UNCHANGED <<next, watch, stopped, shutdown, combined>>

Verdict ==
    /\ phase = "combine"
    /\ next = N + 1
    /\ phase' = "done"
    /\ verdict' = combined
    /\ UNCHANGED <<next, watch, stopped, shutdown, combined>>

\* SIGINT or SIGTERM.
Shutdown ==
    /\ phase # "done"
    /\ ~shutdown
    /\ shutdown' = TRUE
    /\ UNCHANGED <<phase, next, watch, stopped, combined, verdict>>

MainStep == Dispatch \/ SkipDispatch \/ AllReturned \/ Combine \/ CombineFails \/ Verdict

WatchStep(i) == \E outcome \in {"healthy", "unhealthy", "canceled", "error"} :
                    WatchReturns(i, outcome)

Returned == phase = "done" /\ UNCHANGED vars

Next == MainStep \/ (\E i \in Stacks : WatchStep(i)) \/ Shutdown \/ Returned

Spec == Init /\ [][Next]_vars

\* The goroutines are scheduled, and a watch ends with its window (Terminates
\* of module HealthWatch).
FairSpec == Spec /\ WF_vars(MainStep) /\ \A i \in Stacks : WF_vars(WatchStep(i))

-----------------------------------------------------------------------------

\* A cycle is only promoted when every one of its stacks was watched to the end
\* of its window and found healthy: a watch stopped early never counts as one
\* that passed.
HealthyIsUnanimous ==
    verdict = "healthy" => \A i \in Stacks : watch[i] = "healthy"

\* Without a shutdown or an error of Docker's, the failure of one stack is the
\* verdict, though it makes the watches of the others fail.
FailureIsReported ==
    /\ verdict # "none"
    /\ ~shutdown
    /\ \E i \in Stacks : watch[i] = "unhealthy"
    /\ \A i \in Stacks : watch[i] # "error"
    => verdict = "unhealthy"

\* watchStacks returns: no goroutine and no slot is waited for forever.
Returns == <>(phase = "done")
=============================================================================
