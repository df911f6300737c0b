-------------------------- MODULE WatchStacksProofs --------------------------
(***************************************************************************)
(* What watchStacks returns, for any number of stacks and of slots.        *)
(***************************************************************************)
EXTENDS WatchStacks, TLAPS

Ended == {"healthy", "unhealthy", "canceled", "error"}

\* A watch is only ever cancelled for a reason, and the first of the two
\* reasons leaves an unhealthy stack behind.
Causes ==
    /\ stopped => \E j \in Stacks : watch[j] = "unhealthy"
    /\ \A i \in Stacks : watch[i] = "canceled" => stopped \/ shutdown

\* Every stack is dispatched before any outcome is combined, and wg.Wait has
\* let all goroutines end.
Waited ==
    /\ phase = "dispatch" => \A i \in Stacks : watch[i] = "none" <=> i >= next
    /\ phase # "dispatch" => \A i \in Stacks : watch[i] \in Ended

\* What has been combined so far: an unhealthy stack shows, and the only stacks
\* passed over are those a failure stopped.
CombinedSoFar ==
    phase = "combine" =>
        \A j \in Stacks : j < next =>
            \/ watch[j] = "healthy"
            \/ watch[j] = "unhealthy" /\ combined = "unhealthy"
            \/ watch[j] = "canceled" /\ stopped

Concluded ==
    /\ phase # "done" => verdict = "none"
    /\ verdict = "healthy" => \A i \in Stacks : watch[i] = "healthy"
    /\ verdict = "error" => shutdown \/ \E i \in Stacks : watch[i] = "error"

WatchInv == TypeOK /\ Causes /\ Waited /\ CombinedSoFar /\ Concluded

LEMMA WatchInit == Init => WatchInv
<1> SUFFICES ASSUME Init PROVE WatchInv
  OBVIOUS
<1>1. \A i \in Stacks : watch[i] = "none" BY DEF Init
<1>2. TypeOK
  <2>1. next \in 1..(N + 1) BY WatchStacksAssumption DEF Init
  <2>2. watch \in [Stacks -> {"none", "running", "healthy", "unhealthy", "canceled", "error"}]
    BY DEF Init
  <2> QED BY <2>1, <2>2 DEF Init, TypeOK
<1>3. Causes BY <1>1 DEF Init, Causes
<1>4. Waited BY <1>1, WatchStacksAssumption DEF Init, Waited, Stacks
<1>5. CombinedSoFar /\ Concluded BY DEF Init, CombinedSoFar, Concluded
<1> QED BY <1>2, <1>3, <1>4, <1>5 DEF WatchInv

LEMMA WatchInductive == WatchInv /\ [Next]_vars => WatchInv'
<1> SUFFICES ASSUME WatchInv, [Next]_vars PROVE WatchInv'
  OBVIOUS
<1> USE WatchStacksAssumption DEF WatchInv, TypeOK, Stacks
<1>1. CASE Dispatch
  <2>1. \A i \in Stacks : watch'[i] = IF i = next THEN "running" ELSE watch[i]
    BY <1>1 DEF Dispatch
  <2>2. TypeOK'
    <3>1. next' \in 1..(N + 1) BY <1>1 DEF Dispatch
    <3>2. watch' \in [Stacks -> {"none", "running"} \cup Ended] BY <1>1 DEF Dispatch, Ended
    <3> QED BY <1>1, <3>1, <3>2 DEF Dispatch, Ended
  <2>3. Causes'
    <3>1. watch[next] = "none" BY <1>1 DEF Dispatch, Waited
    <3> QED BY <3>1, <1>1, <2>1 DEF Dispatch, Causes, Waited
  <2>4. Waited' /\ CombinedSoFar' /\ Concluded'
    BY <1>1, <2>1 DEF Dispatch, Waited, CombinedSoFar, Concluded
  <2> QED BY <2>2, <2>3, <2>4
<1>2. CASE SkipDispatch
  <2>1. \A i \in Stacks : watch'[i] = IF i = next THEN "canceled" ELSE watch[i]
    BY <1>2 DEF SkipDispatch
  <2>2. TypeOK'
    <3>1. next' \in 1..(N + 1) BY <1>2 DEF SkipDispatch
    <3>2. watch' \in [Stacks -> {"none", "running"} \cup Ended]
      BY <1>2 DEF SkipDispatch, Ended
    <3> QED BY <1>2, <3>1, <3>2 DEF SkipDispatch, Ended
  <2>3. Causes'
    <3>1. watch[next] = "none" BY <1>2 DEF SkipDispatch, Waited
    <3> QED BY <3>1, <1>2, <2>1 DEF SkipDispatch, Causes, Done
  <2>4. Waited' /\ CombinedSoFar' /\ Concluded'
    BY <1>2, <2>1 DEF SkipDispatch, Waited, CombinedSoFar, Concluded
  <2> QED BY <2>2, <2>3, <2>4
<1>3. ASSUME NEW i \in Stacks, WatchStep(i) PROVE WatchInv'
  <2>1. PICK outcome \in Ended : WatchReturns(i, outcome)
    BY <1>3 DEF WatchStep, Ended
  <2>2. \A k \in Stacks : watch'[k] = IF k = i THEN outcome ELSE watch[k]
    BY <2>1 DEF WatchReturns
  <2>3. TypeOK' BY <2>1 DEF WatchReturns, Verdicts, Ended
  <2>4. Causes' BY <2>1, <2>2 DEF WatchReturns, Causes, Done
  <2>5. phase = "dispatch"
    BY <2>1 DEF WatchReturns, Waited, Ended
  <2>6. Waited' /\ CombinedSoFar' /\ Concluded'
    BY <2>1, <2>2, <2>5 DEF WatchReturns, Waited, CombinedSoFar, Concluded, Ended
  <2> QED BY <2>3, <2>4, <2>6
<1>4. CASE AllReturned
  <2>1. \A i \in Stacks : watch[i] \in Ended
    <3>1. \A i \in Stacks : watch[i] # "none" /\ watch[i] # "running"
      BY <1>4 DEF AllReturned, Running, Waited
    <3> QED BY <3>1 DEF Ended
  <2> QED BY <1>4, <2>1 DEF AllReturned, Causes, Waited, CombinedSoFar, Concluded, Verdicts
<1>5. CASE Combine
  <2>1. TypeOK' /\ Causes' /\ Waited' /\ Concluded'
    BY <1>5 DEF Combine, Causes, Waited, Concluded, Verdicts
  <2>2. CombinedSoFar'
    <3> SUFFICES ASSUME NEW j \in Stacks, j < next'
                 PROVE  \/ watch[j] = "healthy"
                        \/ watch[j] = "unhealthy" /\ combined' = "unhealthy"
                        \/ watch[j] = "canceled" /\ stopped
      BY <1>5 DEF Combine, CombinedSoFar
    <3>1. CASE j < next BY <1>5, <3>1 DEF Combine, CombinedSoFar
    <3>2. CASE j = next BY <1>5, <3>2 DEF Combine, StoppedEarly, Causes
    <3> QED BY <1>5, <3>1, <3>2 DEF Combine
  <2> QED BY <2>1, <2>2
<1>6. CASE CombineFails
  BY <1>6 DEF CombineFails, StoppedEarly, Causes, Waited, CombinedSoFar, Concluded, Verdicts
<1>7. CASE Verdict
  <2>1. TypeOK' /\ Causes' /\ Waited' /\ CombinedSoFar'
    BY <1>7 DEF Verdict, Causes, Waited, CombinedSoFar, Verdicts
  <2>2. combined = "healthy" => \A i \in Stacks : watch[i] = "healthy"
    <3>1. \A i \in Stacks : i < next BY <1>7 DEF Verdict
    <3>2. combined = "healthy" => ~stopped
      BY <1>7, <3>1 DEF Verdict, CombinedSoFar, Causes
    <3> QED BY <1>7, <3>1, <3>2 DEF Verdict, CombinedSoFar
  <2>3. Concluded' BY <1>7, <2>2 DEF Verdict, Concluded
  <2> QED BY <2>1, <2>3
<1>8. CASE Shutdown
  BY <1>8 DEF Shutdown, Causes, Waited, CombinedSoFar, Concluded, Verdicts
<1>9. CASE UNCHANGED vars
  BY <1>9 DEF vars, Causes, Waited, CombinedSoFar, Concluded
<1> QED BY <1>1, <1>2, <1>3, <1>4, <1>5, <1>6, <1>7, <1>8, <1>9 DEF Next, MainStep, Returned

LEMMA WatchInvariant == Spec => []WatchInv
BY WatchInit, WatchInductive, PTL DEF Spec

\* However many stacks are watched and in whatever order their watches end or
\* are cancelled, watchStacks only says healthy when all of them were.
THEOREM Unanimous == Spec => []HealthyIsUnanimous
<1>1. WatchInv => HealthyIsUnanimous BY DEF WatchInv, Concluded, HealthyIsUnanimous
<1> QED BY <1>1, WatchInvariant, PTL

\* The failure of one stack, which cancels the watches of all others, is never
\* lost among the cancellations it causes.
THEOREM FailureShows == Spec => []FailureIsReported
<1>1. WatchInv => FailureIsReported
  BY DEF WatchInv, TypeOK, Verdicts, Concluded, FailureIsReported
<1> QED BY <1>1, WatchInvariant, PTL

\* The loops of watchStacks keep their variables in range: one watch per stack,
\* each verdict of a known kind, and no stack is started past the last.
THEOREM WatchTypes == Spec => []TypeOK
  BY WatchInvariant, PTL DEF WatchInv
=============================================================================
