-------------------------- MODULE HealthWatchProofs --------------------------
(***************************************************************************)
(* The verdicts of health.Watch are right for every set of containers,     *)
(* window, streak limit and sequence of snapshots. Watch remembers two     *)
(* counters per container; the properties are about the whole history of   *)
(* polls. The invariant ties the two together from both sides: a counter   *)
(* is at least the length of the run of bad polls that ends now (so that   *)
(* no full streak is overlooked), and at most the number of bad polls      *)
(* since some poll after which none found the container well (so that no   *)
(* streak is made up).                                                     *)
(***************************************************************************)
EXTENDS HealthWatch, FiniteSetTheorems, TLAPS

\* A counter n that overlooks no bad poll of the run that ends with the last one.
Covered(n, c, bad, badHealth) ==
    \A i \in 1..Len(polls) :
        (\A j \in i..Len(polls) : Is(j, c, bad, badHealth)) => n >= Len(polls) - i + 1

\* No window of polls as long as the limit is bad throughout.
Broken(c, bad, badHealth) ==
    \A i \in 1..Len(polls) :
        i + opts.streak - 1 <= Len(polls) =>
            \E j \in i..(i + opts.streak - 1) : ~Is(j, c, bad, badHealth)

\* A counter n that bad polls account for, none of them taken back since.
Counts(n, c, bad, badHealth, well, wellHealth) ==
    \E i \in 1..(Len(polls) + 1) :
        /\ Cardinality({k \in i..Len(polls) : Is(k, c, bad, badHealth)}) >= n
        /\ \A k \in i..Len(polls) : ~Is(k, c, well, wellHealth)

WatchInv ==
    /\ phase = "start" => polls = <<>>
    /\ phase # "done" =>
         /\ \A i \in 1..Len(polls) : ~FailsAtOnce(polls[i])
         /\ \A c \in Containers :
              /\ Covered(unhealthy[c], c, {"running"}, {"unhealthy"})
              /\ Broken(c, {"running"}, {"unhealthy"})
              /\ Counts(unhealthy[c], c, {"running"}, {"unhealthy"}, {"running"}, {"fine"})
              /\ Covered(wedged[c], c, NotRunning, Healths)
              /\ Broken(c, NotRunning, Healths)
              /\ Counts(wedged[c], c, NotRunning, Healths, {"running"}, Healths)

-----------------------------------------------------------------------------
(* Types. *)

\* What a snapshot consists of.
LEMMA SnapshotType ==
    ASSUME NEW s \in Stacks, NEW snap \in Snapshots[s]
    PROVE  /\ DOMAIN snap \subseteq Containers
           /\ \A c \in DOMAIN snap : /\ snap[c].state \in States
                                     /\ snap[c].health \in Healths
                                     /\ snap[c].restarts \in Nat
<1>1. PICK present \in SUBSET s.containers : snap \in [present -> Status(s)]
  BY DEF Snapshots
<1>2. DOMAIN snap \subseteq Containers BY <1>1 DEF Containers
<1>3. ASSUME NEW c \in DOMAIN snap
      PROVE  snap[c].state \in States /\ snap[c].health \in Healths /\ snap[c].restarts \in Nat
  <2>1. snap[c] \in Status(s) BY <1>1
  <2>2. PICK r \in s.reports, n \in 0..s.maxRestarts :
          snap[c] = [state |-> r.state, health |-> r.health, restarts |-> n]
    BY <2>1 DEF Status
  <2>3. r \in [state : States, health : Healths] /\ s.maxRestarts \in Nat BY StackAssumption
  <2> QED BY <2>2, <2>3
<1> QED BY <1>2, <1>3

\* What a baseline consists of.
LEMMA BaselineType ==
    ASSUME NEW s \in Stacks, NEW b \in Baselines[s]
    PROVE  \A c \in DOMAIN b : b[c] \in Nat
<1>1. PICK present \in SUBSET s.containers : b \in [present -> 0..s.maxRestarts]
  BY DEF Baselines
<1>2. s.maxRestarts \in Nat BY StackAssumption
<1> QED BY <1>1, <1>2

\* The streaks stay natural numbers.
LEMMA StreakTypes ==
    ASSUME TypeOK, NEW snap
    PROVE  WedgedAfter(snap) \in [Containers -> Nat] /\ UnhealthyAfter(snap) \in [Containers -> Nat]
BY DEF TypeOK, WedgedAfter, UnhealthyAfter

LEMMA InitType == Init => TypeOK
<1> SUFFICES ASSUME Init PROVE TypeOK OBVIOUS
<1>1. base \in Baselines[stack]
  <2>1. <<>> \in [{} -> 0..stack.maxRestarts] OBVIOUS
  <2>2. {} \in SUBSET stack.containers OBVIOUS
  <2> QED BY <2>1, <2>2 DEF Init, Baselines
<1> QED BY <1>1 DEF Init, TypeOK

LEMMA TypeStep == TypeOK /\ [Next]_vars => TypeOK'
<1> SUFFICES ASSUME TypeOK, [Next]_vars PROVE TypeOK' OBVIOUS
<1>0. opts.window \in Nat /\ PollInterval \in Nat
  BY WatchAssumption DEF TypeOK, Options
<1>1. CASE Disabled \/ BaselineFails \/ PollFails \/ WindowCloses
  BY <1>1 DEF Disabled, BaselineFails, PollFails, WindowCloses, Finish, TypeOK
<1>2. CASE Baseline
  BY <1>0, <1>2 DEF Baseline, TypeOK
<1>3. CASE Stall
  BY <1>3, WatchAssumption DEF Stall, TypeOK
<1>4. CASE Poll
  <2>1. PICK snap \in Snapshots[stack] :
          /\ polls' = Append(polls, snap)
          /\ \/ Finish("unhealthy") /\ UNCHANGED <<wedged, unhealthy>>
             \/ /\ wedged' = WedgedAfter(snap) /\ unhealthy' = UnhealthyAfter(snap)
                /\ UNCHANGED <<phase, outcome>>
    BY <1>4 DEF Poll
  <2>2. polls' \in Seq(Snapshots[stack]) BY <2>1 DEF TypeOK
  <2>3. now' = now + PollInterval /\ UNCHANGED <<stack, opts, deadline, base>> BY <1>4 DEF Poll
  <2>4. wedged' \in [Containers -> Nat] /\ unhealthy' \in [Containers -> Nat]
    BY <2>1, StreakTypes DEF TypeOK
  <2>5. /\ phase' \in {"start", "watching", "done"}
        /\ outcome' \in {"none", "healthy", "unhealthy", "error"}
    BY <2>1 DEF TypeOK, Finish
  <2> QED BY <1>0, <2>2, <2>3, <2>4, <2>5 DEF TypeOK
<1>5. CASE UNCHANGED vars
  BY <1>5 DEF vars, TypeOK
<1> QED BY <1>1, <1>2, <1>3, <1>4, <1>5 DEF Next, WatchStep, Returned

\* The state of a watch keeps its type.
THEOREM WatchTypes == Spec => []TypeOK
BY InitType, TypeStep, PTL DEF Spec

-----------------------------------------------------------------------------
(* One more poll. *)

\* What polls said is not changed by another.
LEMMA PollsKept ==
    ASSUME TypeOK, NEW snap, snap \in Snapshots[stack], polls' = Append(polls, snap)
    PROVE  /\ Len(polls) \in Nat /\ Len(polls') = Len(polls) + 1
           /\ \A k \in 1..Len(polls) : polls'[k] = polls[k]
           /\ polls'[Len(polls')] = snap
           /\ \A k \in 1..Len(polls) : \A c, S, H : Is(k, c, S, H)' <=> Is(k, c, S, H)
           /\ \A c, S, H : Is(Len(polls), c, S, H)'
                <=> (c \in DOMAIN snap /\ snap[c].state \in S /\ snap[c].health \in H)
<1>1. /\ Len(polls) \in Nat /\ Len(polls') = Len(polls) + 1
      /\ \A k \in 1..Len(polls) : polls'[k] = polls[k]
      /\ polls'[Len(polls')] = snap
  BY DEF TypeOK
<1>2. ASSUME NEW k \in 1..Len(polls), NEW c, NEW S, NEW H
      PROVE  Is(k, c, S, H)' <=> Is(k, c, S, H)
  BY <1>1 DEF Is
<1>3. ASSUME NEW c, NEW S, NEW H
      PROVE  Is(Len(polls), c, S, H)'
                <=> (c \in DOMAIN snap /\ snap[c].state \in S /\ snap[c].health \in H)
  BY <1>1 DEF Is
<1> QED BY <1>1, <1>2, <1>3

\* Another poll that is not bad ends the run of bad ones.
LEMMA CoveredBroken ==
    ASSUME TypeOK, NEW snap, snap \in Snapshots[stack], polls' = Append(polls, snap), opts' = opts,
           NEW c, NEW bad, NEW badHealth,
           ~Is(Len(polls), c, bad, badHealth)', Broken(c, bad, badHealth)
    PROVE  /\ \A m : Covered(m, c, bad, badHealth)'
           /\ Broken(c, bad, badHealth)'
<1>0. /\ Len(polls) \in Nat /\ Len(polls') = Len(polls) + 1
      /\ \A k \in 1..Len(polls) : Is(k, c, bad, badHealth)' <=> Is(k, c, bad, badHealth)
  BY PollsKept
<1>1. opts.streak \in Nat \ {0} BY WatchAssumption DEF TypeOK, Options
<1>2. ASSUME NEW i \in 1..Len(polls')
      PROVE  ~\A j \in i..Len(polls') : Is(j, c, bad, badHealth)'
  <2>1. Len(polls') \in i..Len(polls') BY <1>0
  <2> QED BY <2>1
<1>3. \A m : Covered(m, c, bad, badHealth)' BY <1>2 DEF Covered
<1>4. ASSUME NEW i \in 1..Len(polls'), i + opts.streak - 1 <= Len(polls')
      PROVE  \E j \in i..(i + opts.streak - 1) : ~Is(j, c, bad, badHealth)'
  <2>1. CASE i + opts.streak - 1 = Len(polls')
    <3>1. Len(polls') \in i..(i + opts.streak - 1) BY <1>0, <1>1, <2>1
    <3> QED BY <3>1
  <2>2. CASE i + opts.streak - 1 # Len(polls')
    <3>1. i \in 1..Len(polls) /\ i + opts.streak - 1 <= Len(polls) BY <1>0, <1>1, <1>4, <2>2
    <3>2. PICK j \in i..(i + opts.streak - 1) : ~Is(j, c, bad, badHealth) BY <3>1 DEF Broken
    <3>3. j \in 1..Len(polls) BY <1>0, <1>1, <3>1
    <3> QED BY <1>0, <3>2, <3>3
  <2> QED BY <2>1, <2>2
<1> QED BY <1>3, <1>4 DEF Broken

\* Another bad poll is counted; below the limit, the window is still broken.
LEMMA CoveredMore ==
    ASSUME TypeOK, NEW snap, snap \in Snapshots[stack], polls' = Append(polls, snap), opts' = opts,
           NEW c, NEW bad, NEW badHealth, NEW n \in Nat, n + 1 < opts.streak,
           Covered(n, c, bad, badHealth), Broken(c, bad, badHealth)
    PROVE  /\ Covered(n + 1, c, bad, badHealth)'
           /\ Broken(c, bad, badHealth)'
<1>0. /\ Len(polls) \in Nat /\ Len(polls') = Len(polls) + 1
      /\ \A k \in 1..Len(polls) : Is(k, c, bad, badHealth)' <=> Is(k, c, bad, badHealth)
  BY PollsKept
<1>1. opts.streak \in Nat \ {0} BY WatchAssumption DEF TypeOK, Options
<1>2. ASSUME NEW i \in 1..Len(polls'), \A j \in i..Len(polls') : Is(j, c, bad, badHealth)'
      PROVE  n + 1 >= Len(polls') - i + 1
  <2>1. CASE i = Len(polls') BY <1>0, <2>1
  <2>2. CASE i # Len(polls')
    <3>1. i \in 1..Len(polls) BY <1>0, <2>2
    <3>2. \A j \in i..Len(polls) : j \in i..Len(polls') /\ j \in 1..Len(polls) BY <1>0, <3>1
    <3>3. \A j \in i..Len(polls) : Is(j, c, bad, badHealth) BY <1>0, <1>2, <3>2
    <3>4. n >= Len(polls) - i + 1 BY <3>1, <3>3 DEF Covered
    <3> QED BY <1>0, <3>1, <3>4
  <2> QED BY <2>1, <2>2
<1>3. Covered(n + 1, c, bad, badHealth)' BY <1>2 DEF Covered
<1>4. ASSUME NEW i \in 1..Len(polls'), i + opts.streak - 1 <= Len(polls')
      PROVE  \E j \in i..(i + opts.streak - 1) : ~Is(j, c, bad, badHealth)'
  <2>1. CASE i + opts.streak - 1 = Len(polls')
    <3>1. SUFFICES ASSUME \A j \in i..(i + opts.streak - 1) : Is(j, c, bad, badHealth)'
                   PROVE  FALSE
      OBVIOUS
    <3>2. n + 1 >= Len(polls') - i + 1 BY <1>2, <2>1, <3>1
    <3> QED BY <1>0, <1>1, <2>1, <3>2
  <2>2. CASE i + opts.streak - 1 # Len(polls')
    <3>1. i \in 1..Len(polls) /\ i + opts.streak - 1 <= Len(polls) BY <1>0, <1>1, <1>4, <2>2
    <3>2. PICK j \in i..(i + opts.streak - 1) : ~Is(j, c, bad, badHealth) BY <3>1 DEF Broken
    <3>3. j \in 1..Len(polls) BY <1>0, <1>1, <3>1
    <3> QED BY <1>0, <3>2, <3>3
  <2> QED BY <2>1, <2>2
<1> QED BY <1>3, <1>4 DEF Broken

\* A set of polls and one more poll.
LEMMA CountUp ==
    ASSUME NEW i \in Nat, NEW n \in Nat, NEW A \in SUBSET (i..n)
    PROVE  /\ Cardinality(A) \in Nat
           /\ Cardinality(A \cup {n + 1}) = Cardinality(A) + 1
<1>0. i \in Int /\ n \in Int OBVIOUS
<1>1. IsFiniteSet(A)
  <2>1. IsFiniteSet(i..n) BY ONLY <1>0, FS_Interval
  <2> QED BY ONLY <2>1, A \in SUBSET (i..n), FS_Subset
<1>2. n + 1 \notin A OBVIOUS
<1> QED BY <1>1, <1>2, FS_AddElement, FS_CardinalityType

\* A counter is accounted for as before after a poll that takes nothing back,
\* and so is one more after a bad one.
LEMMA CountsStep ==
    ASSUME TypeOK, NEW snap, snap \in Snapshots[stack], polls' = Append(polls, snap),
           NEW c, NEW bad, NEW badHealth, NEW well, NEW wellHealth, NEW n \in Nat, opts' = opts,
           Counts(n, c, bad, badHealth, well, wellHealth),
           ~Is(Len(polls), c, well, wellHealth)'
    PROVE  /\ Counts(n, c, bad, badHealth, well, wellHealth)'
           /\ Is(Len(polls), c, bad, badHealth)' =>
                /\ Counts(n + 1, c, bad, badHealth, well, wellHealth)'
                /\ n + 1 >= opts.streak => Streak(c, bad, badHealth, well, wellHealth)'
<1>0. /\ Len(polls) \in Nat /\ Len(polls') = Len(polls) + 1
      /\ \A k \in 1..Len(polls) : Is(k, c, bad, badHealth)' <=> Is(k, c, bad, badHealth)
      /\ \A k \in 1..Len(polls) : Is(k, c, well, wellHealth)' <=> Is(k, c, well, wellHealth)
  BY PollsKept
<1>1. opts.streak \in Nat BY WatchAssumption DEF TypeOK, Options
<1>2. PICK i \in 1..(Len(polls) + 1) :
        /\ Cardinality({k \in i..Len(polls) : Is(k, c, bad, badHealth)}) >= n
        /\ \A k \in i..Len(polls) : ~Is(k, c, well, wellHealth)
  BY DEF Counts
<1> DEFINE A == {k \in i..Len(polls) : Is(k, c, bad, badHealth)}
           B == {k \in i..Len(polls') : Is(k, c, bad, badHealth)'}
<1>3. i..Len(polls') = (i..Len(polls)) \cup {Len(polls')} BY <1>0
<1>4. \A k \in i..Len(polls) : k \in 1..Len(polls) BY <1>0
<1>5. \A k \in i..Len(polls') : ~Is(k, c, well, wellHealth)'
  <2>1. \A k \in i..Len(polls) : ~Is(k, c, well, wellHealth)' BY <1>0, <1>2, <1>4
  <2> QED BY <1>3, <2>1
<1>6. B = IF Is(Len(polls), c, bad, badHealth)' THEN A \cup {Len(polls')} ELSE A
  <2>1. \A k \in i..Len(polls) : Is(k, c, bad, badHealth)' <=> Is(k, c, bad, badHealth)
    BY <1>0, <1>4
  <2> QED BY <1>3, <2>1
<1>7. A \in SUBSET (i..Len(polls)) /\ i \in Nat OBVIOUS
<1>8. Cardinality(A) \in Nat /\ Cardinality(A \cup {Len(polls')}) = Cardinality(A) + 1
  <2> HIDE DEF A
  <2> QED BY <1>0, <1>7, CountUp
<1>9. Cardinality(A) >= n BY <1>2
<1> HIDE DEF A
<1>10. Cardinality(B) >= n
  <2> HIDE DEF B
  <2>1. CASE B = A BY <1>9, <2>1
  <2>2. CASE B = A \cup {Len(polls')} BY <1>8, <1>9, <2>2
  <2> QED BY <1>6, <2>1, <2>2
<1>11. i \in 1..Len(polls') BY <1>0
<1>12. i \in 1..(Len(polls') + 1) BY <1>0
<1>13. Counts(n, c, bad, badHealth, well, wellHealth)' BY <1>5, <1>10, <1>12 DEF Counts
<1>14. ASSUME Is(Len(polls), c, bad, badHealth)'
       PROVE  /\ Counts(n + 1, c, bad, badHealth, well, wellHealth)'
              /\ n + 1 >= opts.streak => Streak(c, bad, badHealth, well, wellHealth)'
  <2>1. Cardinality(B) = Cardinality(A) + 1 BY <1>6, <1>8, <1>14
  <2>2. Cardinality(B) \in Nat /\ Cardinality(B) >= n + 1 BY <1>8, <1>9, <2>1
  <2>3. Counts(n + 1, c, bad, badHealth, well, wellHealth)' BY <1>5, <1>12, <2>2 DEF Counts
  <2>4. ASSUME n + 1 >= opts.streak PROVE Streak(c, bad, badHealth, well, wellHealth)'
    <3>1. Cardinality(B) >= opts'.streak BY <1>1, <2>2, <2>4
    <3>2. Len(polls') \in 1..Len(polls') /\ i <= Len(polls') BY <1>0
    <3> QED BY <1>5, <1>11, <3>1, <3>2 DEF Streak
  <2> QED BY <2>3, <2>4
<1> QED BY <1>13, <1>14

\* A counter that is reset needs no account.
LEMMA CountsNone ==
    ASSUME NEW c, NEW bad, NEW badHealth, NEW well, NEW wellHealth, Len(polls') \in Nat
    PROVE  Counts(0, c, bad, badHealth, well, wellHealth)'
<1> DEFINE i == Len(polls') + 1
<1>1. i..Len(polls') = {} OBVIOUS
<1>2. {k \in i..Len(polls') : Is(k, c, bad, badHealth)'} = {} BY <1>1
<1>3. Cardinality({}) >= 0 BY FS_EmptySet
<1>4. i \in 1..(Len(polls') + 1) OBVIOUS
<1> QED BY <1>1, <1>2, <1>3, <1>4 DEF Counts

\* A counter after one more poll, whichever of the three things it says.
LEMMA StreakStep ==
    ASSUME TypeOK, NEW snap, snap \in Snapshots[stack], polls' = Append(polls, snap), opts' = opts,
           NEW c, NEW bad, NEW badHealth, NEW well, NEW wellHealth, NEW n \in Nat, NEW m \in Nat,
           Covered(n, c, bad, badHealth), Broken(c, bad, badHealth),
           Counts(n, c, bad, badHealth, well, wellHealth),
           \/ /\ Is(Len(polls), c, bad, badHealth)' /\ ~Is(Len(polls), c, well, wellHealth)'
              /\ m = n + 1 /\ m < opts.streak
           \/ /\ ~Is(Len(polls), c, bad, badHealth)' /\ ~Is(Len(polls), c, well, wellHealth)'
              /\ m = n
           \/ ~Is(Len(polls), c, bad, badHealth)' /\ m = 0
    PROVE  /\ Covered(m, c, bad, badHealth)'
           /\ Broken(c, bad, badHealth)'
           /\ Counts(m, c, bad, badHealth, well, wellHealth)'
<1>1. CASE /\ Is(Len(polls), c, bad, badHealth)' /\ ~Is(Len(polls), c, well, wellHealth)'
           /\ m = n + 1 /\ m < opts.streak
  BY <1>1, CoveredMore, CountsStep
<1>2. CASE /\ ~Is(Len(polls), c, bad, badHealth)' /\ ~Is(Len(polls), c, well, wellHealth)'
           /\ m = n
  BY <1>2, CoveredBroken, CountsStep
<1>3. CASE ~Is(Len(polls), c, bad, badHealth)' /\ m = 0
  <2>1. Len(polls') \in Nat BY PollsKept
  <2>2. Counts(0, c, bad, badHealth, well, wellHealth)' BY <2>1, CountsNone
  <2> QED BY <1>3, <2>2, CoveredBroken
<1> QED BY <1>1, <1>2, <1>3

-----------------------------------------------------------------------------
(* The invariant. *)

\* A poll that fails nothing keeps both counters of every container in line
\* with the history.
LEMMA PollGoesOn ==
    ASSUME TypeOK, WatchInv, phase = "watching",
           NEW snap \in Snapshots[stack], polls' = Append(polls, snap),
           UNCHANGED <<stack, opts, base, phase>>,
           ~FailsAtOnce(snap), ~StreakReached(snap),
           wedged' = WedgedAfter(snap), unhealthy' = UnhealthyAfter(snap)
    PROVE  WatchInv'
<1>0. /\ Len(polls) \in Nat /\ Len(polls') = Len(polls) + 1
      /\ \A k \in 1..Len(polls) : polls'[k] = polls[k]
      /\ polls'[Len(polls')] = snap
      /\ \A c, S, H : Is(Len(polls), c, S, H)'
                <=> (c \in DOMAIN snap /\ snap[c].state \in S /\ snap[c].health \in H)
  BY PollsKept
<1>1. ASSUME NEW i \in 1..Len(polls') PROVE ~FailsAtOnce(polls[i])'
  <2>1. polls'[i] = snap \/ (i \in 1..Len(polls) /\ polls'[i] = polls[i]) BY <1>0
  <2>2. ~FailsAtOnce(polls'[i]) BY <2>1 DEF WatchInv
  <2> QED BY <2>2 DEF FailsAtOnce, Populated, NoneMissing, RestartDelta
<1>2. stack \in Stacks BY DEF TypeOK
<1>3. /\ DOMAIN snap \subseteq Containers
      /\ \A c \in DOMAIN snap : snap[c].state \in States /\ snap[c].health \in Healths
  BY <1>2, SnapshotType
<1>4. \A c \in DOMAIN snap : snap[c].state \notin {"failed", "dead"} BY DEF FailsAtOnce
<1>5. \A c \in Containers : /\ wedged[c] \in Nat /\ wedged'[c] \in Nat
                            /\ unhealthy[c] \in Nat /\ unhealthy'[c] \in Nat
  BY StreakTypes DEF TypeOK
<1>6. opts.streak \in Nat BY WatchAssumption DEF TypeOK, Options
<1>7. ASSUME NEW c \in Containers
      PROVE  /\ Covered(unhealthy[c], c, {"running"}, {"unhealthy"})'
             /\ Broken(c, {"running"}, {"unhealthy"})'
             /\ Counts(unhealthy[c], c, {"running"}, {"unhealthy"}, {"running"}, {"fine"})'
  <2>1. PICK n \in Nat, m \in Nat : n = unhealthy[c] /\ m = unhealthy'[c] BY <1>5
  <2>2. /\ Covered(n, c, {"running"}, {"unhealthy"})
        /\ Broken(c, {"running"}, {"unhealthy"})
        /\ Counts(n, c, {"running"}, {"unhealthy"}, {"running"}, {"fine"})
    BY <2>1 DEF WatchInv
  <2>3. m = IF c \notin DOMAIN snap \/ snap[c].state # "running" THEN n
            ELSE IF snap[c].health = "fine" THEN 0
            ELSE IF snap[c].health = "starting" THEN n
            ELSE n + 1
    BY <2>1 DEF UnhealthyAfter
  <2>4. \/ /\ Is(Len(polls), c, {"running"}, {"unhealthy"})'
           /\ ~Is(Len(polls), c, {"running"}, {"fine"})'
           /\ m = n + 1 /\ m < opts.streak
        \/ /\ ~Is(Len(polls), c, {"running"}, {"unhealthy"})'
           /\ ~Is(Len(polls), c, {"running"}, {"fine"})'
           /\ m = n
        \/ ~Is(Len(polls), c, {"running"}, {"unhealthy"})' /\ m = 0
    <3>1. CASE c \in DOMAIN snap /\ snap[c].state = "running" /\ snap[c].health = "unhealthy"
      <4>1. m = n + 1 BY <2>3, <3>1
      <4>2. ~(m >= opts.streak) BY <2>1, <3>1 DEF StreakReached
      <4>3. m < opts.streak BY <1>6, <4>1, <4>2
      <4> QED BY <1>0, <3>1, <4>1, <4>3
    <3>2. CASE c \in DOMAIN snap /\ snap[c].state = "running" /\ snap[c].health = "fine"
      BY <1>0, <2>3, <3>2
    <3>3. CASE \/ c \notin DOMAIN snap \/ snap[c].state # "running"
               \/ snap[c].health = "starting"
      <4>1. m = n BY <2>3, <3>3
      <4> QED BY <1>0, <3>3, <4>1
    <3> QED BY <1>3, <3>1, <3>2, <3>3 DEF Healths
  <2>5. /\ Covered(m, c, {"running"}, {"unhealthy"})'
        /\ Broken(c, {"running"}, {"unhealthy"})'
        /\ Counts(m, c, {"running"}, {"unhealthy"}, {"running"}, {"fine"})'
    BY <2>2, <2>4, StreakStep
  <2> QED BY <2>1, <2>5
<1>8. ASSUME NEW c \in Containers
      PROVE  /\ Covered(wedged[c], c, NotRunning, Healths)'
             /\ Broken(c, NotRunning, Healths)'
             /\ Counts(wedged[c], c, NotRunning, Healths, {"running"}, Healths)'
  <2>1. PICK n \in Nat, m \in Nat : n = wedged[c] /\ m = wedged'[c] BY <1>5
  <2>2. /\ Covered(n, c, NotRunning, Healths)
        /\ Broken(c, NotRunning, Healths)
        /\ Counts(n, c, NotRunning, Healths, {"running"}, Healths)
    BY <2>1 DEF WatchInv
  <2>3. m = IF c \notin DOMAIN snap \/ snap[c].state = "completed" THEN n
            ELSE IF snap[c].state = "running" THEN 0
            ELSE n + 1
    BY <2>1 DEF WedgedAfter
  <2>4. \/ /\ Is(Len(polls), c, NotRunning, Healths)'
           /\ ~Is(Len(polls), c, {"running"}, Healths)'
           /\ m = n + 1 /\ m < opts.streak
        \/ /\ ~Is(Len(polls), c, NotRunning, Healths)'
           /\ ~Is(Len(polls), c, {"running"}, Healths)'
           /\ m = n
        \/ ~Is(Len(polls), c, NotRunning, Healths)' /\ m = 0
    <3>1. CASE c \in DOMAIN snap /\ snap[c].state \in {"restarting", "created"}
      <4>1. m = n + 1 BY <2>3, <3>1
      <4>2. ~(m >= opts.streak) BY <2>1, <3>1 DEF StreakReached
      <4>3. m < opts.streak BY <1>6, <4>1, <4>2
      <4> QED BY <1>0, <1>3, <3>1, <4>1, <4>3 DEF NotRunning
    <3>2. CASE c \in DOMAIN snap /\ snap[c].state = "running"
      BY <1>0, <2>3, <3>2 DEF NotRunning
    <3>3. CASE c \notin DOMAIN snap \/ snap[c].state = "completed"
      <4>1. m = n BY <2>3, <3>3
      <4> QED BY <1>0, <3>3, <4>1 DEF NotRunning
    <3> QED BY <1>3, <1>4, <3>1, <3>2, <3>3 DEF States
  <2>5. /\ Covered(m, c, NotRunning, Healths)'
        /\ Broken(c, NotRunning, Healths)'
        /\ Counts(m, c, NotRunning, Healths, {"running"}, Healths)'
    BY <2>2, <2>4, StreakStep
  <2> QED BY <2>1, <2>5
<1> QED BY <1>1, <1>7, <1>8 DEF WatchInv

LEMMA InitWatch == Init => WatchInv
<1> SUFFICES ASSUME Init PROVE WatchInv OBVIOUS
<1>1. polls = <<>> /\ Len(polls) = 0 BY DEF Init
<1>2. 1..Len(polls) = {} BY <1>1
<1>3. ASSUME NEW c, NEW bad, NEW badHealth, NEW well, NEW wellHealth
      PROVE  /\ Covered(0, c, bad, badHealth) /\ Broken(c, bad, badHealth)
             /\ Counts(0, c, bad, badHealth, well, wellHealth)
  <2>1. {k \in 1..Len(polls) : Is(k, c, bad, badHealth)} = {} BY <1>2
  <2>2. Cardinality({}) >= 0 BY FS_EmptySet
  <2>3. 1 \in 1..(Len(polls) + 1) BY <1>1
  <2> QED BY <1>2, <2>1, <2>2, <2>3 DEF Covered, Broken, Counts
<1>4. \A c \in Containers : wedged[c] = 0 /\ unhealthy[c] = 0 BY DEF Init
<1> QED BY <1>1, <1>2, <1>3, <1>4 DEF WatchInv

\* Where the polls stay, so does all that is said of them.
LEMMA HistoryKept ==
    ASSUME UNCHANGED <<opts, polls>>
    PROVE  \A n, c, S, H, W, V :
             /\ Is(n, c, S, H)' <=> Is(n, c, S, H)
             /\ Covered(n, c, S, H)' <=> Covered(n, c, S, H)
             /\ Broken(c, S, H)' <=> Broken(c, S, H)
             /\ Counts(n, c, S, H, W, V)' <=> Counts(n, c, S, H, W, V)
             /\ Streak(c, S, H, W, V)' <=> Streak(c, S, H, W, V)
<1> SUFFICES ASSUME NEW n, NEW c, NEW S, NEW H, NEW W, NEW V
             PROVE  /\ Is(n, c, S, H)' <=> Is(n, c, S, H)
                    /\ Covered(n, c, S, H)' <=> Covered(n, c, S, H)
                    /\ Broken(c, S, H)' <=> Broken(c, S, H)
                    /\ Counts(n, c, S, H, W, V)' <=> Counts(n, c, S, H, W, V)
                    /\ Streak(c, S, H, W, V)' <=> Streak(c, S, H, W, V)
  OBVIOUS
<1>1. \A k, s, h : Is(k, c, s, h)' <=> Is(k, c, s, h) BY DEF Is
<1>2. Covered(n, c, S, H)' <=> Covered(n, c, S, H) BY <1>1 DEF Covered
<1>3. Broken(c, S, H)' <=> Broken(c, S, H) BY <1>1 DEF Broken
<1>4. \A i, j : {k \in i..j : Is(k, c, S, H)'} = {k \in i..j : Is(k, c, S, H)} BY <1>1
<1>5. Counts(n, c, S, H, W, V)' <=> Counts(n, c, S, H, W, V)
  <2>1. \A i : {k \in i..Len(polls') : Is(k, c, S, H)'} = {k \in i..Len(polls) : Is(k, c, S, H)}
    BY <1>4
  <2> QED BY <1>1, <2>1 DEF Counts
<1>6. Streak(c, S, H, W, V)' <=> Streak(c, S, H, W, V) BY <1>1, <1>4 DEF Streak
<1> QED BY <1>1, <1>2, <1>3, <1>5, <1>6

LEMMA CountersKept ==
    ASSUME UNCHANGED <<opts, polls, wedged, unhealthy>>, NEW c \in Containers,
           NEW S, NEW H, NEW W, NEW V
    PROVE  /\ Covered(unhealthy[c], c, S, H)' <=> Covered(unhealthy[c], c, S, H)
           /\ Covered(wedged[c], c, S, H)' <=> Covered(wedged[c], c, S, H)
           /\ Counts(unhealthy[c], c, S, H, W, V)' <=> Counts(unhealthy[c], c, S, H, W, V)
           /\ Counts(wedged[c], c, S, H, W, V)' <=> Counts(wedged[c], c, S, H, W, V)
           /\ Broken(c, S, H)' <=> Broken(c, S, H)
<1>1. PICK n, m : n = unhealthy[c] /\ m = wedged[c] OBVIOUS
<1> QED BY <1>1, HistoryKept

\* The invariant is about these parts of the state only.
LEMMA WatchKept ==
    ASSUME WatchInv, phase' = phase, UNCHANGED <<opts, base, polls, wedged, unhealthy>>
    PROVE  WatchInv'
<1>1. \A i \in 1..Len(polls) : FailsAtOnce(polls[i])' <=> FailsAtOnce(polls[i])
  BY DEF FailsAtOnce, Populated, NoneMissing, RestartDelta
<1> QED BY <1>1, CountersKept DEF WatchInv

LEMMA WatchStepInv == TypeOK /\ WatchInv /\ [Next]_vars => WatchInv'
<1> SUFFICES ASSUME TypeOK, WatchInv, [Next]_vars PROVE WatchInv' OBVIOUS
<1>1. CASE Disabled \/ BaselineFails \/ PollFails \/ WindowCloses
  BY <1>1 DEF Disabled, BaselineFails, PollFails, WindowCloses, Finish, WatchInv
<1>2. CASE Baseline
  <2>1. polls = <<>> /\ Len(polls) = 0 /\ 1..Len(polls) = {} BY <1>2 DEF Baseline, WatchInv
  <2>2. /\ phase = "start" /\ phase' = "watching"
        /\ UNCHANGED <<opts, polls, wedged, unhealthy>>
    BY <1>2 DEF Baseline
  <2>3. ASSUME NEW c \in Containers
        PROVE  /\ Covered(unhealthy[c], c, {"running"}, {"unhealthy"})'
               /\ Broken(c, {"running"}, {"unhealthy"})'
               /\ Counts(unhealthy[c], c, {"running"}, {"unhealthy"}, {"running"}, {"fine"})'
               /\ Covered(wedged[c], c, NotRunning, Healths)'
               /\ Broken(c, NotRunning, Healths)'
               /\ Counts(wedged[c], c, NotRunning, Healths, {"running"}, Healths)'
    <3>1. /\ Covered(unhealthy[c], c, {"running"}, {"unhealthy"})
          /\ Broken(c, {"running"}, {"unhealthy"})
          /\ Counts(unhealthy[c], c, {"running"}, {"unhealthy"}, {"running"}, {"fine"})
          /\ Covered(wedged[c], c, NotRunning, Healths)
          /\ Broken(c, NotRunning, Healths)
          /\ Counts(wedged[c], c, NotRunning, Healths, {"running"}, Healths)
      BY <2>2 DEF WatchInv
    <3> QED BY <2>2, <3>1, CountersKept
  <2> QED BY <2>1, <2>2, <2>3 DEF WatchInv
<1>3. CASE Stall
  BY <1>3, WatchKept DEF Stall
<1>4. CASE Poll
  <2>1. PICK snap \in Snapshots[stack] :
          /\ polls' = Append(polls, snap)
          /\ \/ Finish("unhealthy")
             \/ /\ ~FailsAtOnce(snap) /\ ~StreakReached(snap)
                /\ wedged' = WedgedAfter(snap) /\ unhealthy' = UnhealthyAfter(snap)
                /\ UNCHANGED <<phase, outcome>>
    BY <1>4 DEF Poll
  <2>2. phase = "watching" /\ UNCHANGED <<stack, opts, base>> BY <1>4 DEF Poll, PollDue
  <2>3. CASE Finish("unhealthy") BY <2>3 DEF Finish, WatchInv
  <2>4. CASE ~Finish("unhealthy") BY <2>1, <2>2, <2>4, PollGoesOn
  <2> QED BY <2>3, <2>4
<1>5. CASE UNCHANGED vars
  BY <1>5, WatchKept DEF vars
<1> QED BY <1>1, <1>2, <1>3, <1>4, <1>5 DEF Next, WatchStep, Returned

LEMMA WatchInvariant == Spec => [](TypeOK /\ WatchInv)
BY InitType, InitWatch, TypeStep, WatchStepInv, PTL DEF Spec

-----------------------------------------------------------------------------
(* The verdicts. *)

\* A verdict, once handed over, is about the same history for good.
LEMMA VerdictKept ==
    ASSUME UNCHANGED vars
    PROVE  (HealthyIsSound => HealthyIsSound') /\ (UnhealthyIsJustified => UnhealthyIsJustified')
<1>1. /\ \A n, c, S, H : Is(n, c, S, H)' <=> Is(n, c, S, H)
      /\ \A c, S, H, W, V : Streak(c, S, H, W, V)' <=> Streak(c, S, H, W, V)
  BY HistoryKept DEF vars
<1>2. HealthyIsSound => HealthyIsSound'
  BY <1>1 DEF vars, HealthyIsSound, Watched, Last, RestartDelta
<1>3. UnhealthyIsJustified => UnhealthyIsJustified'
  BY <1>1 DEF vars, UnhealthyIsJustified, Watched, Last, RestartDelta, Populated
<1> QED BY <1>2, <1>3

\* The window closes on a healthy verdict only over a history without a cause.
LEMMA HealthyStep == TypeOK /\ WatchInv /\ HealthyIsSound /\ [Next]_vars => HealthyIsSound'
<1> SUFFICES ASSUME TypeOK, WatchInv, HealthyIsSound, [Next]_vars PROVE HealthyIsSound' OBVIOUS
<1>1. CASE ~(Watched' /\ outcome' = "healthy") BY <1>1 DEF HealthyIsSound
<1>2. CASE UNCHANGED vars BY <1>2, VerdictKept
<1>3. CASE Watched' /\ outcome' = "healthy" /\ ~UNCHANGED vars
  <2>1. WindowCloses /\ FinalVerdict
    BY <1>3 DEF Next, WatchStep, Returned, Disabled, BaselineFails, Baseline, PollFails, Poll,
       WindowCloses, Stall, Finish, Watched, PollDue
  <2>2. /\ phase = "watching" /\ polls # <<>> /\ now >= deadline
        /\ UNCHANGED <<stack, opts, now, deadline, base, polls>>
    BY <2>1 DEF WindowCloses, PollDue, TypeOK
  <2>3. Len(polls) \in Nat \ {0} BY <2>2 DEF TypeOK
  <2>4. ASSUME NEW i \in 1..Len(polls)
        PROVE  /\ DOMAIN base \subseteq DOMAIN polls[i]
               /\ \A c \in DOMAIN polls[i] :
                    /\ polls[i][c].state \notin {"failed", "dead"}
                    /\ RestartDelta(polls[i], c) <= opts.tolerance
    <3>1. ~FailsAtOnce(polls[i]) BY <2>2 DEF WatchInv
    <3>2. polls[i] \in Snapshots[stack] /\ stack \in Stacks BY DEF TypeOK
    <3>3. \A c \in DOMAIN polls[i] : RestartDelta(polls[i], c) \in Int
      BY <3>2, SnapshotType, BaselineType DEF RestartDelta, TypeOK
    <3>4. opts.tolerance \in Nat BY WatchAssumption DEF TypeOK, Options
    <3> QED BY <3>1, <3>3, <3>4 DEF FailsAtOnce, NoneMissing
  <2>5. \A c \in Containers : Broken(c, {"running"}, {"unhealthy"}) /\ Broken(c, NotRunning, Healths)
    BY <2>2 DEF WatchInv
  <2>6. \A c \in DOMAIN Last : ~Is(Len(polls), c, {"running"}, {"starting", "unhealthy"})
    BY <2>1 DEF FinalVerdict, Evaluate, Is, Last
  <2> QED BY <2>2, <2>4, <2>5, <2>6 DEF HealthyIsSound, Broken, Is, Last, RestartDelta
<1> QED BY <1>1, <1>2, <1>3

\* A failing poll, or the end of the window, has the cause it is accused of.
LEMMA UnhealthyStep ==
    TypeOK /\ WatchInv /\ UnhealthyIsJustified /\ [Next]_vars => UnhealthyIsJustified'
<1> SUFFICES ASSUME TypeOK, WatchInv, UnhealthyIsJustified, [Next]_vars
             PROVE  UnhealthyIsJustified'
  OBVIOUS
<1>1. CASE ~(Watched' /\ outcome' = "unhealthy") BY <1>1 DEF UnhealthyIsJustified
<1>2. CASE UNCHANGED vars BY <1>2, VerdictKept
<1>3. CASE Watched' /\ outcome' = "unhealthy" /\ BaselineFails
  <2>1. ~Populated(<<>>) /\ polls = <<>> /\ UNCHANGED <<opts, polls>>
    BY <1>3 DEF BaselineFails, Finish, WatchInv
  <2> QED BY <2>1 DEF UnhealthyIsJustified, Populated
<1>4. CASE Watched' /\ outcome' = "unhealthy" /\ WindowCloses
  <2>1. /\ phase = "watching" /\ polls # <<>> /\ now >= deadline /\ ~FinalVerdict
        /\ UNCHANGED <<stack, opts, now, deadline, base, polls>>
    BY <1>4 DEF WindowCloses, PollDue, TypeOK, Finish
  <2>2. PICK c \in DOMAIN Last :
          /\ Last[c].state # "completed" /\ Last[c].state # "restarting"
          /\ ~(Last[c].state = "running" /\ Last[c].health = "fine")
    BY <2>1 DEF FinalVerdict, Evaluate
  <2>3. Last \in Snapshots[stack] /\ stack \in Stacks BY <2>1 DEF TypeOK, Last
  <2>4. Last[c].state \in States /\ Last[c].health \in Healths BY <2>2, <2>3, SnapshotType
  <2>5. \/ Last[c].state \in {"failed", "dead"}
        \/ Is(Len(polls), c, {"created"}, Healths)
        \/ Is(Len(polls), c, {"running"}, {"starting", "unhealthy"})
    BY <2>2, <2>4 DEF Is, Last, States, Healths
  <2> QED BY <2>1, <2>2, <2>5 DEF UnhealthyIsJustified, Last, Is
<1>5. CASE Watched' /\ outcome' = "unhealthy" /\ Poll
  <2>1. PICK snap \in Snapshots[stack] :
          /\ polls' = Append(polls, snap)
          /\ \/ FailsAtOnce(snap) \/ StreakReached(snap)
             \/ UNCHANGED <<phase, outcome>>
    BY <1>5 DEF Poll
  <2>2. /\ phase = "watching" /\ phase' = "done" /\ UNCHANGED <<stack, opts, base>>
    BY <1>5 DEF Poll, PollDue, Watched
  <2>3. FailsAtOnce(snap) \/ StreakReached(snap) BY <2>1, <2>2
  <2>4. /\ Len(polls) \in Nat /\ Len(polls') = Len(polls) + 1 /\ polls'[Len(polls')] = snap
        /\ \A c, S, H : Is(Len(polls), c, S, H)'
                <=> (c \in DOMAIN snap /\ snap[c].state \in S /\ snap[c].health \in H)
    BY <2>1, PollsKept
  <2>5. Last' = snap /\ polls' # <<>> BY <2>4 DEF Last
  <2>6. CASE FailsAtOnce(snap)
    BY <2>2, <2>5, <2>6 DEF FailsAtOnce, UnhealthyIsJustified, Populated, NoneMissing, RestartDelta
  <2>7. CASE StreakReached(snap)
    <3>1. /\ DOMAIN snap \subseteq Containers
          /\ \A c \in DOMAIN snap : snap[c].state \in States /\ snap[c].health \in Healths
      BY SnapshotType DEF TypeOK
    <3>2. PICK c \in DOMAIN snap :
            \/ WedgedAfter(snap)[c] >= opts.streak /\ snap[c].state \in {"restarting", "created"}
            \/ UnhealthyAfter(snap)[c] >= opts.streak
               /\ snap[c].state = "running" /\ snap[c].health = "unhealthy"
      BY <2>7 DEF StreakReached
    <3>3. c \in Containers BY <3>1
    <3>4. PICK n \in Nat, m \in Nat : n = wedged[c] /\ m = unhealthy[c] BY <3>3 DEF TypeOK
    <3>5. /\ Counts(n, c, NotRunning, Healths, {"running"}, Healths)
          /\ Counts(m, c, {"running"}, {"unhealthy"}, {"running"}, {"fine"})
      BY <2>2, <3>3, <3>4 DEF WatchInv
    <3>6. CASE WedgedAfter(snap)[c] >= opts.streak /\ snap[c].state \in {"restarting", "created"}
      <4>1. n + 1 >= opts.streak BY <3>3, <3>4, <3>6 DEF WedgedAfter
      <4>2. /\ Is(Len(polls), c, NotRunning, Healths)'
            /\ ~Is(Len(polls), c, {"running"}, Healths)'
        BY <2>4, <3>1, <3>6 DEF NotRunning
      <4>3. Streak(c, NotRunning, Healths, {"running"}, Healths)'
        BY <2>1, <2>2, <3>5, <4>1, <4>2, CountsStep
      <4> QED BY <2>5, <4>3 DEF UnhealthyIsJustified
    <3>7. CASE UnhealthyAfter(snap)[c] >= opts.streak
               /\ snap[c].state = "running" /\ snap[c].health = "unhealthy"
      <4>1. m + 1 >= opts.streak BY <3>3, <3>4, <3>7 DEF UnhealthyAfter
      <4>2. /\ Is(Len(polls), c, {"running"}, {"unhealthy"})'
            /\ ~Is(Len(polls), c, {"running"}, {"fine"})'
        BY <2>4, <3>7
      <4>3. Streak(c, {"running"}, {"unhealthy"}, {"running"}, {"fine"})'
        BY <2>1, <2>2, <3>5, <4>1, <4>2, CountsStep
      <4> QED BY <2>5, <4>3 DEF UnhealthyIsJustified
    <3> QED BY <3>2, <3>6, <3>7
  <2> QED BY <2>3, <2>6, <2>7
<1>6. CASE Disabled \/ Baseline \/ PollFails \/ Stall
  BY <1>1, <1>6 DEF Disabled, Baseline, PollFails, Stall, Finish, Watched
<1> QED BY <1>1, <1>2, <1>3, <1>4, <1>5, <1>6 DEF Next, WatchStep, Returned

\* A healthy verdict is given only over a window without any of the faults a
\* deploy fails for, whatever the counters of Watch remember of it: for every
\* stack, window, streak limit and sequence of snapshots.
THEOREM HealthySound == Spec => []HealthyIsSound
<1>1. Init => HealthyIsSound BY DEF Init, HealthyIsSound, Watched
<1> QED BY <1>1, WatchInvariant, HealthyStep, PTL DEF Spec

\* An unhealthy verdict has a cause in the history of one container, for every
\* stack, window, streak limit and sequence of snapshots.
THEOREM UnhealthyJustified == Spec => []UnhealthyIsJustified
<1>1. Init => UnhealthyIsJustified BY DEF Init, UnhealthyIsJustified, Watched
<1> QED BY <1>1, WatchInvariant, UnhealthyStep, PTL DEF Spec
==============================================================================
