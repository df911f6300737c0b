--------------------------- MODULE StateLockProofs ---------------------------
(***************************************************************************)
(* What the lock file guarantees, for any number of processes, commits and *)
(* contents. The shared lock does not keep checks apart, so a check may    *)
(* find HEAD and the record changed under it. What saves it is that the    *)
(* others are checks too: everything they leave behind agrees with what it *)
(* read in the two respects the properties speak of.                       *)
(***************************************************************************)
EXTENDS StateLock, TLAPS

\* The lock file keeps a sync apart from everyone else.
Exclusive == writer # None => readers = {}

\* A process is in the middle of a run exactly while it holds the lock.
Holding == \A p \in Procs : proc[p].pc # "idle" <=> p \in readers \/ p = writer

\* A check that has loaded the record knows what is healthy and what is bad,
\* however many other checks have saved theirs since.
Fresh ==
    \A p \in readers : proc[p].pc # "load" =>
        /\ proc[p].st.healthy = disk.healthy
        /\ proc[p].st.bad = disk.bad

\* The commit a check saw at HEAD, and the one it means to go to, have the
\* content of whatever HEAD is now.
Steady ==
    \A p \in readers :
        /\ proc[p].pc \in {"tracking", "decide", "checkout", "record"} =>
              Content[proc[p].old] = Content[head]
        /\ proc[p].pc \in {"checkout", "record"} =>
              Content[proc[p].new] = Content[head]

\* A run past a step has the commits that step reads.
Seen ==
    \A p \in Procs :
        /\ proc[p].pc \in {"tracking", "decide", "checkout", "record"} => proc[p].old \in Commits
        /\ proc[p].pc \in {"decide", "checkout", "record"} => proc[p].new \in Commits

LockInv == TypeOK /\ Exclusive /\ Holding /\ Fresh /\ Steady /\ Seen

\* What Apply may leave in the state file is a record.
LEMMA ApplyTypes ==
    ASSUME LockInv, NEW p \in Procs, Apply(p)
    PROVE  head' \in Commits /\ disk' \in Record
<1>1. proc[p] \in Proc /\ proc[p].pc = "decide"
    BY DEF LockInv, TypeOK, Apply, SomethingToDo, At
<1>2. proc[p].old \in Commits /\ proc[p].new \in Commits /\ proc[p].st \in Record
    BY <1>1 DEF LockInv, Seen, Proc
<1>3. CASE head' = proc[p].new /\ disk' = Promoted(p)
    BY <1>2, <1>3 DEF Promoted, Record, CommitOrNone
<1>4. CASE /\ head' \in {proc[p].new, proc[p].old, proc[p].st.healthy} \ {None}
           /\ \E c \in {proc[p].st.checkout, head'}, b \in {{}, {proc[p].new}} :
                disk' = [proc[p].st EXCEPT !.checkout = c, !.bad = @ \cup b]
    <2>1. head' \in Commits
        BY <1>2, <1>4 DEF Record, CommitOrNone
    <2>2. PICK c \in {proc[p].st.checkout, head'}, b \in {{}, {proc[p].new}} :
             disk' = [proc[p].st EXCEPT !.checkout = c, !.bad = @ \cup b]
        BY <1>4
    <2>3. c \in CommitOrNone /\ b \subseteq Commits
        BY <1>2, <2>1, <2>2 DEF Record, CommitOrNone
    <2> QED BY <1>2, <2>1, <2>2, <2>3 DEF Record
<1> QED BY <1>3, <1>4 DEF Apply

LEMMA TypeStep ==
    ASSUME LockInv, [Next]_vars
    PROVE  TypeOK' /\ Seen'
<1> USE LockAssumption DEF LockInv
<1>0. CASE UNCHANGED vars
    BY <1>0 DEF TypeOK, Seen, vars
<1>1. CASE Push
    BY <1>1 DEF Push, TypeOK, Seen
<1>2. ASSUME NEW p \in Procs,
             \/ AcquireShared(p) \/ AcquireExclusive(p) \/ Load(p)
             \/ Fetch(p) \/ PreviewHead(p) \/ PreviewTracking(p)
             \/ SkipIrrelevant(p) \/ AdvanceCheckout(p)
      PROVE  TypeOK' /\ Seen'
    <2>1. proc[p] \in Proc /\ proc' = [proc EXCEPT ![p] = proc'[p]]
        BY <1>2 DEF TypeOK, AcquireShared, AcquireExclusive, Load, Fetch, PreviewHead,
                    PreviewTracking, SkipIrrelevant, AdvanceCheckout, Goto
    <2>2. proc'[p] \in Proc
        BY <1>2, <2>1 DEF TypeOK, Proc, Record, Steps, CommitOrNone, AcquireShared,
                    AcquireExclusive, Load, Fetch, PreviewHead, PreviewTracking,
                    SkipIrrelevant, AdvanceCheckout, Goto
    <2>3. /\ {branch', tracking', head'} \subseteq Commits
          /\ disk' \in Record
          /\ writer' \in Procs \cup {None}
          /\ readers' \subseteq Procs
        BY <1>2 DEF TypeOK, Seen, At, AcquireShared, AcquireExclusive, Load, Fetch,
                    PreviewHead, PreviewTracking, SkipIrrelevant, AdvanceCheckout
    <2>4. /\ proc'[p].pc \in {"tracking", "decide", "checkout", "record"} => proc'[p].old \in Commits
          /\ proc'[p].pc \in {"decide", "checkout", "record"} => proc'[p].new \in Commits
        BY <1>2, <2>1 DEF TypeOK, Proc, Seen, At, SomethingToDo, AcquireShared, AcquireExclusive,
                    Load, Fetch, PreviewHead, PreviewTracking, SkipIrrelevant,
                    AdvanceCheckout, Goto
    <2>5. Seen'
        BY <2>1, <2>4 DEF TypeOK, Seen
    <2> QED BY <2>1, <2>2, <2>3, <2>5 DEF TypeOK
<1>3. ASSUME NEW p \in Procs,
             \/ FetchFails(p) \/ NothingToDo(p) \/ SkipKnownBad(p) \/ SkipOutsideWindow(p)
             \/ GateFails(p) \/ DryRunReports(p) \/ Apply(p)
             \/ AdvanceFails(p) \/ RecordCheckout(p) \/ Killed(p)
      PROVE  TypeOK' /\ Seen'
    <2>1. Release(p)
        BY <1>3 DEF FetchFails, NothingToDo, SkipKnownBad, SkipOutsideWindow, GateFails,
                    DryRunReports, Apply, AdvanceFails, RecordCheckout, Killed
    <2>2. Idle \in Proc /\ Idle.pc = "idle"
        BY DEF Idle, Proc, Steps, NewRecord, Record, CommitOrNone
    <2>3. /\ writer' \in Procs \cup {None}
          /\ readers' \subseteq Procs
          /\ proc' \in [Procs -> Proc]
          /\ Seen'
        BY <2>1, <2>2 DEF Release, TypeOK, Seen
    <2>4. proc[p] \in Proc /\ proc[p].st \in Record
        BY DEF TypeOK, Proc
    <2>5. /\ branch' \in Commits /\ tracking' \in Commits
          /\ head' \in Commits /\ disk' \in Record
        <3>1. CASE Apply(p)
            BY <3>1, ApplyTypes DEF Apply, TypeOK
        <3>2. CASE RecordCheckout(p)
            BY <3>2, <2>4 DEF RecordCheckout, TypeOK, Seen, At, Record, CommitOrNone
        <3>3. CASE AdvanceFails(p)
            BY <3>3, <2>4 DEF AdvanceFails, RecordOutcome, TypeOK, Seen, At
        <3>4. CASE \/ FetchFails(p) \/ NothingToDo(p) \/ SkipKnownBad(p) \/ SkipOutsideWindow(p)
                   \/ GateFails(p) \/ DryRunReports(p) \/ Killed(p)
            BY <3>4, <2>4 DEF FetchFails, NothingToDo, SkipKnownBad, SkipOutsideWindow,
                    GateFails, DryRunReports, Killed, RecordOutcome, TypeOK
        <3> QED BY <1>3, <3>1, <3>2, <3>3, <3>4
    <2> QED BY <2>3, <2>5 DEF TypeOK
<1> QED BY <1>0, <1>1, <1>2, <1>3 DEF Next

LEMMA LockStep ==
    ASSUME LockInv, [Next]_vars
    PROVE  Exclusive' /\ Holding'
<1> USE LockAssumption DEF LockInv
<1>0. CASE UNCHANGED vars
    BY <1>0 DEF Exclusive, Holding, vars
<1>1. CASE Push
    BY <1>1 DEF Push, Exclusive, Holding
<1>2. ASSUME NEW p \in Procs, AcquireShared(p) \/ AcquireExclusive(p)
      PROVE  Exclusive' /\ Holding'
    BY <1>2 DEF TypeOK, Exclusive, Holding, At, Goto, AcquireShared, AcquireExclusive, Proc
<1>3. ASSUME NEW p \in Procs,
             \/ Load(p) \/ Fetch(p) \/ PreviewHead(p) \/ PreviewTracking(p)
             \/ SkipIrrelevant(p) \/ AdvanceCheckout(p)
      PROVE  Exclusive' /\ Holding'
    <2>1. UNCHANGED <<writer, readers>>
        BY <1>3 DEF Load, Fetch, PreviewHead, PreviewTracking, SkipIrrelevant, AdvanceCheckout
    <2>2. \A q \in Procs : proc'[q].pc # "idle" <=> proc[q].pc # "idle"
        BY <1>3 DEF TypeOK, Proc, At, Goto, SomethingToDo, Load, Fetch, PreviewHead,
                    PreviewTracking, SkipIrrelevant, AdvanceCheckout
    <2> QED BY <2>1, <2>2 DEF Exclusive, Holding
<1>4. ASSUME NEW p \in Procs, Release(p)
      PROVE  Exclusive' /\ Holding'
    BY <1>4 DEF Release, Idle, TypeOK, Exclusive, Holding
<1> QED
    BY <1>0, <1>1, <1>2, <1>3, <1>4 DEF Next, FetchFails, NothingToDo, SkipKnownBad,
        SkipOutsideWindow, GateFails, DryRunReports, Apply, AdvanceFails, RecordCheckout, Killed

\* Whoever saves the record and is not alone saves what the others know.
LEMMA SavesAgree ==
    ASSUME LockInv, Next, writer = None
    PROVE  disk'.healthy = disk.healthy /\ disk'.bad = disk.bad
<1> USE LockAssumption DEF LockInv
<1>1. CASE Push
    BY <1>1 DEF Push
<1>2. ASSUME NEW p \in Procs, RecordOutcome(p) \/ disk' = [proc[p].st EXCEPT !.checkout = proc[p].new],
             proc[p].pc \notin {"idle", "load"}
      PROVE  disk'.healthy = disk.healthy /\ disk'.bad = disk.bad
    <2>1. p \in readers
        BY <1>2 DEF Holding
    <2>2. proc[p].st \in Record
        BY DEF TypeOK, Proc
    <2> QED BY <1>2, <2>1, <2>2 DEF Fresh, RecordOutcome, Record
<1>3. ASSUME NEW p \in Procs,
             \/ FetchFails(p) \/ SkipKnownBad(p) \/ GateFails(p)
             \/ AdvanceFails(p) \/ RecordCheckout(p)
      PROVE  disk'.healthy = disk.healthy /\ disk'.bad = disk.bad
    BY <1>2, <1>3 DEF FetchFails, SkipKnownBad, GateFails, AdvanceFails, RecordCheckout,
                      SomethingToDo, At
<1>4. ASSUME NEW p \in Procs,
             \/ AcquireShared(p) \/ AcquireExclusive(p) \/ Load(p) \/ Fetch(p)
             \/ PreviewHead(p) \/ PreviewTracking(p) \/ NothingToDo(p) \/ SkipOutsideWindow(p)
             \/ SkipIrrelevant(p) \/ DryRunReports(p) \/ AdvanceCheckout(p) \/ Killed(p)
      PROVE  disk' = disk
    BY <1>4 DEF AcquireShared, AcquireExclusive, Load, Fetch, PreviewHead, PreviewTracking,
                NothingToDo, SkipOutsideWindow, SkipIrrelevant, DryRunReports,
                AdvanceCheckout, Killed
<1>5. ASSUME NEW p \in Procs PROVE ~Apply(p)
    BY DEF Apply
<1> QED BY <1>1, <1>3, <1>4, <1>5 DEF Next

\* Whoever moves HEAD and is not alone moves it between commits that Compose
\* cannot tell apart.
LEMMA MovesAgree ==
    ASSUME LockInv, Next, writer = None
    PROVE  Content[head'] = Content[head]
<1> USE LockAssumption DEF LockInv
<1>1. CASE Push
    BY <1>1 DEF Push
<1>2. ASSUME NEW p \in Procs, AdvanceCheckout(p) \/ AdvanceFails(p)
      PROVE  Content[head'] = Content[head]
    <2>1. p \in readers /\ proc[p].pc = "checkout"
        BY <1>2 DEF Holding, AdvanceCheckout, AdvanceFails, At
    <2> QED BY <1>2, <2>1 DEF Steady, AdvanceCheckout, AdvanceFails
<1>3. ASSUME NEW p \in Procs,
             \/ AcquireShared(p) \/ AcquireExclusive(p) \/ Load(p) \/ Fetch(p) \/ FetchFails(p)
             \/ PreviewHead(p) \/ PreviewTracking(p) \/ NothingToDo(p) \/ SkipKnownBad(p)
             \/ SkipOutsideWindow(p) \/ SkipIrrelevant(p) \/ GateFails(p) \/ DryRunReports(p)
             \/ RecordCheckout(p) \/ Killed(p)
      PROVE  head' = head
    BY <1>3 DEF AcquireShared, AcquireExclusive, Load, Fetch, FetchFails, PreviewHead,
                PreviewTracking, NothingToDo, SkipKnownBad, SkipOutsideWindow,
                SkipIrrelevant, GateFails, DryRunReports, RecordCheckout, Killed
<1>4. ASSUME NEW p \in Procs PROVE ~Apply(p)
    BY DEF Apply
<1> QED BY <1>1, <1>2, <1>3, <1>4 DEF Next

LEMMA FreshStep ==
    ASSUME LockInv, [Next]_vars
    PROVE  Fresh' /\ Steady'
<1> USE LockAssumption DEF LockInv
<1>0. CASE UNCHANGED vars
    BY <1>0 DEF Fresh, Steady, vars
<1>1. CASE Next /\ writer # None
    \* Nobody else holds the lock, and nobody gets it in shared mode.
    <2>1. readers' = {}
        BY <1>1 DEF Next, Push, Exclusive, Release, AcquireShared, AcquireExclusive, Load, Fetch,
                FetchFails, PreviewHead, PreviewTracking, NothingToDo, SkipKnownBad,
                SkipOutsideWindow, SkipIrrelevant, GateFails, DryRunReports, Apply,
                AdvanceCheckout, AdvanceFails, RecordCheckout, Killed
    <2> QED BY <2>1 DEF Fresh, Steady
<1>2. CASE Next /\ writer = None
    <2> USE <1>2
    <2>1. disk'.healthy = disk.healthy /\ disk'.bad = disk.bad /\ Content[head'] = Content[head]
        BY SavesAgree, MovesAgree
    <2>2. CASE Push
        BY <2>2 DEF Push, Fresh, Steady
    <2>3. ASSUME NEW p \in Procs, AcquireShared(p) \/ AcquireExclusive(p)
          PROVE  Fresh' /\ Steady'
        BY <2>3 DEF TypeOK, Proc, Fresh, Steady, AcquireShared, AcquireExclusive, Goto, Exclusive
    <2>4. ASSUME NEW p \in Procs, Load(p) \/ Fetch(p) \/ PreviewHead(p) \/ PreviewTracking(p)
          PROVE  Fresh' /\ Steady'
        BY <2>4 DEF TypeOK, Proc, Fresh, Steady, Load, Fetch, PreviewHead, PreviewTracking, Goto, At
    <2>5. ASSUME NEW p \in Procs, SkipIrrelevant(p)
          PROVE  Fresh' /\ Steady'
        BY <2>5 DEF TypeOK, Proc, Fresh, Steady, SkipIrrelevant, Irrelevant, SomethingToDo, Goto, At
    <2>6. ASSUME NEW p \in Procs, AdvanceCheckout(p)
          PROVE  Fresh' /\ Steady'
        BY <2>1, <2>6 DEF TypeOK, Proc, Fresh, Steady, AdvanceCheckout, Goto, At
    <2>7. ASSUME NEW p \in Procs, Release(p)
          PROVE  Fresh' /\ Steady'
        BY <2>1, <2>7 DEF TypeOK, Fresh, Steady, Release
    <2> QED
        BY <1>2, <2>2, <2>3, <2>4, <2>5, <2>6, <2>7 DEF Next, FetchFails, NothingToDo,
            SkipKnownBad, SkipOutsideWindow, GateFails, DryRunReports, Apply, AdvanceFails,
            RecordCheckout, Killed
<1> QED BY <1>0, <1>1, <1>2

\* The inductive invariant: the lock, and what a check knows, at every step of
\* every interleaving of checks and syncs.
THEOREM LockInvariant == Spec => []LockInv
<1>1. Init => LockInv
    BY LockAssumption DEF Init, LockInv, TypeOK, Exclusive, Holding, Fresh, Steady, Seen, Idle,
       Proc, Record, NewRecord, Steps, CommitOrNone
<1>2. LockInv /\ [Next]_vars => LockInv'
    BY TypeStep, LockStep, FreshStep DEF LockInv
<1> QED BY <1>1, <1>2, PTL DEF Spec

\* Every variable keeps its shape; HEAD never leaves the commits.
THEOREM LockTypeOK == Spec => []TypeOK
BY LockInvariant, PTL DEF LockInv

\* Checks under the shared lock (setup.go:102-106) never change what Compose
\* would read from the checkout (advanceCheckout and the restore after it fails).
THEOREM ContentKept == Spec => ChecksKeepContent
<1>1. LockInv /\ [Next]_vars => [writer = None => Content[head'] = Content[head]]_vars
    BY MovesAgree DEF vars
<1> QED BY <1>1, LockInvariant, PTL DEF Spec, ChecksKeepContent

\* The record a check writes back (recordOutcome, recordCheckout) never undoes
\* the outcome of a sync.
THEOREM JudgementsKept == Spec => OnlySyncsJudge
<1>1. LockInv /\ [Next]_vars =>
        [<<disk.healthy, disk.bad>>' # <<disk.healthy, disk.bad>> => writer # None]_vars
    BY SavesAgree DEF vars
<1> QED BY <1>1, LockInvariant, PTL DEF Spec, OnlySyncsJudge
=============================================================================
