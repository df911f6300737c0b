------------------------------ MODULE Discovery ------------------------------
(***************************************************************************)
(* Finding the stacks of a checkout (internal/compose/discover.go): the    *)
(* root of compose_dir and each of its immediate subdirectories is a stack *)
(* if it holds compose files that define a workload. Discover keeps its    *)
(* last good answer under a fingerprint of the files it read.              *)
(*                                                                         *)
(* The callers are the reconcile run, which also moves the checkout, and   *)
(* the health monitor, which asks while a run may be under way, but only   *)
(* as long as the record names no stacks (Monitor.watched). A directory is *)
(* read in one step; git writes the checkout one directory at a time.      *)
(*                                                                         *)
(* Left out: hidden entries, symbolic links and files that are not YAML,   *)
(* which neither the fingerprint nor the walk looks into, and directories  *)
(* without candidate files, which only make fingerprints differ. A process *)
(* has one compose_dir and one base project name, so the cache needs no    *)
(* key.                                                                    *)
(***************************************************************************)
EXTENDS Naturals, Sequences, FiniteSets, SequencesExt

CONSTANTS
    Dirs,        \* compose_dir and its subdirectories, in the order of ReadDir
    Names,       \* the candidate files a directory can have
    Alphabet,    \* Alphabet[n]: where name n comes in the alphabet
    Rank,        \* Rank[n]: mergeRank, 0 for compose.yaml and the like, 2 for
                 \* an override, 1 for any other name
    Contents,    \* what such a file can hold
    Kind,        \* Kind[x]: what checkComposeFile makes of content x
    Project,     \* Project[d]: where the project name of directory d comes in
                 \* the alphabet; two directories can share one
    Trees,       \* the checkouts of the branch's commits
    Runner,      \* the reconcile run
    Callers,     \* the run, and the monitor where there is one
    Absent,      \* there is no such file
    Nothing,     \* no answer yet, or an empty cache
    MaxFailures  \* reads that fail

Kinds == {"workload",  \* a valid compose file with a service or an include
          "fragment",  \* a valid compose file with neither
          "foreign",   \* an empty file, or not a compose file
          "invalid"}   \* unparsable, several documents, against the schema

Folder == [Names -> Contents \cup {Absent}]
Tree   == [ToSet(Dirs) -> Folder]
Hash   == SUBSET (Names \X Contents)
Stack  == [project : Nat, dir : ToSet(Dirs), files : Seq(Names)]

ASSUME DiscoveryAssumption ==
    /\ Dirs \in Seq(ToSet(Dirs)) /\ Dirs # <<>>
    /\ \A i, j \in DOMAIN Dirs : Dirs[i] = Dirs[j] => i = j
    /\ IsFiniteSet(Names)
    /\ Alphabet \in [Names -> Nat]
    /\ \A m, n \in Names : Alphabet[m] = Alphabet[n] => m = n
    /\ Rank \in [Names -> 0..2]
    /\ Kind \in [Contents -> Kinds]
    /\ Project \in [ToSet(Dirs) -> Nat]
    /\ Absent \notin Contents
    /\ Trees \subseteq Tree
    /\ Runner \in Callers
    /\ MaxFailures \in Nat

VARIABLES
    active,   \* a run is under way (the activity counter is odd)
    tree,     \* the checkout on disk
    goal,     \* the checkout git is writing, or has written
    call,     \* call[c]: the call of Discover caller c is in
    answer,   \* answer[c]: what its last call returned
    cache,    \* the fingerprint and the stacks Discover has kept
    failures

vars == <<active, tree, goal, call, answer, cache, failures>>

-----------------------------------------------------------------------------
(* One directory, and the stacks of all of them. *)

\* checkComposeFile over the candidates: its err, its isCompose and its
\* hasWorkloads.
HasInvalid(folder) == \E n \in DOMAIN folder : folder[n] # Absent /\ Kind[folder[n]] = "invalid"

IsCompose(x) == x # Absent /\ Kind[x] \in {"workload", "fragment"}

HasWorkloads(folder) == \E n \in DOMAIN folder : folder[n] # Absent /\ Kind[folder[n]] = "workload"

\* slices.SortFunc, of things no two of which are equal
SortFunc(S, Before(_, _)) ==
    CHOOSE s \in [1..Cardinality(S) -> S] :
        \A i, j \in 1..Cardinality(S) : i < j => Before(s[i], s[j])

\* sortByMergeOrder: by rank, and by name within a rank.
MergesBefore(m, n) ==
    \/ Rank[m] < Rank[n]
    \/ Rank[m] = Rank[n] /\ Alphabet[m] < Alphabet[n]

ComposeFiles(folder) == {n \in DOMAIN folder : IsCompose(folder[n])}

ComposeFilesIn(folder) == SortFunc(ComposeFiles(folder), MergesBefore)

StackIn(d, folder) == [project |-> Project[d], dir |-> d, files |-> ComposeFilesIn(folder)]

Failed(why) == [err |-> why, stacks |-> <<>>]

\* The end of discover.
Discovered(found) ==
    IF found = <<>> THEN Failed("no stacks")
    ELSE IF \E i, j \in DOMAIN found : i # j /\ found[i].project = found[j].project
         THEN Failed("same project")
         ELSE [err |-> "", stacks |-> SortFunc(ToSet(found), LAMBDA s, t : s.project < t.project)]

-----------------------------------------------------------------------------
NoCall == [at |-> "idle", print |-> <<>>, hashed |-> TRUE, read |-> 0, found |-> <<>>]

TypeOK ==
    /\ active \in BOOLEAN
    /\ tree \in Tree
    /\ goal \in Trees
    /\ call \in [Callers -> [at : {"idle", "print", "lookup", "walk", "finish"},
                              print : Seq(Hash), hashed : BOOLEAN,
                              read : 0..Len(Dirs), found : Seq(Stack)]]
    /\ DOMAIN answer = Callers
    /\ cache # Nothing => cache.print \in Seq(Hash) /\ Len(cache.print) = Len(Dirs)
    /\ failures \in 0..MaxFailures

Init ==
    /\ active = FALSE
    /\ tree \in Trees
    /\ goal = tree
    /\ call = [c \in Callers |-> NoCall]
    /\ answer = [c \in Callers |-> Nothing]
    /\ cache = Nothing
    /\ failures = 0

CanFail == failures < MaxFailures /\ failures' = failures + 1

BeginRun ==
    /\ ~active
    /\ active' = TRUE
    /\ UNCHANGED <<tree, goal, call, answer, cache, failures>>

EndRun ==
    /\ active
    /\ call[Runner].at = "idle"
    /\ tree = goal
    /\ active' = FALSE
    /\ answer' = [answer EXCEPT ![Runner] = Nothing]
    /\ UNCHANGED <<tree, goal, call, cache, failures>>

\* The run moves the checkout between two of its calls, and git writes what
\* differs, in any order.
Checkout(t) ==
    /\ active
    /\ tree = goal
    /\ call[Runner].at = "idle"
    /\ t # tree
    /\ goal' = t
    /\ answer' = [answer EXCEPT ![Runner] = Nothing]
    /\ UNCHANGED <<active, tree, call, cache, failures>>

WriteFolder(d) ==
    /\ tree[d] # goal[d]
    /\ tree' = [tree EXCEPT ![d] = goal[d]]
    /\ UNCHANGED <<active, goal, call, answer, cache, failures>>

\* The monitor asks between runs, and a run may begin before it has its answer.
Ask(c) ==
    /\ call[c].at = "idle"
    /\ active <=> c = Runner
    /\ tree = goal
    /\ call' = [call EXCEPT ![c] = [NoCall EXCEPT !.at = "print"]]
    /\ answer' = [answer EXCEPT ![c] = Nothing]
    /\ UNCHANGED <<active, tree, goal, cache, failures>>

NextDir(c) == Dirs[call[c].read + 1]

\* Mutant: the fingerprint is of the files that are there, not of their contents.
HashFolderNames(folder) ==
    {<<n, "">> : n \in {m \in DOMAIN folder : folder[m] # Absent}}

\* hashComposeFiles: the candidates of a directory, by name and content.
HashFolder(folder) ==
    {<<n, folder[n]>> : n \in {m \in DOMAIN folder : folder[m] # Absent}}

Fingerprint(c) ==
    /\ call[c].at = "print"
    /\ LET p == Append(call[c].print, HashFolder(tree[NextDir(c)]))
       IN  call' = IF Len(p) = Len(Dirs)
                   THEN [call EXCEPT ![c].print = p, ![c].read = 0, ![c].at = "lookup"]
                   ELSE [call EXCEPT ![c].print = p, ![c].read = @ + 1]
    /\ UNCHANGED <<active, tree, goal, answer, cache, failures>>

\* A directory or a file cannot be read: the cache is left out of this call.
FingerprintFails(c) ==
    /\ call[c].at = "print"
    /\ CanFail
    /\ call' = [call EXCEPT ![c].hashed = FALSE, ![c].read = 0, ![c].at = "walk"]
    /\ UNCHANGED <<active, tree, goal, answer, cache>>

Hit(c) == cache # Nothing /\ cache.print = call[c].print

Return(c, a) ==
    /\ answer' = [answer EXCEPT ![c] = a]
    /\ call' = [call EXCEPT ![c] = NoCall]

Lookup(c) ==
    /\ call[c].at = "lookup"
    /\ IF Hit(c)
       THEN Return(c, [err |-> "", stacks |-> cache.stacks])
       ELSE call' = [call EXCEPT ![c].at = "walk"] /\ UNCHANGED answer
    /\ UNCHANGED <<active, tree, goal, cache, failures>>

\* discover, one directory: an invalid file ends the call.
Walk(c) ==
    /\ call[c].at = "walk"
    /\ LET d == NextDir(c)
           folder == tree[d]
       IN  IF HasInvalid(folder)
           THEN Return(c, Failed("invalid"))
           ELSE /\ call' = [call EXCEPT
                     ![c].found = IF HasWorkloads(folder) THEN Append(@, StackIn(d, folder)) ELSE @,
                     ![c].read = @ + 1,
                     ![c].at = IF call[c].read + 1 = Len(Dirs) THEN "finish" ELSE "walk"]
                /\ UNCHANGED answer
    /\ UNCHANGED <<active, tree, goal, cache, failures>>

WalkFails(c) ==
    /\ call[c].at = "walk"
    /\ CanFail
    /\ Return(c, Failed("read"))
    /\ UNCHANGED <<active, tree, goal, cache>>

\* The end of Discover: a good answer is kept under the fingerprint, if any.
Finish(c) ==
    /\ call[c].at = "finish"
    /\ LET a == Discovered(call[c].found)
       IN  /\ Return(c, a)
           /\ cache' = IF call[c].hashed /\ a.err = ""
                       THEN [print |-> call[c].print, stacks |-> a.stacks] ELSE cache
    /\ UNCHANGED <<active, tree, goal, failures>>

Next ==
    \/ BeginRun \/ EndRun
    \/ \E t \in Trees : Checkout(t)
    \/ \E d \in ToSet(Dirs) : WriteFolder(d)
    \/ \E c \in Callers :
         \/ Ask(c) \/ Fingerprint(c) \/ FingerprintFails(c) \/ Lookup(c)
         \/ Walk(c) \/ WalkFails(c) \/ Finish(c)

Spec == Init /\ [][Next]_vars

-----------------------------------------------------------------------------
(* What an answer should be, without the passes, the cache and the failures. *)

\* The directories of t with a workload.
WorkloadDirs(t) == {d \in ToSet(Dirs) : HasWorkloads(t[d])}

\* Every compose file of the directory, once, a base file before the others and
\* an override after them, so that Compose merges them in this order.
InMergeOrder(files, folder) ==
    /\ ToSet(files) = {n \in Names : IsCompose(folder[n])}
    /\ \A i, j \in DOMAIN files : i < j => files[i] # files[j] /\ Rank[files[i]] <= Rank[files[j]]

Describes(a, t) ==
    IF \E d \in ToSet(Dirs) : HasInvalid(t[d]) THEN a.err = "invalid"
    ELSE IF WorkloadDirs(t) = {} THEN a.err = "no stacks"
    ELSE IF \E d, e \in WorkloadDirs(t) : d # e /\ Project[d] = Project[e]
         THEN a.err = "same project"
    ELSE /\ a.err = ""
         /\ {a.stacks[i].dir : i \in DOMAIN a.stacks} = WorkloadDirs(t)
         /\ \A i, j \in DOMAIN a.stacks : i < j => a.stacks[i].project < a.stacks[j].project
         /\ \A i \in DOMAIN a.stacks : InMergeOrder(a.stacks[i].files, t[a.stacks[i].dir])

\* What a run is told is what its checkout holds, also when an earlier answer is
\* reused, when the fingerprint could not be taken and after calls that failed:
\* the stacks applied, watched and torn down are those of the commit at hand
\* (Discover).
DiscoverIsCurrent ==
    answer[Runner] # Nothing /\ answer[Runner].err # "read" => Describes(answer[Runner], goal)
=============================================================================
