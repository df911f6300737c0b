-------------------------------- MODULE Inputs --------------------------------
(***************************************************************************)
(* Listing the files a compose project reads (ProjectInputs of             *)
(* internal/compose/inputs.go), to decide whether a changed file concerns  *)
(* its stack (stackInputsMatch). The walker follows include and extends    *)
(* from file to file; a reference it cannot follow makes the list          *)
(* incomplete, and then every change concerns the stack.                   *)
(*                                                                         *)
(* A path is a directory and a name. A reference names a path outright, or *)
(* one beside whatever directory it is resolved against, or is one the     *)
(* code cannot resolve. The walk is a stack of calls of visit, walkInclude *)
(* and walkExtends, the deepest on top, in the order the code makes them.  *)
(***************************************************************************)
EXTENDS Naturals, Sequences, FiniteSets, SequencesExt

CONSTANTS
    Directories,
    WorkingDir,       \* the project's
    Start,            \* the project's compose files, as references
    Declared,         \* references the loaded project makes from its working
                      \* directory: env files, build contexts, configs, secrets
    Builds,           \* builds: a context, which is a directory, and a dockerfile
    Paths,            \* files that may be there
    Checkouts,        \* what they hold, in each checkout
    NoDir,            \* an empty directory, as a string
    Unreadable,       \* a missing file, or one that is not a YAML mapping
    Malformed,        \* an entry of an unexpected type
    MaxIncludeDepth   \* maxIncludeDepth (16 in the code)

\* Where a reference leads.
Here        == "here"                \* relative to the directory it is resolved against
Unresolved  == {"variable", "empty"} \* holds a $, or is ""
Remote      == "remote"

DirOrNone == Directories \cup {NoDir}
Reference == [dir : Directories \cup {Here, Remote} \cup Unresolved, name : STRING]

\* An include lists its paths, its project_directory (a directory, Here when it
\* has none, or one that cannot be resolved) and its env files; an extends names
\* a file.
IncludeEntry == [paths : Seq(Reference), project : Directories \cup {Here, Remote, "variable"},
                 env : SUBSET Reference] \cup {Malformed}
ExtendsEntry == Reference \cup {Malformed}
Document     == [includes : Seq(IncludeEntry), extends : Seq(ExtendsEntry)]

ASSUME InputsAssumption ==
    /\ IsFiniteSet(Directories) /\ IsFiniteSet(Paths)
    /\ WorkingDir \in Directories
    /\ NoDir \notin Directories
    /\ ({Here, Remote} \cup Unresolved) \cap Directories = {}
    /\ Start \in Seq(Reference)
    /\ Checkouts \subseteq [Paths -> Document \cup {Unreadable}]
    /\ MaxIncludeDepth \in Nat

VARIABLES
    doc,       \* doc[p]: what file p holds
    todo,      \* calls still to be made
    seen, paths, complete   \* the fields of inputWalker

walkVars == <<doc, todo, seen, paths, complete>>

\* resolveInput
Resolves(base, ref) ==
    \/ ref.dir \in Directories
    \/ ref.dir = Here /\ base # NoDir

Resolve(base, ref) == IF ref.dir = Here THEN <<base, ref.name>> ELSE <<ref.dir, ref.name>>

Resolved(base, refs) == {Resolve(base, r) : r \in {s \in refs : Resolves(base, s)}}

EnvBeside(dir) == IF dir = NoDir THEN {} ELSE {<<dir, ".env">>}

Holds(d, p) == IF p \in Paths THEN d[p] ELSE Unreadable

-----------------------------------------------------------------------------
(* What the entries of a file lead to. *)

\* walkInclude gets to the entry's files.
Includes(e) == e # Malformed /\ e.paths # <<>> /\ e.project \in Directories \cup {Here}

IncludeDir(e, base) ==
    IF e.project \in Directories THEN e.project
    ELSE IF Resolves(base, e.paths[1]) THEN Resolve(base, e.paths[1])[1] ELSE NoDir

IncludeEnv(e, base) ==
    IF e.env = {} THEN EnvBeside(IncludeDir(e, base)) ELSE Resolved(base, e.env)

EnvResolves(e, base) == \A r \in e.env : Resolves(base, r)

\* walkExtends has a file to visit; one without a file names a service of its own.
Extends(r, base) == r # Malformed /\ Resolves(base, r)
ExtendsNothing(r) == r # Malformed /\ r.dir = "empty"

Call(what, item, base, contents, depth) ==
    [what |-> what, item |-> item, base |-> base, contents |-> contents, depth |-> depth]

\* One call for each item of a list.
Calls(what, items, base, contents, depth) ==
    [i \in DOMAIN items |-> Call(what, items[i], base, contents, depth)]

\* The calls of walkInclude and walkExtends that visit makes in its two loops.
Entries(d, base, depth) ==
    Calls("include", d.includes, base, base, depth) \o Calls("extends", d.extends, base, base, depth)

\* walkInclude's calls of visit
IncludeCalls(e, base, depth) == Calls("visit", e.paths, base, IncludeDir(e, base), depth + 1)

\* walkExtends' call of visit, whose absolute path means the same everywhere
ExtendsCall(r, base, depth) == Call("visit", r, base, Resolve(base, r)[1], depth + 1)

-----------------------------------------------------------------------------
(* The declared inputs. *)

Local(refs) == {r \in refs : r.dir \notin {Remote, "empty"}}

\* buildContextDir: an empty context is the working directory.
ContextDir(b) == IF b.context = "empty" THEN WorkingDir ELSE b.context

\* A build context is an input as a whole. Its dockerfile is looked for in it.
ContextInputs(b) ==
    (IF b.context \in Directories THEN {<<b.context, ".">>} ELSE {})
    \cup IF ContextDir(b) \in Directories THEN Resolved(ContextDir(b), Local({b.dockerfile})) ELSE {}

ContextComplete(b) ==
    \/ b.context = Remote
    \/ ContextDir(b) \in Directories /\ \A r \in Local({b.dockerfile}) : Resolves(ContextDir(b), r)

\* declaredPaths
DeclaredPaths ==
    EnvBeside(WorkingDir) \cup Resolved(WorkingDir, Local(Declared))
    \cup UNION {ContextInputs(b) : b \in Builds}

DeclaredComplete ==
    /\ \A r \in Local(Declared) : Resolves(WorkingDir, r)
    /\ \A b \in Builds : ContextComplete(b)

-----------------------------------------------------------------------------
(* The walk. *)

Task == [what : {"visit", "include", "extends"}, item : Reference \cup IncludeEntry,
         base : DirOrNone, contents : DirOrNone, depth : 0..MaxIncludeDepth]

WalkTypeOK ==
    /\ doc \in Checkouts
    /\ todo \in Seq(Task)
    /\ \A i \in DOMAIN todo :
         /\ todo[i].what = "visit" => todo[i].item \in Reference
         /\ todo[i].what = "include" => todo[i].item \in IncludeEntry
         /\ todo[i].what = "extends" => todo[i].item \in ExtendsEntry
         /\ todo[i].what # "visit" => todo[i].depth < MaxIncludeDepth
    /\ seen \subseteq paths
    /\ complete \in BOOLEAN

WalkInit ==
    /\ doc \in Checkouts
    /\ todo = Calls("visit", Start, WorkingDir, WorkingDir, 0)
    /\ seen = {}
    /\ paths = {}
    /\ complete = TRUE

Top == Head(todo)
Doing(what) == todo # <<>> /\ Top.what = what

File == Resolve(Top.base, Top.item)
Content == Holds(doc, File)

\* The early returns of visit: a remote file is nobody's, a path that cannot
\* be resolved is a gap, and a file is walked once.
VisitNothing ==
    /\ Doing("visit")
    /\ \/ Top.item.dir = Remote
       \/ ~Resolves(Top.base, Top.item)
       \/ File \in seen
    /\ complete' = (complete /\ (Top.item.dir = Remote \/ Resolves(Top.base, Top.item)))
    /\ todo' = Tail(todo)
    /\ UNCHANGED <<doc, seen, paths>>

NewFile ==
    /\ Doing("visit")
    /\ Top.item.dir # Remote
    /\ Resolves(Top.base, Top.item)
    /\ File \notin seen

TooDeep == Top.depth >= MaxIncludeDepth

\* The file counts, but is not looked into.
VisitLeaf ==
    /\ NewFile
    /\ TooDeep \/ Content = Unreadable
    /\ seen' = seen \cup {File}
    /\ paths' = paths \cup {File}
    /\ complete' = FALSE
    /\ todo' = Tail(todo)
    /\ UNCHANGED doc

\* Mutant: what lies beside a file counts with it.
VisitDirectory ==
    /\ NewFile
    /\ ~TooDeep /\ Content # Unreadable
    /\ seen' = seen \cup {File}
    /\ paths' = paths \cup {File, <<File[1], ".">>}
    /\ todo' = Entries(Content, Top.contents, Top.depth) \o Tail(todo)
    /\ UNCHANGED <<doc, complete>>

Visit ==
    /\ NewFile
    /\ ~TooDeep /\ Content # Unreadable
    /\ seen' = seen \cup {File}
    /\ paths' = paths \cup {File}
    /\ todo' = Entries(Content, Top.contents, Top.depth) \o Tail(todo)
    /\ UNCHANGED <<doc, complete>>

WalkInclude ==
    /\ Doing("include")
    /\ Includes(Top.item)
    /\ paths' = paths \cup IncludeEnv(Top.item, Top.base)
    /\ complete' = (complete /\ EnvResolves(Top.item, Top.base))
    /\ todo' = IncludeCalls(Top.item, Top.base, Top.depth) \o Tail(todo)
    /\ UNCHANGED <<doc, seen>>

\* Mutant: an entry that cannot be followed is passed over.
WalkIncludeLeniently ==
    /\ Doing("include")
    /\ ~Includes(Top.item)
    /\ todo' = Tail(todo)
    /\ UNCHANGED <<doc, seen, paths, complete>>

WalkIncludeFails ==
    /\ Doing("include")
    /\ ~Includes(Top.item)
    /\ complete' = FALSE
    /\ todo' = Tail(todo)
    /\ UNCHANGED <<doc, seen, paths>>

WalkExtends ==
    /\ Doing("extends")
    /\ Extends(Top.item, Top.base)
    /\ todo' = <<ExtendsCall(Top.item, Top.base, Top.depth)>> \o Tail(todo)
    /\ UNCHANGED <<doc, seen, paths, complete>>

WalkExtendsNothing ==
    /\ Doing("extends")
    /\ ~Extends(Top.item, Top.base)
    /\ complete' = (complete /\ ExtendsNothing(Top.item))
    /\ todo' = Tail(todo)
    /\ UNCHANGED <<doc, seen, paths>>

Done == todo = <<>> /\ UNCHANGED walkVars

WalkNext ==
    \/ VisitNothing \/ VisitLeaf \/ Visit
    \/ WalkInclude \/ WalkIncludeFails
    \/ WalkExtends \/ WalkExtendsNothing
    \/ Done

WalkSpec == WalkInit /\ [][WalkNext]_walkVars

\* stackInputsMatch and dependencyChanged, for one changed file: a list with
\* gaps matches everything, and a directory what is in it.
Matches(f) ==
    LET inputs == paths \cup DeclaredPaths
    IN  ~(complete /\ DeclaredComplete) \/ f \in inputs \/ <<f[1], ".">> \in inputs

-----------------------------------------------------------------------------
(* What Compose reads: the files reached from the compose files, each with  *)
(* the directory its entries are resolved against. A file can be reached    *)
(* under several.                                                           *)

Roots == {<<Resolve(WorkingDir, r), WorkingDir>> : r \in {s \in ToSet(Start) : Resolves(WorkingDir, s)}}

Followed(d) == {e \in ToSet(d.includes) : Includes(e)}

\* The files an entry leads to.
Included(e, base) ==
    {<<Resolve(base, r), IncludeDir(e, base)>> : r \in {s \in ToSet(e.paths) : Resolves(base, s)}}
Extended(r, base) == <<Resolve(base, r), Resolve(base, r)[1]>>

Children(d, base) ==
    {Extended(r, base) : r \in {s \in ToSet(d.extends) : Extends(s, base)}}
    \cup UNION {Included(e, base) : e \in Followed(d)}

\* ... in checkout d, from one of a set of files.
ReadBy(d, files) ==
    UNION {Children(Holds(d, q[1]), q[2]) : q \in {r \in files : Holds(d, r[1]) # Unreadable}}

\* No chain of files, each under a directory or none, is longer than this.
Longest == Cardinality(Paths) * Cardinality(DirOrNone)

ReadIn(d) ==
    LET Within[n \in Nat] ==
            IF n = 0 THEN Roots
            ELSE LET nearer == Within[n - 1] IN nearer \cup ReadBy(d, nearer)
    IN  Within[Longest]

Read == ReadIn(doc)

\* Something of a file that is read under a directory cannot be told.
Obscure(d, base) ==
    \/ d = Unreadable
    \/ \E e \in ToSet(d.includes) :
         \/ ~Includes(e)
         \/ ~EnvResolves(e, base)
         \/ \E r \in ToSet(e.paths) : r.dir # Remote /\ ~Resolves(base, r)
    \/ \E r \in ToSet(d.extends) : ~Extends(r, base) /\ ~ExtendsNothing(r)

\* Something Compose reads cannot be told from the files.
Gap ==
    \/ ~DeclaredComplete
    \/ \E r \in ToSet(Start) : r.dir # Remote /\ ~Resolves(WorkingDir, r)
    \/ \E q \in Read : Obscure(Holds(doc, q[1]), q[2])

EnvFiles(d, base) == IF d = Unreadable THEN {} ELSE UNION {IncludeEnv(e, base) : e \in Followed(d)}

ReadFiles ==
    DeclaredPaths \cup {q[1] : q \in Read}
    \cup UNION {EnvFiles(Holds(doc, q[1]), q[2]) : q \in Read}

IsRead(f) == f \in ReadFiles \/ <<f[1], ".">> \in ReadFiles

\* Every file is reached under one directory.
Unambiguous == \A q, r \in Read : q[1] = r[1] => q = r

-----------------------------------------------------------------------------
\* A change to a file the stack reads, or may read for all one can tell, puts
\* the stack in the cycle, through cycles of includes and past the depth limit
\* (a missed one would be a silent skip), in a project that reaches each file
\* under one directory. Where one is reached under two, the walk skips it the
\* second time (inputs.go:111), and EveryInputCounts fails.
NoInputIsMissed ==
    todo = <<>> /\ Unambiguous =>
        \A f \in Paths : IsRead(f) \/ Gap => Matches(f)

\* A complete list names only files the stack reads: a change elsewhere does
\* not restart it.
NothingElseMatches ==
    todo = <<>> /\ complete => \A f \in Paths : Matches(f) => IsRead(f) \/ Gap

\* What docs/how-it-works.md says of the list, of every file: every input
\* reachable from the compose file, nested includes too.
EveryInputCounts == todo = <<>> => \A f \in Paths : IsRead(f) => Matches(f)
===============================================================================
