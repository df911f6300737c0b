----------------------------- MODULE MCDiscovery -----------------------------
(***************************************************************************)
(* Small checkouts for TLC: compose_dir with two subdirectories whose names*)
(* give the same project, and up to three candidate files in each.         *)
(***************************************************************************)
EXTENDS Discovery, TLC

ThreeDirs  == <<"root", "Api", "api">>
ThreeNames == {"a.override.yml", "compose.yml", "extra.yml"}

NameOrder == "a.override.yml" :> 1 @@ "compose.yml" :> 2 @@ "extra.yml" :> 3

NameRank == "a.override.yml" :> 2 @@ "compose.yml" :> 0 @@ "extra.yml" :> 1

Holdings == {"web", "web2", "volumes", "notes", "broken"}
HoldingKind == "web" :> "workload" @@ "web2" :> "workload" @@ "volumes" :> "fragment"
            @@ "notes" :> "foreign" @@ "broken" :> "invalid"

DirProject == "root" :> 1 @@ "Api" :> 2 @@ "api" :> 2

Folder3(override, compose, extra) ==
    "a.override.yml" :> override @@ "compose.yml" :> compose @@ "extra.yml" :> extra

EmptyFolder    == Folder3(Absent, Absent, Absent)
WebFolder      == Folder3(Absent, "web", Absent)
NotesFolder    == Folder3(Absent, "notes", Absent)
FragmentFolder == Folder3(Absent, "notes", "volumes")
FullFolder     == Folder3("volumes", "web2", "web")
BrokenFolder   == Folder3(Absent, "broken", "web")

Tree3(root, upper, lower) == "root" :> root @@ "Api" :> upper @@ "api" :> lower

\* Among them are trees that differ only in what a file holds, trees without a
\* stack, with two directories for one project, and with a broken file.
SomeTrees ==
    {Tree3(r, u, l) : r \in {WebFolder, NotesFolder, FragmentFolder},
                      u \in {EmptyFolder, WebFolder, BrokenFolder},
                      l \in {EmptyFolder, FullFolder}}

\* Two trees: the second has a subdirectory more.
TwoTrees == {Tree3(WebFolder, EmptyFolder, l) : l \in {EmptyFolder, FullFolder}}
=============================================================================
