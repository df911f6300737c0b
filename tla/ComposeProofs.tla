---------------------------- MODULE ComposeProofs ----------------------------
(***************************************************************************)
(* What internal/compose tells a run about its checkout: the stacks        *)
(* (Discover) and the files each of them reads (ProjectInputs).            *)
(*                                                                         *)
(* The stacks, for every checkout and every order of runs, checkouts and   *)
(* failed reads: a finite set with a strict order can be sorted; a         *)
(* fingerprint tells checkouts apart; the walk over all directories gives  *)
(* an answer that describes the checkout; what is kept describes some      *)
(* checkout that has the fingerprint it is kept under.                     *)
(*                                                                         *)
(* The files, whatever they hold and however they include each other: the  *)
(* recursion that defines what Compose reads is closed under include and   *)
(* extends at its bound, by counting, and is the least such set; a call    *)
(* that is to be made is for something read, and as long as the list has   *)
(* no gap, everything met was dealt with or is to be.                      *)
(***************************************************************************)
EXTENDS Discovery, Inputs, FiniteSetTheorems, WellFoundedInduction, TLAPS

-----------------------------------------------------------------------------
(* Induction over numbers, with sets in place of predicates, and sorting. *)

\* A set of numbers has a least one.
LEMMA Least ==
    ASSUME NEW T \in SUBSET Nat, T # {} PROVE \E x \in T : \A y \in T : x <= y
<1> DEFINE R == {ss \in Nat \X Nat : ss[1] < ss[2]}
<1>1. IsWellFoundedOn(R, Nat) BY NatLessThanWellFounded DEF OpToRel
<1>2. PICK x \in T : \A y \in T : ~(<<y, x>> \in R)
  <2> HIDE DEF R
  <2> QED BY <1>1, WFMin
<1>3. ASSUME NEW y \in T PROVE x <= y
  <2>1. <<y, x>> \in Nat \X Nat OBVIOUS
  <2>2. ~(y < x) BY <1>2, <2>1
  <2> QED BY <2>2
<1> QED BY <1>3

\* Induction: a set with 0 in it that goes on from every number to the next.
LEMMA SetInduction ==
    ASSUME NEW S, 0 \in S, \A n \in Nat : n \in S => n + 1 \in S PROVE Nat \subseteq S
<1> DEFINE T == Nat \ S
<1> SUFFICES ASSUME T # {} PROVE FALSE OBVIOUS
<1>1. PICK x \in T : \A y \in T : x <= y BY Least
<1>2. x # 0 OBVIOUS
<1>3. x - 1 \in Nat /\ x - 1 \notin T BY <1>1, <1>2
<1> QED BY <1>1, <1>3

StrictOrder(R, S) ==
    /\ \A x \in S : <<x, x>> \notin R
    /\ \A x, y, z \in S : <<x, y>> \in R /\ <<y, z>> \in R => <<x, z>> \in R
    /\ \A x, y \in S : x # y => <<x, y>> \in R \/ <<y, x>> \in R

\* The ways to list set S in the order R.
Sorting(S, R) ==
    {s \in [1..Cardinality(S) -> S] :
        \A i, j \in 1..Cardinality(S) : i < j => <<s[i], s[j]>> \in R}

\* A finite set can be sorted: put a last element in its place among the others.
LEMMA SortExists ==
    ASSUME NEW U, NEW R, StrictOrder(R, U), IsFiniteSet(U)
    PROVE  Sorting(U, R) # {}
<1> DEFINE Sortable == {n \in Nat : \A S \in SUBSET U : Cardinality(S) = n => Sorting(S, R) # {}}
<1>1. 0 \in Sortable
  <2> SUFFICES ASSUME NEW S \in SUBSET U, Cardinality(S) = 0 PROVE Sorting(S, R) # {} OBVIOUS
  <2> DEFINE s == [i \in 1..0 |-> i]
  <2>1. s \in [1..Cardinality(S) -> S] OBVIOUS
  <2>2. \A i, j \in 1..Cardinality(S) : i < j => <<s[i], s[j]>> \in R OBVIOUS
  <2> HIDE DEF s
  <2>3. s \in Sorting(S, R) BY <2>1, <2>2 DEF Sorting
  <2> QED BY <2>3
<1>2. ASSUME NEW n \in Nat, n \in Sortable PROVE n + 1 \in Sortable
  <2> SUFFICES ASSUME NEW S \in SUBSET U, Cardinality(S) = n + 1 PROVE Sorting(S, R) # {} OBVIOUS
  <2>1. IsFiniteSet(S) /\ S # {} BY FS_EmptySet, FS_Subset
  <2>2. PICK x : x \in S BY <2>1
  <2> DEFINE rest == S \ {x}
  <2>3. Cardinality(rest) = n /\ rest \in SUBSET U
    <3>1. Cardinality(S \ {x}) = Cardinality(S) - 1 BY <2>1, <2>2, FS_RemoveElement
    <3> QED BY <3>1
  <2>4. PICK s \in Sorting(rest, R) : TRUE BY <1>2, <2>3
  <2>5. /\ s \in [1..n -> rest] /\ \A i, j \in 1..n : i < j => <<s[i], s[j]>> \in R
    BY <2>3, <2>4 DEF Sorting
  <2> DEFINE above == {i \in 1..(n + 1) : i = n + 1 \/ <<x, s[i]>> \in R}
  <2>6. PICK k \in above : \A i \in above : k <= i
    <3>1. above \in SUBSET Nat /\ n + 1 \in above OBVIOUS
    <3> HIDE DEF above
    <3> QED BY <3>1, Least
  <2> DEFINE t == [i \in 1..(n + 1) |-> IF i < k THEN s[i] ELSE IF i = k THEN x ELSE s[i - 1]]
  <2>7. k \in 1..(n + 1) OBVIOUS
  <2>8. \A i \in 1..n : i < k => <<s[i], x>> \in R
    <3> TAKE i \in 1..n
    <3> HAVE i < k
    <3>1. i \notin above BY <2>6, <2>7
    <3>2. <<x, s[i]>> \notin R BY <3>1
    <3>3. s[i] \in U /\ x \in U /\ s[i] # x BY <2>2, <2>5
    <3> QED BY <3>2, <3>3 DEF StrictOrder
  <2>9. \A i \in 1..n : k <= i => <<x, s[i]>> \in R
    <3> TAKE i \in 1..n
    <3> HAVE k <= i
    <3>1. k \in 1..n /\ <<x, s[k]>> \in R BY <2>7
    <3>2. i = k \/ <<s[k], s[i]>> \in R BY <2>5, <3>1
    <3>3. s[i] \in U /\ x \in U /\ s[k] \in U BY <2>2, <2>5, <3>1
    <3> QED BY <3>1, <3>2, <3>3 DEF StrictOrder
  <2> HIDE DEF above
  <2>10. t \in [1..(n + 1) -> S]
    <3>1. ASSUME NEW i \in 1..(n + 1)
          PROVE  (IF i < k THEN s[i] ELSE IF i = k THEN x ELSE s[i - 1]) \in S
      BY <2>2, <2>5, <2>7
    <3> QED BY <3>1
  <2>11. ASSUME NEW i \in 1..(n + 1), NEW j \in 1..(n + 1), i < j PROVE <<t[i], t[j]>> \in R
    <3>1. CASE j < k
      <4>1. i \in 1..n /\ j \in 1..n /\ t[i] = s[i] /\ t[j] = s[j] BY <2>7, <2>11, <3>1
      <4> QED BY <2>5, <2>11, <4>1
    <3>2. CASE j = k
      <4>1. i \in 1..n /\ t[i] = s[i] /\ t[j] = x BY <2>7, <2>11, <3>2
      <4> QED BY <2>8, <2>11, <3>2, <4>1
    <3>3. CASE j > k /\ i < k
      <4>1. i \in 1..n /\ j - 1 \in 1..n /\ t[i] = s[i] /\ t[j] = s[j - 1] /\ i < j - 1
        BY <2>7, <2>11, <3>3
      <4> QED BY <2>5, <4>1
    <3>4. CASE j > k /\ i = k
      <4>1. j - 1 \in 1..n /\ t[i] = x /\ t[j] = s[j - 1] /\ k <= j - 1 BY <2>7, <2>11, <3>4
      <4> QED BY <2>9, <4>1
    <3>5. CASE i > k
      <4>1. /\ i - 1 \in 1..n /\ j - 1 \in 1..n /\ t[i] = s[i - 1] /\ t[j] = s[j - 1]
            /\ i - 1 < j - 1
        BY <2>7, <2>11, <3>5
      <4> QED BY <2>5, <4>1
    <3> QED BY <2>7, <2>11, <3>1, <3>2, <3>3, <3>4, <3>5
  <2> HIDE DEF t
  <2>12. t \in Sorting(S, R) BY <2>10, <2>11 DEF Sorting
  <2> QED BY <2>12
<1> HIDE DEF Sortable
<1>3. Nat \subseteq Sortable BY <1>1, <1>2, SetInduction
<1>4. Cardinality(U) \in Sortable BY <1>3, FS_CardinalityType
<1> QED BY <1>4 DEF Sortable

\* A sorting lists every element, and as a sequence.
LEMMA SortingLists ==
    ASSUME NEW S, NEW R, StrictOrder(R, S), IsFiniteSet(S), NEW s \in Sorting(S, R)
    PROVE  /\ s \in Seq(S) /\ DOMAIN s = 1..Cardinality(S) /\ ToSet(s) = S
           /\ \A i, j \in DOMAIN s : i < j => <<s[i], s[j]>> \in R /\ s[i] # s[j]
<1> DEFINE n == Cardinality(S)
<1>1. n \in Nat BY FS_CardinalityType
<1>2. s \in [1..n -> S] /\ \A i, j \in 1..n : i < j => <<s[i], s[j]>> \in R BY DEF Sorting
<1> HIDE DEF n
<1>3. \A i, j \in 1..n : i < j => s[i] # s[j]
  <2> TAKE i, j \in 1..n
  <2> HAVE i < j
  <2>1. <<s[i], s[j]>> \in R /\ s[i] \in S BY <1>2
  <2> QED BY <2>1 DEF StrictOrder
<1>4. s \in Injection(1..n, S)
  <2>1. \A i, j \in 1..n : s[i] = s[j] => i = j
    <3> TAKE i, j \in 1..n
    <3>1. i < j \/ j < i \/ i = j BY <1>1
    <3> QED BY <1>3, <3>1
  <2> QED BY <1>2, <2>1 DEF Injection, IsInjective
<1>5. IsFiniteSet(1..n) /\ Cardinality(1..n) = n BY <1>1, FS_Interval
<1>6. s \in Surjection(1..n, S) BY <1>4, <1>5, FS_Injection DEF n
<1>7. \A x \in S : \E i \in 1..n : s[i] = x BY <1>6 DEF Surjection
<1>8. ToSet(s) = S BY <1>2, <1>7 DEF ToSet
<1> QED BY <1>1, <1>2, <1>3, <1>8 DEF n

-----------------------------------------------------------------------------
(* One directory, and the stacks of all of them. *)

\* sortByMergeOrder lists every compose file of a directory, bases first and
\* overrides last.
LEMMA MergeOrder ==
    ASSUME NEW folder \in Folder
    PROVE  /\ ComposeFilesIn(folder) \in Seq(Names)
           /\ InMergeOrder(ComposeFilesIn(folder), folder)
<1> DEFINE S == ComposeFiles(folder)
           R == {p \in Names \X Names : MergesBefore(p[1], p[2])}
<1>1. S \subseteq Names /\ S = {n \in Names : IsCompose(folder[n])}
  BY DEF ComposeFiles, Folder
<1>2. IsFiniteSet(S) BY <1>1, DiscoveryAssumption, FS_Subset
<1>3. \A m, n \in Names : <<m, n>> \in R <=> MergesBefore(m, n) OBVIOUS
<1>4. StrictOrder(R, S)
  <2>1. \A n \in Names : Rank[n] \in 0..2 /\ Alphabet[n] \in Nat BY DiscoveryAssumption
  <2>2. \A m, n \in Names : Alphabet[m] = Alphabet[n] => m = n BY DiscoveryAssumption
  <2>3. \A m \in S : <<m, m>> \notin R BY <1>1, <1>3, <2>1 DEF MergesBefore
  <2>4. \A l, m, n \in S : <<l, m>> \in R /\ <<m, n>> \in R => <<l, n>> \in R
    BY <1>1, <1>3, <2>1 DEF MergesBefore
  <2>5. \A m, n \in S : m # n => <<m, n>> \in R \/ <<n, m>> \in R
    BY <1>1, <1>3, <2>1, <2>2 DEF MergesBefore
  <2> HIDE DEF R, S
  <2> QED BY <2>3, <2>4, <2>5 DEF StrictOrder
<1>5. ComposeFilesIn(folder) \in Sorting(S, R)
  <2>1. \A s \in [1..Cardinality(S) -> S] :
          s \in Sorting(S, R) <=>
            \A i, j \in 1..Cardinality(S) : i < j => MergesBefore(s[i], s[j])
    BY <1>1, <1>3 DEF Sorting
  <2>2. \E s \in [1..Cardinality(S) -> S] :
          \A i, j \in 1..Cardinality(S) : i < j => MergesBefore(s[i], s[j])
    <3>1. PICK s \in Sorting(S, R) : TRUE BY <1>2, <1>4, SortExists
    <3>2. s \in [1..Cardinality(S) -> S] BY DEF Sorting
    <3> QED BY <2>1, <3>2
  <2>3. ComposeFilesIn(folder) = CHOOSE s \in [1..Cardinality(S) -> S] :
          \A i, j \in 1..Cardinality(S) : i < j => MergesBefore(s[i], s[j])
    BY DEF ComposeFilesIn, SortFunc
  <2> HIDE DEF S, R
  <2> QED BY <2>1, <2>2, <2>3
<1> HIDE DEF S, R
<1> DEFINE files == ComposeFilesIn(folder)
<1>6. /\ files \in Seq(S) /\ ToSet(files) = S
      /\ \A i, j \in DOMAIN files : i < j => <<files[i], files[j]>> \in R /\ files[i] # files[j]
  BY <1>2, <1>4, <1>5, SortingLists
<1> HIDE DEF files
<1>7. files \in Seq(Names) BY <1>1, <1>6
<1>8. \A m, n \in Names : MergesBefore(m, n) => Rank[m] <= Rank[n]
  BY DiscoveryAssumption DEF MergesBefore
<1>9. InMergeOrder(files, folder)
  <2>1. ASSUME NEW i \in DOMAIN files, NEW j \in DOMAIN files, i < j
        PROVE  files[i] # files[j] /\ Rank[files[i]] <= Rank[files[j]]
    <3>1. files[i] \in Names /\ files[j] \in Names BY <1>7
    <3>2. files[i] # files[j] /\ <<files[i], files[j]>> \in R BY <1>6, <2>1
    <3> QED BY <1>3, <1>8, <3>1, <3>2
  <2> QED BY <1>1, <1>6, <2>1 DEF InMergeOrder
<1> QED BY <1>7, <1>9 DEF files

\* What the walk finds in a directory is a stack (composeFilesIn).
LEMMA StackType ==
    ASSUME NEW d \in ToSet(Dirs), NEW folder \in Folder
    PROVE  StackIn(d, folder) \in Stack
BY MergeOrder, DiscoveryAssumption DEF StackIn, Stack

\* The sort of discover lists the stacks by their projects.
LEMMA StackOrder ==
    ASSUME NEW found \in Seq(Stack),
           \A i, j \in DOMAIN found : i # j => found[i].project # found[j].project
    PROVE  LET s == SortFunc(ToSet(found), LAMBDA x, y : x.project < y.project)
           IN  /\ ToSet(s) = ToSet(found)
               /\ \A i, j \in DOMAIN s : i < j => s[i].project < s[j].project
<1> DEFINE S == ToSet(found)
           R == {p \in Stack \X Stack : p[1].project < p[2].project}
           sorted == SortFunc(ToSet(found), LAMBDA x, y : x.project < y.project)
<1>1. S \subseteq Stack /\ \A x \in S : \E i \in DOMAIN found : x = found[i] BY DEF ToSet
<1>2. IsFiniteSet(S)
  <2>1. DOMAIN found = 1..Len(found) /\ Len(found) \in Nat OBVIOUS
  <2>2. found \in Surjection(1..Len(found), S) BY <2>1 DEF Surjection, ToSet
  <2> QED BY <2>1, <2>2, FS_Interval, FS_Surjection
<1>3. \A x, y \in Stack : <<x, y>> \in R <=> x.project < y.project OBVIOUS
<1>4. StrictOrder(R, S)
  <2>1. \A x \in Stack : x.project \in Nat BY DEF Stack
  <2>2. \A x, y \in S : x # y => x.project # y.project BY <1>1
  <2>3. \A x \in S : <<x, x>> \notin R BY <1>1, <1>3, <2>1
  <2>4. \A x, y, z \in S : <<x, y>> \in R /\ <<y, z>> \in R => <<x, z>> \in R
    BY <1>1, <1>3, <2>1
  <2>5. \A x, y \in S : x # y => <<x, y>> \in R \/ <<y, x>> \in R
    BY <1>1, <1>3, <2>1, <2>2
  <2> HIDE DEF R, S
  <2> QED BY <2>3, <2>4, <2>5 DEF StrictOrder
<1>5. sorted \in Sorting(S, R)
  <2>1. \A s \in [1..Cardinality(S) -> S] :
          s \in Sorting(S, R) <=>
            \A i, j \in 1..Cardinality(S) : i < j => s[i].project < s[j].project
    BY <1>1, <1>3 DEF Sorting
  <2>2. \E s \in [1..Cardinality(S) -> S] :
          \A i, j \in 1..Cardinality(S) : i < j => s[i].project < s[j].project
    <3>1. PICK s \in Sorting(S, R) : TRUE BY <1>2, <1>4, SortExists
    <3>2. s \in [1..Cardinality(S) -> S] BY DEF Sorting
    <3> QED BY <2>1, <3>2
  <2>3. sorted = CHOOSE s \in [1..Cardinality(S) -> S] :
          \A i, j \in 1..Cardinality(S) : i < j => s[i].project < s[j].project
    BY DEF SortFunc
  <2> HIDE DEF S, R, sorted
  <2> QED BY <2>1, <2>2, <2>3
<1> HIDE DEF S, R, sorted
<1>6. /\ sorted \in Seq(S) /\ ToSet(sorted) = S
      /\ \A i, j \in DOMAIN sorted : i < j => <<sorted[i], sorted[j]>> \in R
  BY <1>2, <1>4, <1>5, SortingLists
<1>7. \A i \in DOMAIN sorted : sorted[i] \in Stack BY <1>1, <1>6
<1>8. \A i, j \in DOMAIN sorted : i < j => sorted[i].project < sorted[j].project
  BY <1>3, <1>6, <1>7
<1> QED BY <1>6, <1>8 DEF S, sorted

-----------------------------------------------------------------------------
(* Discovery: what a call in progress has seen of tree t. *)

\* The fingerprint so far is that of the first k directories ...
Printed(t, k, print) ==
    /\ Len(print) = k
    /\ \A i \in 1..k : print[i] = HashFolder(t[Dirs[i]])

\* ... and the walk has found the stacks of the first k directories.
Walked(t, k, found) ==
    /\ \A i \in 1..k : ~HasInvalid(t[Dirs[i]])
    /\ \A j \in DOMAIN found :
         \E i \in 1..k : HasWorkloads(t[Dirs[i]]) /\ found[j] = StackIn(Dirs[i], t[Dirs[i]])
    /\ \A i \in 1..k : HasWorkloads(t[Dirs[i]]) =>
         \E j \in DOMAIN found : found[j] = StackIn(Dirs[i], t[Dirs[i]])
    /\ \A i, j \in DOMAIN found : found[i].dir = found[j].dir => i = j

Follows(c, t) ==
    /\ c.at = "print" => /\ c.read < Len(Dirs) /\ c.hashed /\ c.found = <<>>
                         /\ Printed(t, c.read, c.print)
    /\ c.at = "lookup" => c.read = 0 /\ c.hashed /\ c.found = <<>>
    /\ c.at = "walk" => c.read < Len(Dirs) /\ Walked(t, c.read, c.found)
    /\ c.at = "finish" => Walked(t, Len(Dirs), c.found)
    /\ c.at \in {"lookup", "walk", "finish"} /\ c.hashed => Printed(t, Len(Dirs), c.print)

\* What is kept under a fingerprint describes the trees that have it.
CacheInv ==
    cache # Nothing =>
        \E t \in Tree : /\ Printed(t, Len(Dirs), cache.print)
                        /\ Describes([err |-> "", stacks |-> cache.stacks], t)

DiscoverInv ==
    /\ call[Runner].at # "idle" => tree = goal
    /\ Follows(call[Runner], goal)
    /\ CacheInv
    /\ DiscoverIsCurrent

\* compose_dir is there, and the directories are its list's entries.
LEMMA DirsType ==
    /\ Len(Dirs) \in Nat \ {0} /\ DOMAIN Dirs = 1..Len(Dirs)
    /\ \A i \in 1..Len(Dirs) : Dirs[i] \in ToSet(Dirs)
    /\ \A d \in ToSet(Dirs) : \E i \in 1..Len(Dirs) : d = Dirs[i]
    /\ \A i, j \in 1..Len(Dirs) : Dirs[i] = Dirs[j] => i = j
    /\ \A t \in Tree : \A i \in 1..Len(Dirs) : t[Dirs[i]] \in Folder
<1>1. Len(Dirs) \in Nat \ {0} /\ DOMAIN Dirs = 1..Len(Dirs) BY DiscoveryAssumption
<1>2. \A i \in 1..Len(Dirs) : Dirs[i] \in ToSet(Dirs) BY <1>1 DEF ToSet
<1>3. \A d \in ToSet(Dirs) : \E i \in 1..Len(Dirs) : d = Dirs[i] BY <1>1 DEF ToSet
<1>4. \A i, j \in 1..Len(Dirs) : Dirs[i] = Dirs[j] => i = j BY <1>1, DiscoveryAssumption
<1>5. \A t \in Tree : \A i \in 1..Len(Dirs) : t[Dirs[i]] \in Folder BY <1>2 DEF Tree
<1> QED BY <1>1, <1>2, <1>3, <1>4, <1>5

\* A directory's hash tells what is in it.
LEMMA HashInjective ==
    ASSUME NEW f \in Folder, NEW g \in Folder, HashFolder(f) = HashFolder(g) PROVE f = g
<1>1. ASSUME NEW n \in Names PROVE f[n] = g[n]
  <2>1. f[n] # Absent => <<n, f[n]>> \in HashFolder(f) BY DEF HashFolder, Folder
  <2>2. g[n] # Absent => <<n, g[n]>> \in HashFolder(g) BY DEF HashFolder, Folder
  <2>3. \A m, x : <<m, x>> \in HashFolder(f) => x = f[m] /\ f[m] # Absent BY DEF HashFolder
  <2>4. \A m, x : <<m, x>> \in HashFolder(g) => x = g[m] /\ g[m] # Absent BY DEF HashFolder
  <2> QED BY <2>1, <2>2, <2>3, <2>4
<1> QED BY <1>1 DEF Folder

\* Two trees with one fingerprint are one tree.
LEMMA FingerprintTells ==
    ASSUME NEW t \in Tree, NEW u \in Tree, NEW print,
           Printed(t, Len(Dirs), print), Printed(u, Len(Dirs), print)
    PROVE  t = u
<1>1. ASSUME NEW d \in ToSet(Dirs) PROVE t[d] = u[d]
  <2>1. PICK i \in 1..Len(Dirs) : d = Dirs[i] BY DirsType
  <2>2. HashFolder(t[Dirs[i]]) = HashFolder(u[Dirs[i]]) BY DEF Printed
  <2> QED BY <2>1, <2>2, DirsType, HashInjective
<1> QED BY <1>1 DEF Tree

\* The fields of an answer.
LEMMA AnswerFields ==
    \A e, l : LET a == [err |-> e, stacks |-> l] IN a.err = e /\ a.stacks = l
OBVIOUS

\* What a failed call says.
LEMMA FailedErr == \A why : Failed(why).err = why
BY DEF Failed

\* When the walk is through, discover's answer describes the tree.
LEMMA WalkDescribes ==
    ASSUME NEW t \in Tree, NEW found \in Seq(Stack), Walked(t, Len(Dirs), found)
    PROVE  Describes(Discovered(found), t)
<1>1. \A d \in ToSet(Dirs) : ~HasInvalid(t[d]) BY DirsType DEF Walked
<1>2. \A j \in DOMAIN found : /\ found[j].dir \in WorkloadDirs(t)
                              /\ found[j] = StackIn(found[j].dir, t[found[j].dir])
  <2> TAKE j \in DOMAIN found
  <2>1. PICK i \in 1..Len(Dirs) : /\ HasWorkloads(t[Dirs[i]])
                                  /\ found[j] = StackIn(Dirs[i], t[Dirs[i]])
    BY DEF Walked
  <2>2. found[j].dir = Dirs[i] BY <2>1 DEF StackIn
  <2> QED BY <2>1, <2>2, DirsType DEF WorkloadDirs
<1>3. \A d \in WorkloadDirs(t) : \E j \in DOMAIN found : found[j] = StackIn(d, t[d])
  <2> TAKE d \in WorkloadDirs(t)
  <2>1. d \in ToSet(Dirs) /\ HasWorkloads(t[d]) BY DEF WorkloadDirs
  <2>2. PICK i \in 1..Len(Dirs) : d = Dirs[i] BY <2>1, DirsType
  <2> QED BY <2>1, <2>2 DEF Walked
<1>4. \A j \in DOMAIN found : found[j].project = Project[found[j].dir] BY <1>2 DEF StackIn
<1>5. \A d \in WorkloadDirs(t) : \E j \in DOMAIN found : found[j].dir = d /\ found[j].project = Project[d]
  BY <1>3 DEF StackIn
<1>6. CASE WorkloadDirs(t) = {}
  <2>1. DOMAIN found = {} BY <1>2, <1>6
  <2>2. found = <<>> BY <2>1
  <2>3. Discovered(found) = Failed("no stacks") BY <2>2 DEF Discovered
  <2>4. Discovered(found).err = "no stacks" BY <2>3, FailedErr
  <2> QED BY <1>1, <1>6, <2>4 DEF Describes
<1>7. CASE WorkloadDirs(t) # {}
  <2>1. found # <<>> BY <1>5, <1>7
  <2>2. (\E i, j \in DOMAIN found : i # j /\ found[i].project = found[j].project)
          <=> \E d, e \in WorkloadDirs(t) : d # e /\ Project[d] = Project[e]
    <3>1. ASSUME NEW i \in DOMAIN found, NEW j \in DOMAIN found, i # j,
                 found[i].project = found[j].project
          PROVE  \E d, e \in WorkloadDirs(t) : d # e /\ Project[d] = Project[e]
      <4>1. found[i].dir # found[j].dir BY <3>1 DEF Walked
      <4> QED BY <1>2, <1>4, <3>1, <4>1
    <3>2. ASSUME NEW d \in WorkloadDirs(t), NEW e \in WorkloadDirs(t), d # e,
                 Project[d] = Project[e]
          PROVE  \E i, j \in DOMAIN found : i # j /\ found[i].project = found[j].project
      BY <1>5, <3>2
    <3> QED BY <3>1, <3>2
  <2>3. CASE \E i, j \in DOMAIN found : i # j /\ found[i].project = found[j].project
    <3>1. Discovered(found) = Failed("same project") BY <2>1, <2>3 DEF Discovered
    <3>2. Discovered(found).err = "same project" BY <3>1, FailedErr
    <3> QED BY <1>1, <1>7, <2>2, <2>3, <3>2 DEF Describes
  <2>4. CASE \A i, j \in DOMAIN found : i # j => found[i].project # found[j].project
    <3> DEFINE sorted == SortFunc(ToSet(found), LAMBDA x, y : x.project < y.project)
    <3>1. /\ ToSet(sorted) = ToSet(found)
          /\ \A i, j \in DOMAIN sorted : i < j => sorted[i].project < sorted[j].project
      BY <2>4, StackOrder
    <3>2. Discovered(found) = [err |-> "", stacks |-> sorted] BY <2>1, <2>4 DEF Discovered
    <3> HIDE DEF sorted
    <3>3. \A i \in DOMAIN sorted : \E j \in DOMAIN found : sorted[i] = found[j]
      BY <3>1 DEF ToSet
    <3>4. \A j \in DOMAIN found : \E i \in DOMAIN sorted : sorted[i] = found[j]
      BY <3>1 DEF ToSet
    <3>5. {sorted[i].dir : i \in DOMAIN sorted} = WorkloadDirs(t)
      <4>1. \A i \in DOMAIN sorted : sorted[i].dir \in WorkloadDirs(t) BY <1>2, <3>3
      <4>2. \A d \in WorkloadDirs(t) : \E i \in DOMAIN sorted : sorted[i].dir = d
        BY <1>5, <3>4
      <4> QED BY <4>1, <4>2
    <3>6. \A i \in DOMAIN sorted : InMergeOrder(sorted[i].files, t[sorted[i].dir])
      <4> TAKE i \in DOMAIN sorted
      <4>1. PICK j \in DOMAIN found : sorted[i] = found[j] BY <3>3
      <4>2. found[j].dir \in ToSet(Dirs) /\ found[j].files = ComposeFilesIn(t[found[j].dir])
        BY <1>2 DEF StackIn, WorkloadDirs
      <4>3. t[found[j].dir] \in Folder BY <4>2 DEF Tree
      <4> QED BY <4>1, <4>2, <4>3, MergeOrder
    <3>7. Discovered(found).err = "" /\ Discovered(found).stacks = sorted
      BY <3>2, AnswerFields
    <3>8. ~\E d, e \in WorkloadDirs(t) : d # e /\ Project[d] = Project[e] BY <2>2, <2>4
    <3> QED BY <1>1, <1>7, <3>1, <3>5, <3>6, <3>7, <3>8 DEF Describes
  <2> QED BY <2>3, <2>4
<1> QED BY <1>6, <1>7

-----------------------------------------------------------------------------
(* Discovery: types. *)

CallRecord == [at : {"idle", "print", "lookup", "walk", "finish"},
               print : Seq(Hash), hashed : BOOLEAN,
               read : 0..Len(Dirs), found : Seq(Stack)]

\* The fields of a caller that is not in a call.
LEMMA NoCallType == NoCall \in CallRecord
BY DirsType DEF NoCall, CallRecord

\* A directory's part of the fingerprint (hashComposeFiles).
LEMMA HashType == ASSUME NEW folder \in Folder PROVE HashFolder(folder) \in Hash
BY DiscoveryAssumption DEF HashFolder, Hash, Folder

\* What a call may do with its record.
LEMMA CallSteps ==
    ASSUME TypeOK, NEW c \in Callers
    PROVE  /\ call[c] \in CallRecord
           /\ \A r : [call EXCEPT ![c] = r] \in [Callers -> CallRecord] <=> r \in CallRecord
           /\ \A r : [call EXCEPT ![c] = r][c] = r
BY DEF TypeOK, CallRecord

\* The next record of a fingerprint, a walk, ...
LEMMA FingerprintStep ==
    ASSUME TypeOK, NEW c \in Callers, Follows(call[c], tree), Fingerprint(c)
    PROVE  call' \in [Callers -> CallRecord] /\ Follows(call'[c], tree)
<1> DEFINE k == call[c].read
           p == Append(call[c].print, HashFolder(tree[NextDir(c)]))
<1>1. call[c] \in CallRecord /\ tree \in Tree BY CallSteps DEF TypeOK
<1>2. k \in Nat /\ k < Len(Dirs) /\ call[c].found = <<>> /\ call[c].hashed
      /\ Printed(tree, k, call[c].print) /\ call[c].print \in Seq(Hash)
  BY <1>1 DEF Fingerprint, Follows, CallRecord
<1>3. k + 1 \in 1..Len(Dirs) /\ tree[Dirs[k + 1]] \in Folder BY <1>1, <1>2, DirsType
<1>4. p \in Seq(Hash) /\ Len(p) = k + 1 /\ Printed(tree, k + 1, p)
  <2>1. HashFolder(tree[Dirs[k + 1]]) \in Hash BY <1>3, HashType
  <2>2. p = Append(call[c].print, HashFolder(tree[Dirs[k + 1]])) BY DEF NextDir
  <2>3. Len(call[c].print) = k /\ \A i \in 1..k : call[c].print[i] = HashFolder(tree[Dirs[i]])
    BY <1>2 DEF Printed
  <2>4. p \in Seq(Hash) /\ Len(p) = k + 1 BY <1>2, <2>1, <2>2, <2>3
  <2>5. \A i \in 1..(k + 1) : p[i] = HashFolder(tree[Dirs[i]]) BY <1>2, <2>1, <2>2, <2>3
  <2> QED BY <2>4, <2>5 DEF Printed
<1> HIDE DEF p
<1>5. CASE k + 1 = Len(Dirs)
  <2> DEFINE r == [call[c] EXCEPT !.print = p, !.read = 0, !.at = "lookup"]
  <2>1. call' = [call EXCEPT ![c] = r]
    <3>1. Len(p) = Len(Dirs) BY <1>4, <1>5
    <3>2. call' = [call EXCEPT ![c].print = p, ![c].read = 0, ![c].at = "lookup"]
      BY <3>1 DEF Fingerprint, p
    <3> QED BY <3>2 DEF TypeOK
  <2>2. r \in CallRecord
    <3>1. 0 \in 0..Len(Dirs) BY DirsType
    <3> QED BY <1>1, <1>4, <3>1 DEF CallRecord
  <2>3. Follows(r, tree) BY <1>1, <1>2, <1>4, <1>5 DEF Follows, CallRecord
  <2> HIDE DEF r
  <2> QED BY <2>1, <2>2, <2>3, CallSteps
<1>6. CASE k + 1 # Len(Dirs)
  <2> DEFINE r == [call[c] EXCEPT !.print = p, !.read = k + 1]
  <2>1. call' = [call EXCEPT ![c] = r]
    <3>1. Len(p) # Len(Dirs) BY <1>4, <1>6
    <3>2. call' = [call EXCEPT ![c].print = p, ![c].read = @ + 1]
      BY <3>1 DEF Fingerprint, p
    <3> QED BY <3>2 DEF TypeOK
  <2>2. r \in CallRecord
    <3>1. k + 1 \in 0..Len(Dirs) BY <1>3, DirsType
    <3> HIDE DEF k
    <3> QED BY <1>1, <1>4, <3>1 DEF CallRecord
  <2>3. Follows(r, tree)
    <3>0. call[c].at = "print" BY DEF Fingerprint
    <3>1. k + 1 < Len(Dirs) BY <1>3, <1>6, DirsType
    <3> QED BY <1>1, <1>2, <1>4, <3>0, <3>1 DEF Follows, CallRecord
  <2> HIDE DEF r
  <2> QED BY <2>1, <2>2, <2>3, CallSteps
<1> QED BY <1>5, <1>6

\* One more directory walked, without an invalid file (discover).
LEMMA WalkStep ==
    ASSUME TypeOK, NEW c \in Callers, Follows(call[c], tree), Walk(c), ~HasInvalid(tree[NextDir(c)])
    PROVE  call' \in [Callers -> CallRecord] /\ Follows(call'[c], tree)
<1> DEFINE k == call[c].read
           d == NextDir(c)
           found == IF HasWorkloads(tree[d]) THEN Append(call[c].found, StackIn(d, tree[d]))
                                             ELSE call[c].found
           r == [call[c] EXCEPT !.found = found, !.read = k + 1,
                                !.at = IF k + 1 = Len(Dirs) THEN "finish" ELSE "walk"]
<1>1. call[c] \in CallRecord /\ tree \in Tree BY CallSteps DEF TypeOK
<1>2. k \in Nat /\ k < Len(Dirs) /\ Walked(tree, k, call[c].found) /\ call[c].found \in Seq(Stack)
      /\ call[c].at = "walk"
  BY <1>1 DEF Walk, Follows, CallRecord
<1>3. k + 1 \in 1..Len(Dirs) /\ d = Dirs[k + 1] /\ d \in ToSet(Dirs) /\ tree[d] \in Folder
  BY <1>1, <1>2, DirsType DEF NextDir
<1>4. StackIn(d, tree[d]) \in Stack /\ StackIn(d, tree[d]).dir = d BY <1>3, StackType DEF StackIn
<1>5. call' = [call EXCEPT ![c] = r]
  <2>1. call' = [call EXCEPT
                   ![c].found = IF HasWorkloads(tree[d]) THEN Append(@, StackIn(d, tree[d])) ELSE @,
                   ![c].read = @ + 1,
                   ![c].at = IF call[c].read + 1 = Len(Dirs) THEN "finish" ELSE "walk"]
    BY DEF Walk
  <2> QED BY <2>1 DEF TypeOK
<1>6. found \in Seq(Stack) BY <1>2, <1>4
<1>7. Walked(tree, k + 1, found)
  <2>1. \A i \in 1..(k + 1) : i \in 1..k \/ i = k + 1 BY <1>2
  <2>2. \A i \in 1..(k + 1) : ~HasInvalid(tree[Dirs[i]]) BY <1>2, <1>3, <2>1 DEF Walked
  <2>3. \A j \in DOMAIN call[c].found :
          \E i \in 1..k : /\ HasWorkloads(tree[Dirs[i]])
                          /\ call[c].found[j] = StackIn(Dirs[i], tree[Dirs[i]])
    BY <1>2 DEF Walked
  <2>4. \A j \in DOMAIN call[c].found : call[c].found[j].dir # d
    <3> TAKE j \in DOMAIN call[c].found
    <3>1. PICK i \in 1..k : call[c].found[j] = StackIn(Dirs[i], tree[Dirs[i]]) BY <2>3
    <3>2. call[c].found[j].dir = Dirs[i] /\ i \in 1..Len(Dirs) /\ i # k + 1
      BY <1>2, <3>1 DEF StackIn
    <3> QED BY <1>3, <3>2, DirsType
  <2>5. CASE ~HasWorkloads(tree[d])
    <3>1. found = call[c].found BY <2>5
    <3>2. \A i \in 1..k : i \in 1..(k + 1) BY <1>2
    <3> HIDE DEF found, k
    <3>3. \A j \in DOMAIN found : \E i \in 1..(k + 1) :
            HasWorkloads(tree[Dirs[i]]) /\ found[j] = StackIn(Dirs[i], tree[Dirs[i]])
      BY <2>3, <3>1, <3>2
    <3>4. \A i \in 1..(k + 1) : HasWorkloads(tree[Dirs[i]]) =>
            \E j \in DOMAIN found : found[j] = StackIn(Dirs[i], tree[Dirs[i]])
      <4> TAKE i \in 1..(k + 1)
      <4>1. CASE i \in 1..k BY <1>2, <3>1, <4>1 DEF Walked
      <4>2. CASE i = k + 1 BY <1>3, <2>5, <4>2
      <4> QED BY <2>1, <4>1, <4>2
    <3>5. \A i, j \in DOMAIN found : found[i].dir = found[j].dir => i = j
      BY <1>2, <3>1 DEF Walked
    <3> QED BY <2>2, <3>3, <3>4, <3>5 DEF Walked
  <2>6. CASE HasWorkloads(tree[d])
    <3> DEFINE n == Len(call[c].found)
    <3>1. found = Append(call[c].found, StackIn(d, tree[d])) BY <2>6
    <3>2. n \in Nat /\ DOMAIN found = 1..(n + 1) /\ DOMAIN call[c].found = 1..n
          /\ found[n + 1] = StackIn(d, tree[d])
          /\ \A j \in 1..n : found[j] = call[c].found[j]
      BY <1>2, <1>4, <3>1
    <3> HIDE DEF found, n
    <3>3. \A j \in DOMAIN found : \E i \in 1..(k + 1) :
            HasWorkloads(tree[Dirs[i]]) /\ found[j] = StackIn(Dirs[i], tree[Dirs[i]])
      <4> TAKE j \in DOMAIN found
      <4>1. CASE j \in 1..n BY <1>2, <2>3, <3>2, <4>1
      <4>2. CASE j = n + 1 BY <1>2, <1>3, <2>6, <3>2, <4>2
      <4> QED BY <3>2, <4>1, <4>2
    <3>4. \A i \in 1..(k + 1) : HasWorkloads(tree[Dirs[i]]) =>
            \E j \in DOMAIN found : found[j] = StackIn(Dirs[i], tree[Dirs[i]])
      <4> TAKE i \in 1..(k + 1)
      <4>1. CASE i \in 1..k
        <5>1. HasWorkloads(tree[Dirs[i]]) =>
                \E j \in 1..n : call[c].found[j] = StackIn(Dirs[i], tree[Dirs[i]])
          BY <1>2, <3>2, <4>1 DEF Walked
        <5> QED BY <3>2, <5>1
      <4>2. CASE i = k + 1 BY <1>3, <3>2, <4>2
      <4> QED BY <2>1, <4>1, <4>2
    <3>5. \A i, j \in DOMAIN found : found[i].dir = found[j].dir => i = j
      <4> TAKE i, j \in DOMAIN found
      <4>1. CASE i \in 1..n /\ j \in 1..n BY <1>2, <3>2, <4>1 DEF Walked
      <4>2. CASE i = n + 1 /\ j \in 1..n BY <1>4, <2>4, <3>2, <4>2
      <4>3. CASE i \in 1..n /\ j = n + 1 BY <1>4, <2>4, <3>2, <4>3
      <4> QED BY <3>2, <4>1, <4>2, <4>3
    <3> QED BY <2>2, <3>3, <3>4, <3>5 DEF Walked
  <2> QED BY <2>5, <2>6
<1> HIDE DEF found
<1>8. r \in CallRecord
  <2>1. k + 1 \in 0..Len(Dirs) BY <1>3, DirsType
  <2> HIDE DEF k
  <2> QED BY <1>1, <1>6, <2>1 DEF CallRecord
<1>9. Follows(r, tree)
  <2>1. call[c].hashed => Printed(tree, Len(Dirs), call[c].print) BY <1>2 DEF Follows
  <2>2. /\ r.found = found /\ r.read = k + 1 /\ r.print = call[c].print /\ r.hashed = call[c].hashed
        /\ r.at = IF k + 1 = Len(Dirs) THEN "finish" ELSE "walk"
    BY <1>1 DEF CallRecord
  <2> HIDE DEF r
  <2>3. CASE k + 1 = Len(Dirs) BY <1>7, <2>1, <2>2, <2>3 DEF Follows
  <2>4. CASE k + 1 # Len(Dirs)
    <3>1. k + 1 < Len(Dirs) BY <1>3, <2>4, DirsType
    <3> QED BY <1>7, <2>1, <2>2, <2>4, <3>1 DEF Follows
  <2> QED BY <2>3, <2>4
<1> HIDE DEF r
<1> QED BY <1>5, <1>8, <1>9, CallSteps

-----------------------------------------------------------------------------
(* Discovery: the steps. *)

\* The only caller is the run, as when the record names its stacks.
Alone == Callers = {Runner}

\* What the invariant says of the run's call.
LEMMA RunnerFacts ==
    ASSUME TypeOK, DiscoverInv
    PROVE  /\ Runner \in Callers /\ Runner \in DOMAIN answer
           /\ call \in [Callers -> CallRecord] /\ call[Runner] \in CallRecord
           /\ tree \in Tree /\ goal \in Tree
           /\ call[Runner].at # "idle" => tree = goal /\ Follows(call[Runner], tree)
BY DiscoveryAssumption DEF TypeOK, DiscoverInv, CallRecord

\* The fields of a call that is not under way say nothing.
LEMMA IdleFollows == ASSUME NEW c, c.at = "idle", NEW t PROVE Follows(c, t)
BY DEF Follows

\* A step that hands the run an answer that describes its checkout, or none.
LEMMA AnswerStep ==
    ASSUME TypeOK, DiscoverInv, NEW a, answer' = [answer EXCEPT ![Runner] = a],
           a = Nothing \/ a.err = "read" \/ Describes(a, goal')
    PROVE  DiscoverIsCurrent' /\ DOMAIN answer' = Callers
<1>1. answer'[Runner] = a BY RunnerFacts
<1>2. DOMAIN answer' = Callers BY DEF TypeOK
<1> QED BY <1>1, <1>2 DEF DiscoverIsCurrent

\* A step of a call that goes on.
LEMMA CallGoesOn ==
    ASSUME TypeOK, DiscoverInv, call[Runner].at # "idle",
           UNCHANGED <<active, tree, goal, answer, cache>>, failures' \in 0..MaxFailures,
           call' \in [Callers -> CallRecord], Follows(call'[Runner], tree)
    PROVE  TypeOK' /\ DiscoverInv'
<1>1. TypeOK' BY DEF TypeOK, CallRecord
<1>2. tree = goal BY RunnerFacts
<1>3. CacheInv' BY DEF DiscoverInv, CacheInv
<1>4. DiscoverIsCurrent' BY DEF DiscoverInv, DiscoverIsCurrent
<1> QED BY <1>1, <1>2, <1>3, <1>4 DEF DiscoverInv

\* A call that returns.
LEMMA CallReturns ==
    ASSUME TypeOK, DiscoverInv, call[Runner].at # "idle", NEW a, Return(Runner, a),
           UNCHANGED <<active, tree, goal>>, failures' \in 0..MaxFailures,
           a.err = "read" \/ Describes(a, goal), CacheInv',
           cache' # Nothing => cache'.print \in Seq(Hash) /\ Len(cache'.print) = Len(Dirs)
    PROVE  TypeOK' /\ DiscoverInv'
<1>1. call' = [call EXCEPT ![Runner] = NoCall] /\ answer' = [answer EXCEPT ![Runner] = a]
  BY DEF Return
<1>2. call' \in [Callers -> CallRecord] /\ call'[Runner] = NoCall BY <1>1, RunnerFacts, NoCallType
<1>3. NoCall.at = "idle" BY DEF NoCall
<1>4. DiscoverIsCurrent' /\ DOMAIN answer' = Callers BY <1>1, AnswerStep
<1>5. TypeOK' BY <1>2, <1>4 DEF TypeOK, CallRecord
<1>6. Follows(call'[Runner], goal') BY <1>2, <1>3, IdleFollows
<1> QED BY <1>2, <1>3, <1>4, <1>5, <1>6 DEF DiscoverInv

\* Every step keeps the invariant.
LEMMA DiscoverStep ==
    ASSUME Alone, TypeOK, DiscoverInv, [Next]_vars PROVE TypeOK' /\ DiscoverInv'
<1>a. cache' = cache => CacheInv' BY DEF DiscoverInv, CacheInv
<1>b. cache' = cache =>
        (cache' # Nothing => cache'.print \in Seq(Hash) /\ Len(cache'.print) = Len(Dirs))
  BY DEF TypeOK
<1>c. failures \in 0..MaxFailures /\ (CanFail => failures' \in 0..MaxFailures)
  BY DiscoveryAssumption DEF TypeOK, CanFail
<1>1. CASE BeginRun \/ UNCHANGED vars
  <2>1. UNCHANGED <<tree, goal, call, answer, cache, failures>> /\ active' \in BOOLEAN
    BY <1>1 DEF BeginRun, vars, TypeOK
  <2>2. TypeOK' BY <2>1 DEF TypeOK
  <2> QED BY <1>a, <2>1, <2>2 DEF DiscoverInv, DiscoverIsCurrent
<1>2. CASE EndRun
  <2>1. /\ UNCHANGED <<tree, goal, call, cache, failures>> /\ active' \in BOOLEAN
        /\ answer' = [answer EXCEPT ![Runner] = Nothing]
    BY <1>2 DEF EndRun
  <2>2. DiscoverIsCurrent' /\ DOMAIN answer' = Callers BY <2>1, AnswerStep
  <2>3. TypeOK' BY <2>1, <2>2 DEF TypeOK
  <2> QED BY <1>a, <2>1, <2>2, <2>3 DEF DiscoverInv
<1>3. ASSUME NEW t \in Trees, Checkout(t) PROVE TypeOK' /\ DiscoverInv'
  <2>1. /\ UNCHANGED <<active, tree, call, cache, failures>> /\ goal' = t
        /\ answer' = [answer EXCEPT ![Runner] = Nothing] /\ call[Runner].at = "idle"
    BY <1>3 DEF Checkout
  <2>2. DiscoverIsCurrent' /\ DOMAIN answer' = Callers BY <2>1, AnswerStep
  <2>3. TypeOK' BY <2>1, <2>2 DEF TypeOK
  <2>4. Follows(call'[Runner], goal') BY <2>1, IdleFollows
  <2> QED BY <1>a, <2>1, <2>2, <2>3, <2>4 DEF DiscoverInv
<1>4. ASSUME NEW d \in ToSet(Dirs), WriteFolder(d) PROVE TypeOK' /\ DiscoverInv'
  <2>1. /\ UNCHANGED <<active, goal, call, answer, cache, failures>>
        /\ tree' = [tree EXCEPT ![d] = goal[d]] /\ tree # goal
    BY <1>4 DEF WriteFolder
  <2>2. tree' \in Tree BY <2>1, RunnerFacts DEF Tree
  <2>3. call[Runner].at = "idle" BY <2>1, RunnerFacts
  <2>4. TypeOK' BY <2>1, <2>2 DEF TypeOK
  <2> QED BY <1>a, <2>1, <2>3, <2>4 DEF DiscoverInv, DiscoverIsCurrent
<1>5. CASE Ask(Runner)
  <2> DEFINE r == [NoCall EXCEPT !.at = "print"]
  <2>1. /\ UNCHANGED <<active, tree, goal, cache, failures>> /\ tree = goal
        /\ call' = [call EXCEPT ![Runner] = r]
        /\ answer' = [answer EXCEPT ![Runner] = Nothing]
    BY <1>5 DEF Ask
  <2>2. DiscoverIsCurrent' /\ DOMAIN answer' = Callers BY <2>1, AnswerStep
  <2>3. r \in CallRecord BY NoCallType DEF CallRecord
  <2>4. Follows(r, goal)
    <3>1. /\ r.at = "print" /\ r.read = 0 /\ r.found = <<>> /\ r.hashed /\ r.print = <<>>
      BY DEF NoCall
    <3>2. Printed(goal, 0, <<>>) BY DEF Printed
    <3> HIDE DEF r
    <3> QED BY <3>1, <3>2, DirsType DEF Follows
  <2> HIDE DEF r
  <2>5. call' \in [Callers -> CallRecord] /\ call'[Runner] = r BY <2>1, <2>3, RunnerFacts
  <2>6. TypeOK' BY <2>1, <2>2, <2>5 DEF TypeOK, CallRecord
  <2> QED BY <1>a, <2>1, <2>2, <2>4, <2>5, <2>6 DEF DiscoverInv
<1>6. CASE Fingerprint(Runner)
  <2>1. /\ UNCHANGED <<active, tree, goal, answer, cache, failures>> /\ call[Runner].at # "idle"
    BY <1>6 DEF Fingerprint
  <2>2. call' \in [Callers -> CallRecord] /\ Follows(call'[Runner], tree)
    BY <1>6, <2>1, RunnerFacts, FingerprintStep
  <2> QED BY <1>c, <2>1, <2>2, CallGoesOn
<1>7. CASE FingerprintFails(Runner)
  <2> DEFINE r == [call[Runner] EXCEPT !.hashed = FALSE, !.read = 0, !.at = "walk"]
  <2>1. /\ UNCHANGED <<active, tree, goal, answer, cache>> /\ CanFail /\ call[Runner].at = "print"
        /\ call' = [call EXCEPT ![Runner].hashed = FALSE, ![Runner].read = 0, ![Runner].at = "walk"]
    BY <1>7 DEF FingerprintFails
  <2>2. call' = [call EXCEPT ![Runner] = r] BY <2>1, RunnerFacts
  <2>3. r \in CallRecord
    <3>1. 0 \in 0..Len(Dirs) BY DirsType
    <3> QED BY <3>1, RunnerFacts DEF CallRecord
  <2>4. Follows(r, tree)
    <3>1. call[Runner].found = <<>> BY <2>1, RunnerFacts DEF Follows
    <3>2. r.at = "walk" /\ r.read = 0 /\ r.found = <<>> /\ ~r.hashed
      BY <3>1, RunnerFacts DEF CallRecord
    <3>3. Walked(tree, 0, <<>>) BY DEF Walked
    <3> HIDE DEF r
    <3> QED BY <3>2, <3>3, DirsType DEF Follows
  <2> HIDE DEF r
  <2>5. call' \in [Callers -> CallRecord] /\ call'[Runner] = r BY <2>2, <2>3, RunnerFacts
  <2> QED BY <1>c, <2>1, <2>4, <2>5, CallGoesOn
<1>8. CASE Lookup(Runner)
  <2>1. /\ UNCHANGED <<active, tree, goal, cache, failures>> /\ call[Runner].at = "lookup"
    BY <1>8 DEF Lookup
  <2>2. tree = goal /\ Follows(call[Runner], tree) BY <2>1, RunnerFacts
  <2>3. CASE Hit(Runner)
    <3> DEFINE a == [err |-> "", stacks |-> cache.stacks]
    <3>1. Return(Runner, a) /\ cache # Nothing /\ cache.print = call[Runner].print
      BY <1>8, <2>3 DEF Lookup, Hit
    <3>2. PICK t \in Tree : Printed(t, Len(Dirs), cache.print) /\ Describes(a, t)
      BY <3>1 DEF DiscoverInv, CacheInv
    <3>3. Printed(goal, Len(Dirs), call[Runner].print) BY <2>1, <2>2 DEF Follows
    <3>4. Describes(a, goal)
      BY <3>1, <3>2, <3>3, RunnerFacts, FingerprintTells
    <3> HIDE DEF a
    <3> QED BY <1>a, <1>b, <1>c, <2>1, <3>1, <3>4, CallReturns
  <2>4. CASE ~Hit(Runner)
    <3> DEFINE r == [call[Runner] EXCEPT !.at = "walk"]
    <3>1. call' = [call EXCEPT ![Runner].at = "walk"] /\ answer' = answer
      BY <1>8, <2>4 DEF Lookup
    <3>2. call' = [call EXCEPT ![Runner] = r] BY <3>1, RunnerFacts
    <3>3. r \in CallRecord BY RunnerFacts DEF CallRecord
    <3>4. Follows(r, tree)
      <4>1. /\ call[Runner].found = <<>> /\ call[Runner].read = 0
            /\ call[Runner].hashed => Printed(tree, Len(Dirs), call[Runner].print)
        BY <2>1, <2>2 DEF Follows
      <4>2. /\ r.at = "walk" /\ r.read = 0 /\ r.found = <<>> /\ r.hashed = call[Runner].hashed
            /\ r.print = call[Runner].print
        BY <4>1, RunnerFacts DEF CallRecord
      <4>3. Walked(tree, 0, <<>>) BY DEF Walked
      <4> HIDE DEF r
      <4> QED BY <4>1, <4>2, <4>3, DirsType DEF Follows
    <3> HIDE DEF r
    <3>5. call' \in [Callers -> CallRecord] /\ call'[Runner] = r BY <3>2, <3>3, RunnerFacts
    <3> QED BY <1>c, <2>1, <3>1, <3>4, <3>5, CallGoesOn
  <2> QED BY <2>3, <2>4
<1>9. CASE Walk(Runner)
  <2>1. /\ UNCHANGED <<active, tree, goal, cache, failures>> /\ call[Runner].at = "walk"
    BY <1>9 DEF Walk
  <2>2. tree = goal /\ Follows(call[Runner], tree) BY <2>1, RunnerFacts
  <2>3. CASE HasInvalid(tree[NextDir(Runner)])
    <3>1. Return(Runner, Failed("invalid")) BY <1>9, <2>3 DEF Walk
    <3>2. NextDir(Runner) \in ToSet(Dirs)
      <4>1. call[Runner].read \in Nat /\ call[Runner].read < Len(Dirs)
        BY <2>1, <2>2, RunnerFacts DEF Follows, CallRecord
      <4> QED BY <4>1, DirsType DEF NextDir
    <3>3. Describes(Failed("invalid"), goal) BY <2>2, <2>3, <3>2, FailedErr DEF Describes
    <3> QED BY <1>a, <1>b, <1>c, <2>1, <3>1, <3>3, CallReturns
  <2>4. CASE ~HasInvalid(tree[NextDir(Runner)])
    <3>1. answer' = answer BY <1>9, <2>4 DEF Walk
    <3>2. call' \in [Callers -> CallRecord] /\ Follows(call'[Runner], tree)
      BY <1>9, <2>2, <2>4, RunnerFacts, WalkStep
    <3> QED BY <1>c, <2>1, <3>1, <3>2, CallGoesOn
  <2> QED BY <2>3, <2>4
<1>10. CASE WalkFails(Runner)
  <2>1. /\ UNCHANGED <<active, tree, goal, cache>> /\ CanFail /\ call[Runner].at = "walk"
        /\ Return(Runner, Failed("read"))
    BY <1>10 DEF WalkFails
  <2> QED BY <1>a, <1>b, <1>c, <2>1, FailedErr, CallReturns
<1>11. CASE Finish(Runner)
  <2> DEFINE a == Discovered(call[Runner].found)
  <2>1. /\ UNCHANGED <<active, tree, goal, failures>> /\ call[Runner].at = "finish"
        /\ Return(Runner, a)
        /\ cache' = IF call[Runner].hashed /\ a.err = ""
                    THEN [print |-> call[Runner].print, stacks |-> a.stacks] ELSE cache
    BY <1>11 DEF Finish
  <2>2. /\ tree = goal
        /\ Walked(goal, Len(Dirs), call[Runner].found)
        /\ call[Runner].hashed => Printed(goal, Len(Dirs), call[Runner].print)
    BY <2>1, RunnerFacts DEF Follows
  <2>3. Describes(a, goal)
    <3>1. goal \in Tree /\ call[Runner].found \in Seq(Stack) BY RunnerFacts DEF CallRecord
    <3> QED BY <2>2, <3>1, WalkDescribes
  <2> HIDE DEF a
  <2>4. CASE ~(call[Runner].hashed /\ a.err = "")
    BY <1>a, <1>b, <1>c, <2>1, <2>3, <2>4, CallReturns
  <2>5. CASE call[Runner].hashed /\ a.err = ""
    <3>1. cache'.print = call[Runner].print /\ cache'.stacks = a.stacks BY <2>1, <2>5
    <3>2. Describes([err |-> "", stacks |-> a.stacks], goal)
      <4> DEFINE b == [err |-> "", stacks |-> a.stacks]
      <4>1. b.err = a.err /\ b.stacks = a.stacks BY <2>5
      <4> HIDE DEF b
      <4>2. Describes(b, goal) BY <2>3, <4>1 DEF Describes
      <4> QED BY <4>2 DEF b
    <3>3. CacheInv' BY <2>2, <2>5, <3>1, <3>2, RunnerFacts DEF CacheInv
    <3>4. cache'.print \in Seq(Hash) /\ Len(cache'.print) = Len(Dirs)
      BY <2>2, <2>5, <3>1, RunnerFacts DEF CallRecord, Printed
    <3> QED BY <1>c, <2>1, <2>3, <3>3, <3>4, CallReturns
  <2> QED BY <2>4, <2>5
<1> QED BY <1>1, <1>2, <1>3, <1>4, <1>5, <1>6, <1>7, <1>8, <1>9, <1>10, <1>11 DEF Next, Alone

\* What Discover tells a run is what its checkout holds: for every checkout,
\* every number of directories and files, every order of runs, checkouts and
\* failed reads, and every answer kept from an earlier call. It needs the run to
\* be the only caller; a monitor that asks during a checkout can spoil what is
\* kept.
THEOREM DiscoveryCurrent == ASSUME Alone PROVE Spec => []DiscoverIsCurrent
<1>1. Init => TypeOK /\ DiscoverInv
  <2> SUFFICES ASSUME Init PROVE TypeOK /\ DiscoverInv OBVIOUS
  <2>1. /\ tree \in Tree /\ goal \in Trees /\ cache = Nothing /\ failures = 0 /\ active = FALSE
        /\ call = [c \in Callers |-> NoCall] /\ answer = [c \in Callers |-> Nothing]
    BY DiscoveryAssumption DEF Init
  <2>2. call \in [Callers -> CallRecord] BY <2>1, NoCallType
  <2>3. TypeOK
    <3>1. 0 \in 0..MaxFailures BY DiscoveryAssumption
    <3> QED BY <2>1, <2>2, <3>1 DEF TypeOK, CallRecord
  <2>4. call[Runner].at = "idle" /\ answer[Runner] = Nothing
    BY <2>1, DiscoveryAssumption DEF NoCall
  <2> QED BY <2>1, <2>3, <2>4, IdleFollows DEF DiscoverInv, CacheInv, DiscoverIsCurrent
<1>2. DiscoverInv => DiscoverIsCurrent BY DEF DiscoverInv
<1> QED BY <1>1, <1>2, DiscoverStep, PTL DEF Spec

-----------------------------------------------------------------------------
(* What is read: iteration, and the recursion of ReadIn. *)

\* g lists A, F[A], F[F[A]], ...
Iterates(g, X, A, F) ==
    g \in [Nat -> X] /\ g[0] = A /\ \A n \in Nat : g[n + 1] = F[g[n]]

\* A function on a set can be iterated.
LEMMA Iterate ==
    ASSUME NEW X, NEW A \in X, NEW F \in [X -> X]
    PROVE  \E g : Iterates(g, X, A, F)
<1> DEFINE Good(g, n) == /\ g \in [0..n -> X] /\ g[0] = A
                         /\ \A i \in 0..(n - 1) : g[i + 1] = F[g[i]]
           S == {n \in Nat : \E g : Good(g, n)}
<1>1. Nat \subseteq S
  <2>1. 0 \in S
    <3>1. Good([i \in 0..0 |-> A], 0) OBVIOUS
    <3> HIDE DEF Good
    <3> QED BY <3>1
  <2>2. ASSUME NEW n \in Nat, n \in S PROVE n + 1 \in S
    <3>1. PICK g : Good(g, n) BY <2>2
    <3> DEFINE h == [i \in 0..(n + 1) |-> IF i = n + 1 THEN F[g[n]] ELSE g[i]]
    <3>2. h \in [0..(n + 1) -> X] BY <3>1
    <3>3. h[0] = A BY <3>1
    <3>4. ASSUME NEW i \in 0..n PROVE h[i + 1] = F[h[i]]
      <4>1. CASE i = n BY <3>1, <4>1
      <4>2. CASE i \in 0..(n - 1) BY <3>1, <4>2
      <4> QED BY <4>1, <4>2
    <3> HIDE DEF h
    <3>5. Good(h, n + 1) BY <3>2, <3>3, <3>4
    <3> HIDE DEF Good
    <3> QED BY <3>5
  <2> HIDE DEF S
  <2> QED BY <2>1, <2>2, SetInduction
<1>2. ASSUME NEW n \in Nat, NEW g, NEW h, Good(g, n), Good(h, n + 1) PROVE g[n] = h[n]
  <2> DEFINE E == {i \in Nat : i <= n => g[i] = h[i]}
  <2>1. 0 \in E BY <1>2
  <2>2. ASSUME NEW i \in Nat, i \in E PROVE i + 1 \in E BY <1>2, <2>2
  <2>3. Nat \subseteq E
    <3> HIDE DEF E
    <3> QED BY <2>1, <2>2, SetInduction
  <2> QED BY <2>3
<1> DEFINE c == [n \in Nat |-> CHOOSE g : Good(g, n)]
           G == [n \in Nat |-> c[n][n]]
<1>3. ASSUME NEW n \in Nat PROVE Good(c[n], n)
  <2>1. \E g : Good(g, n) BY <1>1
  <2> HIDE DEF Good
  <2> QED BY <2>1
<1> HIDE DEF c
<1>4. G \in [Nat -> X]
  <2> SUFFICES ASSUME NEW n \in Nat PROVE c[n][n] \in X OBVIOUS
  <2>1. c[n] \in [0..n -> X] /\ n \in 0..n BY <1>3
  <2> HIDE DEF Good
  <2> QED BY <2>1
<1>5. G[0] = A BY <1>3
<1>6. ASSUME NEW n \in Nat PROVE G[n + 1] = F[G[n]]
  <2>1. Good(c[n], n) /\ Good(c[n + 1], n + 1) BY <1>3
  <2>2. c[n][n] = c[n + 1][n]
    <3> HIDE DEF Good
    <3> QED BY <1>2, <2>1
  <2>3. c[n + 1][n + 1] = F[c[n + 1][n]]
    <3>1. n \in 0..(n + 1 - 1) OBVIOUS
    <3> QED BY <2>1, <3>1
  <2>4. G[n] = c[n][n] /\ G[n + 1] = c[n + 1][n + 1] OBVIOUS
  <2> HIDE DEF Good, G
  <2> QED BY <2>2, <2>3, <2>4
<1> HIDE DEF G
<1>7. Iterates(G, X, A, F) BY <1>4, <1>5, <1>6 DEF Iterates
<1> QED BY <1>7

\* What is read, and under which directory.
Place == (Directories \X STRING) \X DirOrNone

\* A path that resolves is one in a directory (resolveInput).
LEMMA ResolveType ==
    ASSUME NEW base \in DirOrNone, NEW r \in Reference, Resolves(base, r)
    PROVE  Resolve(base, r) \in Directories \X STRING /\ r.dir # Remote
BY InputsAssumption DEF Resolves, Resolve, Reference, DirOrNone, Here, Remote, Unresolved

\* The directory of an include whose files walkInclude visits.
LEMMA IncludeDirType ==
    ASSUME NEW e \in IncludeEntry, Includes(e), NEW base \in DirOrNone
    PROVE  IncludeDir(e, base) \in DirOrNone /\ e.paths \in Seq(Reference) /\ e.env \subseteq Reference
<1>1. e.paths \in Seq(Reference) /\ e.paths # <<>> /\ e.env \subseteq Reference
  BY DEF IncludeEntry, Includes
<1>2. e.paths[1] \in Reference BY <1>1
<1>3. Resolves(base, e.paths[1]) => Resolve(base, e.paths[1])[1] \in Directories
  BY <1>2, ResolveType
<1> QED BY <1>1, <1>3 DEF IncludeDir, DirOrNone

\* The entries of a file lead to files under a directory or none.
LEMMA ChildrenType ==
    ASSUME NEW d \in Document, NEW base \in DirOrNone PROVE Children(d, base) \subseteq Place
<1>1. d.includes \in Seq(IncludeEntry) /\ d.extends \in Seq(ExtendsEntry) BY DEF Document
<1>2. ASSUME NEW e \in Followed(d) PROVE Included(e, base) \subseteq Place
  <2>1. e \in IncludeEntry /\ Includes(e) BY <1>1 DEF Followed, ToSet
  <2>2. IncludeDir(e, base) \in DirOrNone /\ e.paths \in Seq(Reference) BY <2>1, IncludeDirType
  <2>3. \A r \in ToSet(e.paths) : r \in Reference BY <2>2 DEF ToSet
  <2>4. \A r \in ToSet(e.paths) : Resolves(base, r) => Resolve(base, r) \in Directories \X STRING
    BY <2>3, ResolveType
  <2> QED BY <2>2, <2>4 DEF Place, Included
<1>3. ASSUME NEW r \in ToSet(d.extends), Extends(r, base) PROVE Extended(r, base) \in Place
  <2>1. r \in Reference /\ Resolves(base, r) BY <1>1, <1>3 DEF ToSet, ExtendsEntry, Extends
  <2>2. Resolve(base, r) \in Directories \X STRING BY <2>1, ResolveType
  <2> QED BY <2>2 DEF Place, DirOrNone, Extended
<1>4. UNION {Included(e, base) : e \in Followed(d)} \subseteq Place BY <1>2
<1>5. {Extended(r, base) : r \in {s \in ToSet(d.extends) : Extends(s, base)}} \subseteq Place BY <1>3
<1> QED BY <1>4, <1>5 DEF Children

\* So do the project's own compose files.
LEMMA RootsType == Roots \subseteq Place
<1>1. WorkingDir \in DirOrNone /\ ToSet(Start) \subseteq Reference
  BY InputsAssumption DEF DirOrNone, ToSet
<1> QED BY <1>1, ResolveType DEF Roots, Place

\* What a file holds.
LEMMA HoldsType ==
    ASSUME NEW d \in Checkouts, NEW p PROVE Holds(d, p) \in Document \cup {Unreadable}
BY InputsAssumption DEF Holds

\* And whatever is reached from there.
LEMMA ReadByType ==
    ASSUME NEW d \in Checkouts, NEW S \in SUBSET Place PROVE ReadBy(d, S) \subseteq Place
<1>1. ASSUME NEW q \in S, Holds(d, q[1]) # Unreadable
      PROVE  Children(Holds(d, q[1]), q[2]) \subseteq Place
  <2>1. q[2] \in DirOrNone BY DEF Place
  <2>2. Holds(d, q[1]) \in Document BY <1>1, HoldsType
  <2> QED BY <2>1, <2>2, ChildrenType
<1> QED BY <1>1 DEF ReadBy

\* ReadIn is what its recursion says.
LEMMA ReadChain ==
    ASSUME NEW d \in Checkouts
    PROVE  \E w \in [Nat -> SUBSET Place] :
              /\ w[0] = Roots
              /\ \A n \in Nat : w[n + 1] = w[n] \cup ReadBy(d, w[n])
              /\ ReadIn(d) = w[Longest]
<1> DEFINE F == [S \in SUBSET Place |-> S \cup ReadBy(d, S)]
           W == CHOOSE w : w = [n \in Nat |-> IF n = 0 THEN Roots ELSE w[n - 1] \cup ReadBy(d, w[n - 1])]
<1>1. F \in [SUBSET Place -> SUBSET Place] BY ReadByType
<1>2. PICK g \in [Nat -> SUBSET Place] : g[0] = Roots /\ \A n \in Nat : g[n + 1] = F[g[n]]
  <2>1. Roots \in SUBSET Place BY RootsType
  <2> HIDE DEF F
  <2>2. \E g : Iterates(g, SUBSET Place, Roots, F) BY <1>1, <2>1, Iterate
  <2> QED BY <2>2 DEF Iterates
<1>3. g = [n \in Nat |-> IF n = 0 THEN Roots ELSE g[n - 1] \cup ReadBy(d, g[n - 1])]
  <2> SUFFICES ASSUME NEW n \in Nat
               PROVE  g[n] = IF n = 0 THEN Roots ELSE g[n - 1] \cup ReadBy(d, g[n - 1])
    OBVIOUS
  <2>1. CASE n = 0 BY <1>2, <2>1
  <2>2. CASE n # 0
    <3>1. n - 1 \in Nat /\ (n - 1) + 1 = n BY <2>2
    <3>2. g[n] = F[g[n - 1]] BY <1>2, <3>1
    <3>3. F[g[n - 1]] = g[n - 1] \cup ReadBy(d, g[n - 1]) BY <3>1
    <3> QED BY <2>2, <3>2, <3>3
  <2> QED BY <2>1, <2>2
<1>4. W = [n \in Nat |-> IF n = 0 THEN Roots ELSE W[n - 1] \cup ReadBy(d, W[n - 1])] BY <1>3
<1>5. ReadIn(d) = W[Longest] BY DEF ReadIn
<1> HIDE DEF W
<1>6. W[0] = Roots BY <1>4
<1>7. ASSUME NEW n \in Nat PROVE W[n + 1] = W[n] \cup ReadBy(d, W[n])
  <2>1. n + 1 \in Nat /\ n + 1 # 0 /\ (n + 1) - 1 = n OBVIOUS
  <2>2. W[n + 1] = W[(n + 1) - 1] \cup ReadBy(d, W[(n + 1) - 1]) BY <1>4, <2>1
  <2> QED BY <2>1, <2>2
<1>8. W \in [Nat -> SUBSET Place]
  <2> DEFINE S == {n \in Nat : W[n] \in SUBSET Place}
  <2>1. 0 \in S BY <1>6, RootsType
  <2>2. ASSUME NEW n \in Nat, n \in S PROVE n + 1 \in S BY <1>7, <2>2, ReadByType
  <2>3. Nat \subseteq S
    <3> HIDE DEF S
    <3> QED BY <2>1, <2>2, SetInduction
  <2> QED BY <1>4, <2>3
<1> QED BY <1>5, <1>6, <1>7, <1>8

\* Only files that can be there lead on.
LEMMA ReadByPresent ==
    ASSUME NEW d, NEW S PROVE ReadBy(d, S) = ReadBy(d, {q \in S : q[1] \in Paths})
BY DEF ReadBy, Holds

\* At its bound the recursion has found everything: what is read is closed under
\* include and extends. As long as something new is found in a step, there are
\* more files, each under a directory, than steps; and there are no more of them
\* than the bound.
LEMMA ReadClosed ==
    ASSUME NEW d \in Checkouts
    PROVE  /\ Roots \subseteq ReadIn(d) /\ ReadIn(d) \subseteq Place
           /\ ReadBy(d, ReadIn(d)) \subseteq ReadIn(d)
<1>1. PICK w \in [Nat -> SUBSET Place] :
        /\ w[0] = Roots
        /\ \A n \in Nat : w[n + 1] = w[n] \cup ReadBy(d, w[n])
        /\ ReadIn(d) = w[Longest]
  BY ReadChain
<1> DEFINE U == Paths \X DirOrNone
           P == [n \in Nat |-> {q \in w[n] : q[1] \in Paths}]
<1>2. IsFiniteSet(U) /\ Cardinality(U) = Longest /\ Longest \in Nat
  <2>1. IsFiniteSet(DirOrNone) BY InputsAssumption, FS_AddElement DEF DirOrNone
  <2>2. IsFiniteSet(U) /\ Cardinality(U) = Longest
    BY <2>1, InputsAssumption, FS_Product DEF Longest
  <2> QED BY <2>2, FS_CardinalityType
<1>3. ASSUME NEW n \in Nat PROVE P[n] \subseteq U /\ P[n] \subseteq P[n + 1]
  BY <1>1 DEF Place
<1>4. ASSUME NEW n \in Nat PROVE w[n + 1] = w[n] \cup ReadBy(d, P[n])
  <2>1. ReadBy(d, w[n]) = ReadBy(d, P[n]) BY ReadByPresent
  <2> QED BY <1>1, <2>1
<1>5. ASSUME NEW n \in Nat, P[n] = P[n + 1] PROVE w[n + 2] = w[n + 1] /\ P[n + 1] = P[n + 2]
  <2>1. n + 1 \in Nat /\ (n + 1) + 1 = n + 2 /\ n + 2 \in Nat OBVIOUS
  <2>2. w[n + 1] = w[n] \cup ReadBy(d, P[n]) BY <1>4
  <2>3. w[n + 2] = w[n + 1] \cup ReadBy(d, P[n + 1]) BY <1>4, <2>1
  <2>4. w[n + 2] = w[n + 1] BY <1>5, <2>2, <2>3
  <2> QED BY <2>1, <2>4
<1>6. \A n \in Nat : IsFiniteSet(P[n]) /\ Cardinality(P[n]) \in Nat /\ Cardinality(P[n]) <= Longest
  BY <1>2, <1>3, FS_Subset, FS_CardinalityType
<1> DEFINE S == {n \in Nat : P[n] = P[n + 1] \/ Cardinality(P[n]) >= n + 1}
<1>7. Nat \subseteq S
  <2>1. 0 \in S
    <3>1. CASE P[0] = {}
      <4>1. ReadBy(d, P[0]) = {} BY <3>1 DEF ReadBy
      <4>2. w[0 + 1] = w[0] BY <1>4, <4>1
      <4> QED BY <4>2
    <3>2. CASE P[0] # {}
      <4>1. Cardinality(P[0]) # 0 /\ Cardinality(P[0]) \in Nat BY <1>6, <3>2, FS_EmptySet
      <4> HIDE DEF P
      <4> QED BY <4>1
    <3> QED BY <3>1, <3>2
  <2>2. ASSUME NEW n \in Nat, n \in S PROVE n + 1 \in S
    <3>1. n + 1 \in Nat /\ (n + 1) + 1 = n + 2 OBVIOUS
    <3>2. CASE P[n] = P[n + 1] BY <1>5, <3>1, <3>2
    <3>3. CASE P[n] # P[n + 1]
      <4>1. Cardinality(P[n]) >= n + 1 BY <2>2, <3>3
      <4>2. Cardinality(P[n]) <= Cardinality(P[n + 1])
            /\ Cardinality(P[n]) # Cardinality(P[n + 1])
        BY <1>3, <1>6, <3>1, <3>3, FS_Subset
      <4>3. Cardinality(P[n]) \in Nat /\ Cardinality(P[n + 1]) \in Nat BY <1>6, <3>1
      <4> HIDE DEF P
      <4>4. Cardinality(P[n + 1]) >= (n + 1) + 1 BY <4>1, <4>2, <4>3
      <4> QED BY <3>1, <4>4
    <3> QED BY <3>2, <3>3
  <2> HIDE DEF S
  <2> QED BY <2>1, <2>2, SetInduction
<1>8. w[Longest + 1] = w[Longest]
  <2>1. CASE Longest = 0
    <3>1. P[0] = {} BY <1>2, <1>3, <2>1, FS_EmptySet
    <3>2. ReadBy(d, P[0]) = {} BY <3>1 DEF ReadBy
    <3> QED BY <1>4, <2>1, <3>2
  <2>2. CASE Longest # 0
    <3> DEFINE m == Longest - 1
    <3>1. m \in Nat /\ m + 1 = Longest /\ m + 2 = Longest + 1 BY <1>2, <2>2
    <3> HIDE DEF m
    <3>2. P[m] = P[m + 1]
      <4>1. CASE Cardinality(P[m]) >= m + 1
        <5> HIDE DEF P, U
        <5>1. Cardinality(P[m]) = Cardinality(U) BY <1>2, <1>6, <3>1, <4>1
        <5>2. P[m] = U BY <1>2, <1>3, <3>1, <5>1, FS_Subset
        <5>3. P[m + 1] \subseteq U BY <1>3, <3>1
        <5> QED BY <1>3, <3>1, <5>2, <5>3
      <4> QED BY <1>7, <3>1, <4>1
    <3>3. w[m + 2] = w[m + 1] BY <1>5, <3>1, <3>2
    <3> QED BY <3>1, <3>3
  <2> QED BY <2>1, <2>2
<1>9. Roots \subseteq w[Longest]
  <2> DEFINE T == {n \in Nat : Roots \subseteq w[n]}
  <2>1. 0 \in T BY <1>1
  <2>2. ASSUME NEW n \in Nat, n \in T PROVE n + 1 \in T BY <1>1, <2>2
  <2>3. Nat \subseteq T
    <3> HIDE DEF T
    <3> QED BY <2>1, <2>2, SetInduction
  <2> QED BY <1>2, <2>3
<1> HIDE DEF P, U, S
<1> QED BY <1>1, <1>2, <1>8, <1>9

\* And nothing else is read: what holds of the compose files, and of whatever a
\* file it holds of leads to, holds of everything that is read.
LEMMA ReadLeast ==
    ASSUME NEW d \in Checkouts, NEW S, Roots \subseteq S, ReadBy(d, S \cap ReadIn(d)) \subseteq S
    PROVE  ReadIn(d) \subseteq S
<1>1. PICK w \in [Nat -> SUBSET Place] :
        /\ w[0] = Roots
        /\ \A n \in Nat : w[n + 1] = w[n] \cup ReadBy(d, w[n])
        /\ ReadIn(d) = w[Longest]
  BY ReadChain
<1> DEFINE R == S \cap ReadIn(d)
           T == {n \in Nat : w[n] \subseteq R}
<1>2. \A Q, V : Q \subseteq V => ReadBy(d, Q) \subseteq ReadBy(d, V) BY DEF ReadBy
<1>3. 0 \in T BY <1>1, ReadClosed
<1>4. ASSUME NEW n \in Nat, n \in T PROVE n + 1 \in T
  <2>1. ReadBy(d, w[n]) \subseteq ReadBy(d, R) /\ ReadBy(d, w[n]) \subseteq ReadBy(d, ReadIn(d))
    BY <1>2, <1>4
  <2>2. ReadBy(d, w[n]) \subseteq R BY <2>1, ReadClosed
  <2> QED BY <1>1, <1>4, <2>2
<1>5. Nat \subseteq T
  <2> HIDE DEF T
  <2> QED BY <1>3, <1>4, SetInduction
<1>6. Longest \in Nat
  <2>1. IsFiniteSet(DirOrNone) BY InputsAssumption, FS_AddElement DEF DirOrNone
  <2> QED BY <2>1, InputsAssumption, FS_CardinalityType DEF Longest
<1> QED BY <1>1, <1>5, <1>6

-----------------------------------------------------------------------------
(* The walk. *)

\* A call for this item, resolved against this directory, is still to be made.
Pending(what, item, base) ==
    \E t \in ToSet(todo) : t.what = what /\ t.item = item /\ t.base = base

\* A reference, an entry, a file under a directory have been dealt with, or will be.
RefDealt(r, base) ==
    \/ Pending("visit", r, base)
    \/ r.dir = Remote
    \/ Resolves(base, r) /\ Resolve(base, r) \in seen

IncludeDealt(e, base) ==
    \/ Pending("include", e, base)
    \/ /\ Includes(e) /\ EnvResolves(e, base) /\ IncludeEnv(e, base) \subseteq paths
       /\ \A r \in ToSet(e.paths) : RefDealt(r, base)

ExtendsDealt(r, base) ==
    \/ Pending("extends", r, base)
    \/ ExtendsNothing(r)
    \/ Extends(r, base) /\ RefDealt(r, base)

Explored(q) ==
    /\ Holds(doc, q[1]) # Unreadable
    /\ \A e \in ToSet(Holds(doc, q[1]).includes) : IncludeDealt(e, q[2])
    /\ \A r \in ToSet(Holds(doc, q[1]).extends) : ExtendsDealt(r, q[2])

\* A call that is to be made is one for something that is read.
HasInclude(q, t) == /\ Holds(doc, q[1]) # Unreadable /\ q[2] = t.base
                    /\ t.item \in ToSet(Holds(doc, q[1]).includes)
HasExtends(q, t) == /\ Holds(doc, q[1]) # Unreadable /\ q[2] = t.base
                    /\ t.item \in ToSet(Holds(doc, q[1]).extends)

Leads(t) ==
    /\ t.what = "visit" /\ Resolves(t.base, t.item) =>
         <<Resolve(t.base, t.item), t.contents>> \in Read
    /\ t.what = "include" => \E q \in Read : HasInclude(q, t)
    /\ t.what = "extends" => \E q \in Read : HasExtends(q, t)

\* Nothing that was met has been passed over.
Thorough ==
    /\ \A r \in ToSet(Start) : RefDealt(r, WorkingDir)
    /\ \A f \in seen : \E q \in Read : q[1] = f /\ Explored(q)

\* The inductive invariant of the walk.
InputsInv ==
    /\ \A t \in ToSet(todo) : Leads(t)
    /\ paths \subseteq ReadFiles
    /\ complete => Thorough

\* The calls, as a set.
LEMMA CallsOf ==
    ASSUME NEW S, NEW s \in Seq(S), NEW t \in Seq(S)
    PROVE  s \o t \in Seq(S) /\ ToSet(s \o t) = ToSet(s) \cup ToSet(t)
<1>1. s \o t \in Seq(S) /\ DOMAIN (s \o t) = 1..(Len(s) + Len(t)) OBVIOUS
<1>2. \A i \in DOMAIN s : i \in DOMAIN (s \o t) /\ (s \o t)[i] = s[i] OBVIOUS
<1>3. \A i \in DOMAIN t : Len(s) + i \in DOMAIN (s \o t) /\ (s \o t)[Len(s) + i] = t[i] OBVIOUS
<1>4. ASSUME NEW i \in DOMAIN (s \o t) PROVE (s \o t)[i] \in ToSet(s) \cup ToSet(t)
  <2>1. CASE i \in DOMAIN s BY <1>2, <2>1 DEF ToSet
  <2>2. CASE i \notin DOMAIN s
    <3>1. i - Len(s) \in DOMAIN t /\ Len(s) + (i - Len(s)) = i BY <1>1, <2>2
    <3>2. (s \o t)[i] = t[i - Len(s)] BY <1>3, <3>1
    <3> QED BY <3>1, <3>2 DEF ToSet
  <2> QED BY <2>1, <2>2
<1>5. ToSet(s) \subseteq ToSet(s \o t) BY <1>2 DEF ToSet
<1>6. ToSet(t) \subseteq ToSet(s \o t) BY <1>3 DEF ToSet
<1>7. ToSet(s \o t) \subseteq ToSet(s) \cup ToSet(t) BY <1>4 DEF ToSet
<1> QED BY <1>1, <1>5, <1>6, <1>7

\* The call on top and the others.
LEMMA TopCall ==
    ASSUME NEW S, NEW s \in Seq(S), s # <<>>
    PROVE  Head(s) \in S /\ Tail(s) \in Seq(S) /\ ToSet(s) = {Head(s)} \cup ToSet(Tail(s))
<1>1. Head(s) \in S /\ Tail(s) \in Seq(S) /\ Head(s) = s[1] OBVIOUS
<1>2. DOMAIN s = 1..Len(s) /\ DOMAIN Tail(s) = 1..(Len(s) - 1) /\ Len(s) \in Nat \ {0} OBVIOUS
<1>3. \A i \in DOMAIN Tail(s) : i + 1 \in DOMAIN s /\ Tail(s)[i] = s[i + 1] OBVIOUS
<1>4. ASSUME NEW i \in DOMAIN s PROVE s[i] \in {Head(s)} \cup ToSet(Tail(s))
  <2>1. CASE i = 1 BY <1>1, <2>1
  <2>2. CASE i # 1
    <3>1. i - 1 \in DOMAIN Tail(s) /\ (i - 1) + 1 = i BY <1>2, <2>2
    <3>2. s[i] = Tail(s)[i - 1] BY <1>3, <3>1
    <3> QED BY <3>1, <3>2 DEF ToSet
  <2> QED BY <2>1, <2>2
<1>5. Head(s) \in ToSet(s) BY <1>1, <1>2 DEF ToSet
<1>6. ToSet(Tail(s)) \subseteq ToSet(s) BY <1>3 DEF ToSet
<1>7. ToSet(s) \subseteq {Head(s)} \cup ToSet(Tail(s)) BY <1>4 DEF ToSet
<1> QED BY <1>1, <1>5, <1>6, <1>7

\* The typed calls.
Typed(t) ==
    /\ t.what = "visit" => t.item \in Reference
    /\ t.what = "include" => t.item \in IncludeEntry
    /\ t.what = "extends" => t.item \in ExtendsEntry
    /\ t.what # "visit" => t.depth < MaxIncludeDepth

\* The type invariant, with the calls as a set.
LEMMA TypedCalls ==
    WalkTypeOK <=> /\ doc \in Checkouts /\ todo \in Seq(Task) /\ \A t \in ToSet(todo) : Typed(t)
                   /\ seen \subseteq paths /\ complete \in BOOLEAN
BY DEF WalkTypeOK, Typed, ToSet

\* A step that replaces the call on top by calls s.
LEMMA Replace ==
    ASSUME WalkTypeOK, todo # <<>>, NEW s \in Seq(Task), todo' = s \o Tail(todo),
           \A t \in ToSet(s) : Typed(t), doc' = doc, seen' \subseteq paths', complete' \in BOOLEAN
    PROVE  /\ WalkTypeOK' /\ Top \in Task /\ Top \in ToSet(todo) /\ Typed(Top)
           /\ ToSet(todo') = ToSet(s) \cup ToSet(Tail(todo))
           /\ ToSet(todo) = {Top} \cup ToSet(Tail(todo))
<1>1. todo \in Seq(Task) /\ doc \in Checkouts /\ \A t \in ToSet(todo) : Typed(t) BY TypedCalls
<1>2. Top \in Task /\ Tail(todo) \in Seq(Task) /\ ToSet(todo) = {Top} \cup ToSet(Tail(todo))
  BY <1>1, TopCall DEF Top
<1>3. todo' \in Seq(Task) /\ ToSet(todo') = ToSet(s) \cup ToSet(Tail(todo))
  <2>1. \A u \in Seq(Task) : s \o u \in Seq(Task) /\ ToSet(s \o u) = ToSet(s) \cup ToSet(u)
    BY CallsOf
  <2>2. /\ s \o Tail(todo) \in Seq(Task)
        /\ ToSet(s \o Tail(todo)) = ToSet(s) \cup ToSet(Tail(todo))
    BY <1>2, <2>1
  <2> QED BY <2>2
<1>4. \A t \in ToSet(todo') : Typed(t) BY <1>1, <1>2, <1>3
<1>5. WalkTypeOK'
  <2>1. \A i \in DOMAIN todo' : todo'[i] \in ToSet(todo') BY DEF ToSet
  <2> QED BY <1>1, <1>3, <1>4, <2>1 DEF WalkTypeOK, Typed
<1> QED BY <1>1, <1>2, <1>3, <1>5

\* What is read depends on the checkout alone.
LEMMA ReadKept == ASSUME doc' = doc PROVE Read' = Read /\ ReadFiles' = ReadFiles
<1>1. Read' = Read BY DEF Read
<1> QED BY <1>1 DEF ReadFiles

\* What was dealt with stays so when the call on top is made, if what it was for
\* is dealt with after it.
LEMMA DealtKept ==
    ASSUME NEW top, doc' = doc, seen \subseteq seen', paths \subseteq paths',
           \A t \in ToSet(todo) : t = top \/ t \in ToSet(todo'),
           top.what = "visit" => RefDealt(top.item, top.base)',
           top.what = "include" => IncludeDealt(top.item, top.base)',
           top.what = "extends" => ExtendsDealt(top.item, top.base)'
    PROVE  /\ \A r, b : RefDealt(r, b) => RefDealt(r, b)'
           /\ \A q : Explored(q) => Explored(q)'
<1>1. ASSUME NEW r, NEW b, RefDealt(r, b) PROVE RefDealt(r, b)'
  <2>1. CASE Pending("visit", r, b)
    <3>1. PICK t \in ToSet(todo) : t.what = "visit" /\ t.item = r /\ t.base = b BY <2>1 DEF Pending
    <3>2. CASE t \in ToSet(todo') BY <3>1, <3>2 DEF RefDealt, Pending
    <3>3. CASE t = top BY <3>1, <3>3
    <3> QED BY <3>2, <3>3
  <2>2. CASE ~Pending("visit", r, b) BY <1>1, <2>2 DEF RefDealt
  <2> QED BY <2>1, <2>2
<1>2. ASSUME NEW e, NEW b, IncludeDealt(e, b) PROVE IncludeDealt(e, b)'
  <2>1. CASE Pending("include", e, b)
    <3>1. PICK t \in ToSet(todo) : t.what = "include" /\ t.item = e /\ t.base = b BY <2>1 DEF Pending
    <3>2. CASE t \in ToSet(todo') BY <3>1, <3>2 DEF IncludeDealt, Pending
    <3>3. CASE t = top BY <3>1, <3>3
    <3> QED BY <3>2, <3>3
  <2>2. CASE ~Pending("include", e, b) BY <1>1, <1>2, <2>2 DEF IncludeDealt
  <2> QED BY <2>1, <2>2
<1>3. ASSUME NEW r, NEW b, ExtendsDealt(r, b) PROVE ExtendsDealt(r, b)'
  <2>1. CASE Pending("extends", r, b)
    <3>1. PICK t \in ToSet(todo) : t.what = "extends" /\ t.item = r /\ t.base = b BY <2>1 DEF Pending
    <3>2. CASE t \in ToSet(todo') BY <3>1, <3>2 DEF ExtendsDealt, Pending
    <3>3. CASE t = top BY <3>1, <3>3
    <3> QED BY <3>2, <3>3
  <2>2. CASE ~Pending("extends", r, b) BY <1>1, <1>3, <2>2 DEF ExtendsDealt
  <2> QED BY <2>1, <2>2
<1>4. ASSUME NEW q, Explored(q) PROVE Explored(q)' BY <1>2, <1>3, <1>4 DEF Explored
<1> QED BY <1>1, <1>4

\* A step that replaces the call on top by others keeps the invariant when they
\* are for something that is read, and what the call was for is dealt with.
LEMMA WalkStepInv ==
    ASSUME WalkTypeOK, InputsInv, todo # <<>>, NEW top, top = Top,
           NEW s \in Seq(Task), todo' = s \o Tail(todo),
           doc' = doc, complete' \in BOOLEAN, seen \subseteq seen', paths \subseteq paths',
           seen' \subseteq paths', paths' \subseteq ReadFiles, complete' => complete,
           \A t \in ToSet(s) : Typed(t) /\ Leads(t),
           complete' => /\ top.what = "visit" => RefDealt(top.item, top.base)'
                        /\ top.what = "include" => IncludeDealt(top.item, top.base)'
                        /\ top.what = "extends" => ExtendsDealt(top.item, top.base)',
           complete' => \A f \in seen' \ seen : \E q \in Read : q[1] = f /\ Explored(q)'
    PROVE  WalkTypeOK' /\ InputsInv'
<1>1. /\ WalkTypeOK' /\ ToSet(todo') = ToSet(s) \cup ToSet(Tail(todo))
      /\ ToSet(todo) = {Top} \cup ToSet(Tail(todo))
  BY Replace
<1>2. Read' = Read /\ ReadFiles' = ReadFiles BY ReadKept
<1>3. \A t \in ToSet(todo') : Leads(t)'
  <2>1. \A t \in ToSet(todo') : Leads(t) BY <1>1 DEF InputsInv
  <2> QED BY <1>2, <2>1 DEF Leads, HasInclude, HasExtends
<1>4. ASSUME complete' PROVE Thorough'
  <2>1. Thorough BY <1>4 DEF InputsInv
  <2>2. \A t \in ToSet(todo) : t = top \/ t \in ToSet(todo') BY <1>1
  <2>3. /\ \A r, b : RefDealt(r, b) => RefDealt(r, b)'
        /\ \A q : Explored(q) => Explored(q)'
    BY <1>4, <2>2, DealtKept
  <2>4. \A f \in seen' : \E q \in Read : q[1] = f /\ Explored(q)' BY <1>4, <2>1, <2>3 DEF Thorough
  <2> QED BY <1>2, <2>1, <2>3, <2>4 DEF Thorough
<1> QED BY <1>1, <1>2, <1>3, <1>4 DEF InputsInv

\* What is known of the call on top.
LEMMA TopKnown ==
    ASSUME WalkTypeOK, InputsInv, todo # <<>>
    PROVE  /\ Top \in Task /\ Typed(Top) /\ Leads(Top)
           /\ Tail(todo) \in Seq(Task) /\ Tail(todo) = <<>> \o Tail(todo)
           /\ doc \in Checkouts /\ seen \subseteq paths /\ paths \subseteq ReadFiles
           /\ complete \in BOOLEAN
<1>1. todo \in Seq(Task) /\ doc \in Checkouts /\ \A t \in ToSet(todo) : Typed(t) BY TypedCalls
<1>2. Top \in Task /\ Tail(todo) \in Seq(Task) /\ Top \in ToSet(todo) BY <1>1, TopCall DEF Top
<1>3. Tail(todo) = <<>> \o Tail(todo) BY <1>2
<1> QED BY <1>1, <1>2, <1>3 DEF InputsInv, WalkTypeOK

\* The calls made for the items of a list.
LEMMA CallsFor ==
    ASSUME NEW S, NEW q \in Seq(S), NEW what, NEW base, NEW contents, NEW depth, NEW T,
           \A e \in ToSet(q) : Call(what, e, base, contents, depth) \in T
    PROVE  /\ Calls(what, q, base, contents, depth) \in Seq(T)
           /\ \A t \in ToSet(Calls(what, q, base, contents, depth)) :
                \E e \in ToSet(q) : t = Call(what, e, base, contents, depth)
           /\ \A e \in ToSet(q) :
                Call(what, e, base, contents, depth) \in ToSet(Calls(what, q, base, contents, depth))
<1> DEFINE C(e) == Call(what, e, base, contents, depth)
           c == [i \in DOMAIN q |-> C(q[i])]
<1> HIDE DEF C
<1>1. \A i \in DOMAIN q : q[i] \in ToSet(q) /\ C(q[i]) \in T BY DEF ToSet, C
<1>2. c \in Seq(T)
  <2>1. DOMAIN q = 1..Len(q) /\ Len(q) \in Nat OBVIOUS
  <2>2. c \in [1..Len(q) -> T] BY <1>1, <2>1
  <2> QED BY <2>1, <2>2
<1>3. ToSet(c) = {C(e) : e \in ToSet(q)} BY DEF ToSet
<1>4. c = Calls(what, q, base, contents, depth) BY DEF Calls, C
<1> HIDE DEF c
<1>5. \A t \in ToSet(c) : \E e \in ToSet(q) : t = C(e) BY <1>3
<1>6. \A e \in ToSet(q) : C(e) \in ToSet(c) BY <1>3
<1> QED BY <1>2, <1>4, <1>5, <1>6 DEF C

\* The calls visit makes for the entries of a file.
LEMMA EntriesType ==
    ASSUME NEW d \in Document, NEW base \in DirOrNone, NEW depth \in 0..MaxIncludeDepth
    PROVE  /\ Entries(d, base, depth) \in Seq(Task)
           /\ \A t \in ToSet(Entries(d, base, depth)) :
                \/ \E e \in ToSet(d.includes) : t = Call("include", e, base, base, depth)
                \/ \E r \in ToSet(d.extends) : t = Call("extends", r, base, base, depth)
           /\ \A e \in ToSet(d.includes) :
                Call("include", e, base, base, depth) \in ToSet(Entries(d, base, depth))
           /\ \A r \in ToSet(d.extends) :
                Call("extends", r, base, base, depth) \in ToSet(Entries(d, base, depth))
<1>1. d.includes \in Seq(IncludeEntry) /\ d.extends \in Seq(ExtendsEntry) BY DEF Document
<1>2. \A e \in ToSet(d.includes) : Call("include", e, base, base, depth) \in Task
  BY <1>1 DEF ToSet, Call, Task
<1>3. \A r \in ToSet(d.extends) : Call("extends", r, base, base, depth) \in Task
  BY <1>1 DEF ToSet, Call, Task, ExtendsEntry, IncludeEntry
<1> DEFINE c1 == Calls("include", d.includes, base, base, depth)
           c2 == Calls("extends", d.extends, base, base, depth)
<1>4. /\ c1 \in Seq(Task)
      /\ \A t \in ToSet(c1) : \E e \in ToSet(d.includes) : t = Call("include", e, base, base, depth)
      /\ \A e \in ToSet(d.includes) : Call("include", e, base, base, depth) \in ToSet(c1)
  BY <1>1, <1>2, CallsFor
<1>5. /\ c2 \in Seq(Task)
      /\ \A t \in ToSet(c2) : \E r \in ToSet(d.extends) : t = Call("extends", r, base, base, depth)
      /\ \A r \in ToSet(d.extends) : Call("extends", r, base, base, depth) \in ToSet(c2)
  BY <1>1, <1>3, CallsFor
<1>6. Entries(d, base, depth) = c1 \o c2 BY DEF Entries
<1> HIDE DEF c1, c2
<1>7. c1 \o c2 \in Seq(Task) /\ ToSet(c1 \o c2) = ToSet(c1) \cup ToSet(c2) BY <1>4, <1>5, CallsOf
<1> QED BY <1>4, <1>5, <1>6, <1>7

\* An early return of visit leaves a reference that was dealt with, or a gap.
LEMMA VisitNothingInv == ASSUME WalkTypeOK, InputsInv, VisitNothing PROVE WalkTypeOK' /\ InputsInv'
<1>1. todo # <<>> BY DEF VisitNothing, Doing
<1>2. /\ Tail(todo) = <<>> \o Tail(todo) /\ seen \subseteq paths /\ paths \subseteq ReadFiles
      /\ complete \in BOOLEAN
  BY <1>1, TopKnown
<1>3. PICK top : top = Top OBVIOUS
<1>4. complete' => RefDealt(top.item, top.base)' BY <1>3 DEF VisitNothing, File, RefDealt
<1>5. <<>> \in Seq(Task) /\ ToSet(<<>>) = {} BY DEF ToSet
<1>6. top.what = "visit" BY <1>3 DEF VisitNothing, Doing
<1>7. todo' = <<>> \o Tail(todo) /\ doc' = doc /\ complete' \in BOOLEAN /\ (complete' => complete)
      /\ seen' = seen /\ paths' = paths
  BY <1>2 DEF VisitNothing
<1> QED BY <1>1, <1>2, <1>3, <1>4, <1>5, <1>6, <1>7, WalkStepInv

\* A file that is visited is one that is read.
LEMMA NewFileRead ==
    ASSUME WalkTypeOK, InputsInv, NewFile
    PROVE  todo # <<>> /\ <<File, Top.contents>> \in Read /\ File \in ReadFiles
<1>1. todo # <<>> /\ Top.what = "visit" /\ Resolves(Top.base, Top.item) BY DEF NewFile, Doing
<1>2. <<File, Top.contents>> \in Read BY <1>1, TopKnown DEF Leads, File
<1>3. File \in {q[1] : q \in Read} BY <1>2
<1> QED BY <1>1, <1>2, <1>3 DEF ReadFiles

\* A file that is not looked into counts, and leaves a gap.
LEMMA VisitLeafInv == ASSUME WalkTypeOK, InputsInv, VisitLeaf PROVE WalkTypeOK' /\ InputsInv'
<1>1. todo # <<>> /\ File \in ReadFiles BY NewFileRead DEF VisitLeaf
<1>2. Tail(todo) = <<>> \o Tail(todo) /\ seen \subseteq paths /\ paths \subseteq ReadFiles
  BY <1>1, TopKnown
<1>3. PICK top : top = Top OBVIOUS
<1>4. <<>> \in Seq(Task) /\ ToSet(<<>>) = {} BY DEF ToSet
<1>5. todo' = <<>> \o Tail(todo) /\ doc' = doc /\ complete' = FALSE BY <1>2 DEF VisitLeaf
<1>6. seen \subseteq seen' /\ paths \subseteq paths' /\ seen' \subseteq paths' /\ paths' \subseteq ReadFiles
  BY <1>1, <1>2 DEF VisitLeaf
<1> QED BY <1>1, <1>3, <1>4, <1>5, <1>6, WalkStepInv

\* A file that is looked into has all its entries called for.
LEMMA VisitInv == ASSUME WalkTypeOK, InputsInv, Visit PROVE WalkTypeOK' /\ InputsInv'
<1>1. todo # <<>> /\ <<File, Top.contents>> \in Read /\ File \in ReadFiles
  BY NewFileRead DEF Visit
<1>2. /\ Top \in Task /\ seen \subseteq paths /\ paths \subseteq ReadFiles
      /\ doc \in Checkouts /\ complete \in BOOLEAN
  BY <1>1, TopKnown
<1>3. PICK top, f, d : top = Top /\ f = File /\ d = Content OBVIOUS
<1>4. d \in Document /\ d = Holds(doc, f) /\ d # Unreadable
  BY <1>2, <1>3, HoldsType DEF Visit, Content
<1>5. top.contents \in DirOrNone /\ top.depth \in 0..MaxIncludeDepth /\ top.depth < MaxIncludeDepth
  <2>1. top.contents \in DirOrNone /\ top.depth \in 0..MaxIncludeDepth BY <1>2, <1>3 DEF Task
  <2> QED BY <1>3, <2>1, InputsAssumption DEF Visit, TooDeep
<1>6. PICK s : s = Entries(d, top.contents, top.depth) OBVIOUS
<1>7. /\ s \in Seq(Task)
      /\ \A t \in ToSet(s) :
           \/ \E e \in ToSet(d.includes) :
                t = Call("include", e, top.contents, top.contents, top.depth)
           \/ \E r \in ToSet(d.extends) :
                t = Call("extends", r, top.contents, top.contents, top.depth)
      /\ \A e \in ToSet(d.includes) :
           Call("include", e, top.contents, top.contents, top.depth) \in ToSet(s)
      /\ \A r \in ToSet(d.extends) :
           Call("extends", r, top.contents, top.contents, top.depth) \in ToSet(s)
  BY <1>4, <1>5, <1>6, EntriesType
<1>8. ASSUME NEW t \in ToSet(s) PROVE Typed(t) /\ Leads(t)
  <2>1. d.includes \in Seq(IncludeEntry) /\ d.extends \in Seq(ExtendsEntry) BY <1>4 DEF Document
  <2>2. PICK q \in Read : q = <<f, top.contents>> BY <1>1, <1>3
  <2>3. ASSUME NEW e \in ToSet(d.includes),
               t = Call("include", e, top.contents, top.contents, top.depth)
        PROVE  Typed(t) /\ Leads(t)
    <3>1. e \in IncludeEntry BY <2>1 DEF ToSet
    <3>2. t.what = "include" /\ t.item = e /\ t.base = top.contents /\ t.depth = top.depth
      BY <2>3 DEF Call
    <3>3. HasInclude(q, t) BY <1>4, <2>2, <3>2 DEF HasInclude
    <3> QED BY <1>5, <3>1, <3>2, <3>3 DEF Typed, Leads
  <2>4. ASSUME NEW r \in ToSet(d.extends),
               t = Call("extends", r, top.contents, top.contents, top.depth)
        PROVE  Typed(t) /\ Leads(t)
    <3>1. r \in ExtendsEntry BY <2>1 DEF ToSet
    <3>2. t.what = "extends" /\ t.item = r /\ t.base = top.contents /\ t.depth = top.depth
      BY <2>4 DEF Call
    <3>3. HasExtends(q, t) BY <1>4, <2>2, <3>2 DEF HasExtends
    <3> QED BY <1>5, <3>1, <3>2, <3>3 DEF Typed, Leads
  <2> QED BY <1>7, <2>3, <2>4
<1>9. /\ todo' = s \o Tail(todo) /\ doc' = doc /\ complete' = complete
      /\ seen' = seen \cup {f} /\ paths' = paths \cup {f}
  BY <1>3, <1>6 DEF Visit
<1>10. seen' \subseteq paths' /\ paths' \subseteq ReadFiles BY <1>1, <1>2, <1>3, <1>9
<1>11. top.what = "visit" /\ RefDealt(top.item, top.base)'
  <2>1. top.what = "visit" /\ Resolves(top.base, top.item) /\ f = Resolve(top.base, top.item)
    BY <1>3 DEF Visit, NewFile, Doing, File
  <2> QED BY <1>9, <2>1 DEF RefDealt
<1>12. ToSet(s) \subseteq ToSet(todo') BY <1>1, <1>2, <1>7, <1>8, <1>9, <1>10, Replace
<1>13. Explored(<<f, top.contents>>)'
  <2>1. ASSUME NEW e \in ToSet(d.includes) PROVE IncludeDealt(e, top.contents)'
    <3>1. Call("include", e, top.contents, top.contents, top.depth) \in ToSet(todo') BY <1>7, <1>12
    <3> QED BY <3>1 DEF IncludeDealt, Pending, Call
  <2>2. ASSUME NEW r \in ToSet(d.extends) PROVE ExtendsDealt(r, top.contents)'
    <3>1. Call("extends", r, top.contents, top.contents, top.depth) \in ToSet(todo') BY <1>7, <1>12
    <3> QED BY <3>1 DEF ExtendsDealt, Pending, Call
  <2>3. Holds(doc', f) = d BY <1>4, <1>9
  <2> QED BY <1>4, <2>1, <2>2, <2>3 DEF Explored
<1>14. \A g \in seen' \ seen : \E q \in Read : q[1] = g /\ Explored(q)'
  BY <1>1, <1>3, <1>9, <1>13
<1> QED BY <1>1, <1>2, <1>3, <1>7, <1>8, <1>9, <1>10, <1>11, <1>14, WalkStepInv

\* What an entry of a file that is read leads to is read.
LEMMA EntryRead ==
    ASSUME doc \in Checkouts, NEW q \in Read, Holds(doc, q[1]) # Unreadable
    PROVE  /\ Holds(doc, q[1]) \in Document /\ q[2] \in DirOrNone
           /\ Children(Holds(doc, q[1]), q[2]) \subseteq Read
           /\ EnvFiles(Holds(doc, q[1]), q[2]) \subseteq ReadFiles
<1>1. Read \subseteq Place /\ ReadBy(doc, Read) \subseteq Read BY ReadClosed DEF Read
<1>2. Holds(doc, q[1]) \in Document BY HoldsType
<1>3. q[2] \in DirOrNone BY <1>1 DEF Place
<1>4. Children(Holds(doc, q[1]), q[2]) \subseteq ReadBy(doc, Read) BY DEF ReadBy
<1>5. EnvFiles(Holds(doc, q[1]), q[2]) \subseteq UNION {EnvFiles(Holds(doc, p[1]), p[2]) : p \in Read}
  OBVIOUS
<1>6. UNION {EnvFiles(Holds(doc, p[1]), p[2]) : p \in Read} \subseteq ReadFiles BY DEF ReadFiles
<1> QED BY <1>1, <1>2, <1>3, <1>4, <1>5, <1>6

\* An include entry is dealt with: its env files count, and its files are visited.
LEMMA WalkIncludeInv == ASSUME WalkTypeOK, InputsInv, WalkInclude PROVE WalkTypeOK' /\ InputsInv'
<1>1. todo # <<>> BY DEF WalkInclude, Doing
<1>2. /\ Top \in Task /\ Typed(Top) /\ Leads(Top) /\ seen \subseteq paths /\ paths \subseteq ReadFiles
      /\ doc \in Checkouts /\ complete \in BOOLEAN
  BY <1>1, TopKnown
<1>3. PICK top, e, base, depth : top = Top /\ e = top.item /\ base = top.base /\ depth = top.depth
  OBVIOUS
<1>4. top.what = "include" /\ Includes(e) BY <1>3 DEF WalkInclude, Doing
<1>5. /\ e \in IncludeEntry /\ base \in DirOrNone
      /\ depth \in 0..MaxIncludeDepth /\ depth < MaxIncludeDepth
  BY <1>2, <1>3, <1>4 DEF Typed, Task
<1>6. PICK q \in Read : /\ Holds(doc, q[1]) # Unreadable /\ q[2] = base
                        /\ e \in ToSet(Holds(doc, q[1]).includes)
  BY <1>2, <1>3, <1>4 DEF Leads, HasInclude
<1>7. e \in Followed(Holds(doc, q[1])) BY <1>4, <1>6 DEF Followed
<1>8. Included(e, base) \subseteq Read /\ IncludeEnv(e, base) \subseteq ReadFiles
  <2>1. Included(e, base) \subseteq Children(Holds(doc, q[1]), base) BY <1>7 DEF Children
  <2>2. IncludeEnv(e, base) \subseteq EnvFiles(Holds(doc, q[1]), base) BY <1>6, <1>7 DEF EnvFiles
  <2> QED BY <1>2, <1>6, <2>1, <2>2, EntryRead
<1>9. /\ IncludeDir(e, base) \in DirOrNone /\ e.paths \in Seq(Reference)
      /\ \A r \in ToSet(e.paths) : r \in Reference
  <2>1. IncludeDir(e, base) \in DirOrNone /\ e.paths \in Seq(Reference) BY <1>4, <1>5, IncludeDirType
  <2> QED BY <2>1 DEF ToSet
<1>10. PICK s : s = IncludeCalls(e, base, depth) OBVIOUS
<1>11. /\ s \in Seq(Task)
       /\ \A t \in ToSet(s) : \E r \in ToSet(e.paths) :
            t = Call("visit", r, base, IncludeDir(e, base), depth + 1)
       /\ \A r \in ToSet(e.paths) : Call("visit", r, base, IncludeDir(e, base), depth + 1) \in ToSet(s)
  <2>1. depth + 1 \in 0..MaxIncludeDepth BY <1>5, InputsAssumption
  <2>2. \A r \in ToSet(e.paths) : Call("visit", r, base, IncludeDir(e, base), depth + 1) \in Task
    BY <1>5, <1>9, <2>1 DEF Call, Task
  <2>3. s = Calls("visit", e.paths, base, IncludeDir(e, base), depth + 1) BY <1>10 DEF IncludeCalls
  <2>4. PICK p, dir, n : p = e.paths /\ dir = IncludeDir(e, base) /\ n = depth + 1 OBVIOUS
  <2>5. p \in Seq(Reference) /\ \A r \in ToSet(p) : Call("visit", r, base, dir, n) \in Task
    BY <1>9, <2>2, <2>4
  <2>6. /\ Calls("visit", p, base, dir, n) \in Seq(Task)
        /\ \A t \in ToSet(Calls("visit", p, base, dir, n)) :
             \E r \in ToSet(p) : t = Call("visit", r, base, dir, n)
        /\ \A r \in ToSet(p) :
             Call("visit", r, base, dir, n) \in ToSet(Calls("visit", p, base, dir, n))
    BY <2>5, CallsFor
  <2> QED BY <2>3, <2>4, <2>6
<1>12. ASSUME NEW t \in ToSet(s) PROVE Typed(t) /\ Leads(t)
  <2>1. PICK r \in ToSet(e.paths) : t = Call("visit", r, base, IncludeDir(e, base), depth + 1)
    BY <1>11
  <2>2. t.what = "visit" /\ t.item = r /\ t.base = base /\ t.contents = IncludeDir(e, base)
    BY <2>1 DEF Call
  <2>3. Resolves(base, r) => <<Resolve(base, r), IncludeDir(e, base)>> \in Read
    BY <1>8 DEF Included
  <2> QED BY <1>9, <2>2, <2>3 DEF Typed, Leads
<1>13. /\ todo' = s \o Tail(todo) /\ doc' = doc /\ seen' = seen
       /\ paths' = paths \cup IncludeEnv(e, base) /\ complete' = (complete /\ EnvResolves(e, base))
  BY <1>3, <1>10 DEF WalkInclude
<1>14. seen' \subseteq paths' /\ paths' \subseteq ReadFiles /\ complete' \in BOOLEAN
  BY <1>2, <1>8, <1>13
<1>15. ToSet(s) \subseteq ToSet(todo') BY <1>1, <1>11, <1>12, <1>13, <1>14, Replace
<1>16. ASSUME complete' PROVE IncludeDealt(e, base)'
  <2>1. ASSUME NEW r \in ToSet(e.paths) PROVE RefDealt(r, base)'
    <3>1. Call("visit", r, base, IncludeDir(e, base), depth + 1) \in ToSet(todo') BY <1>11, <1>15
    <3> QED BY <3>1 DEF RefDealt, Pending, Call
  <2>2. EnvResolves(e, base) /\ IncludeEnv(e, base) \subseteq paths' BY <1>13, <1>16
  <2> QED BY <1>4, <2>1, <2>2 DEF IncludeDealt
<1>17. IncludeDealt(top.item, top.base)' <=> IncludeDealt(e, base)' BY <1>3
<1> QED BY <1>1, <1>3, <1>4, <1>11, <1>12, <1>13, <1>14, <1>16, <1>17, WalkStepInv

\* One that cannot be followed leaves a gap.
LEMMA WalkIncludeFailsInv ==
    ASSUME WalkTypeOK, InputsInv, WalkIncludeFails PROVE WalkTypeOK' /\ InputsInv'
<1>1. todo # <<>> BY DEF WalkIncludeFails, Doing
<1>2. Tail(todo) = <<>> \o Tail(todo) /\ seen \subseteq paths /\ paths \subseteq ReadFiles
  BY <1>1, TopKnown
<1>3. PICK top : top = Top OBVIOUS
<1>4. <<>> \in Seq(Task) /\ ToSet(<<>>) = {} BY DEF ToSet
<1>5. /\ todo' = <<>> \o Tail(todo) /\ doc' = doc /\ complete' = FALSE
      /\ seen' = seen /\ paths' = paths
  BY <1>2 DEF WalkIncludeFails
<1> QED BY <1>1, <1>2, <1>3, <1>4, <1>5, WalkStepInv

\* An extends entry is dealt with: its file is visited.
LEMMA WalkExtendsInv == ASSUME WalkTypeOK, InputsInv, WalkExtends PROVE WalkTypeOK' /\ InputsInv'
<1>1. todo # <<>> BY DEF WalkExtends, Doing
<1>2. /\ Top \in Task /\ Typed(Top) /\ Leads(Top) /\ seen \subseteq paths /\ paths \subseteq ReadFiles
      /\ doc \in Checkouts /\ complete \in BOOLEAN
  BY <1>1, TopKnown
<1>3. PICK top, r, base, depth : top = Top /\ r = top.item /\ base = top.base /\ depth = top.depth
  OBVIOUS
<1>4. top.what = "extends" /\ Extends(r, base) BY <1>3 DEF WalkExtends, Doing
<1>5. /\ r \in Reference /\ base \in DirOrNone /\ Resolves(base, r)
      /\ depth \in 0..MaxIncludeDepth /\ depth < MaxIncludeDepth
  BY <1>2, <1>3, <1>4 DEF Typed, Task, ExtendsEntry, Extends
<1>6. PICK q \in Read : /\ Holds(doc, q[1]) # Unreadable /\ q[2] = base
                        /\ r \in ToSet(Holds(doc, q[1]).extends)
  BY <1>2, <1>3, <1>4 DEF Leads, HasExtends
<1>7. Extended(r, base) \in Read
  <2>1. Extended(r, base) \in Children(Holds(doc, q[1]), base) BY <1>4, <1>6 DEF Children
  <2> QED BY <1>2, <1>6, <2>1, EntryRead
<1>8. PICK c : c = ExtendsCall(r, base, depth) OBVIOUS
<1>9. /\ c.what = "visit" /\ c.item = r /\ c.base = base /\ c.contents = Resolve(base, r)[1]
      /\ c \in Task
  <2>1. depth + 1 \in 0..MaxIncludeDepth BY <1>5, InputsAssumption
  <2>2. Resolve(base, r)[1] \in DirOrNone BY <1>5, ResolveType DEF DirOrNone
  <2> QED BY <1>5, <1>8, <2>1, <2>2 DEF ExtendsCall, Call, Task
<1>10. <<c>> \in Seq(Task) /\ ToSet(<<c>>) = {c} BY <1>9 DEF ToSet
<1>11. Typed(c) /\ Leads(c) BY <1>5, <1>7, <1>9 DEF Typed, Leads, Extended
<1>12. /\ todo' = <<c>> \o Tail(todo) /\ doc' = doc /\ seen' = seen /\ paths' = paths
       /\ complete' = complete
  BY <1>3, <1>8 DEF WalkExtends
<1>13. ToSet(<<c>>) \subseteq ToSet(todo') BY <1>1, <1>2, <1>10, <1>11, <1>12, Replace
<1>14. ExtendsDealt(r, base)'
  <2>1. RefDealt(r, base)' BY <1>9, <1>10, <1>13 DEF RefDealt, Pending
  <2> QED BY <1>4, <2>1 DEF ExtendsDealt
<1>15. ExtendsDealt(top.item, top.base)' BY <1>3, <1>14
<1> QED BY <1>1, <1>2, <1>3, <1>4, <1>10, <1>11, <1>12, <1>15, WalkStepInv

\* One without a file leads nowhere; any other that cannot be followed is a gap.
LEMMA WalkExtendsNothingInv ==
    ASSUME WalkTypeOK, InputsInv, WalkExtendsNothing PROVE WalkTypeOK' /\ InputsInv'
<1>1. todo # <<>> BY DEF WalkExtendsNothing, Doing
<1>2. /\ Tail(todo) = <<>> \o Tail(todo) /\ seen \subseteq paths /\ paths \subseteq ReadFiles
      /\ complete \in BOOLEAN
  BY <1>1, TopKnown
<1>3. PICK top : top = Top OBVIOUS
<1>4. complete' => ExtendsDealt(top.item, top.base)' BY <1>3 DEF WalkExtendsNothing, ExtendsDealt
<1>5. <<>> \in Seq(Task) /\ ToSet(<<>>) = {} BY DEF ToSet
<1>6. top.what = "extends" BY <1>3 DEF WalkExtendsNothing, Doing
<1>7. todo' = <<>> \o Tail(todo) /\ doc' = doc /\ complete' \in BOOLEAN /\ (complete' => complete)
      /\ seen' = seen /\ paths' = paths
  BY <1>2 DEF WalkExtendsNothing
<1> QED BY <1>1, <1>2, <1>3, <1>4, <1>5, <1>6, <1>7, WalkStepInv

\* ProjectInputs begins with a visit to each compose file.
LEMMA InputsInit == ASSUME WalkInit PROVE WalkTypeOK /\ InputsInv
<1>1. doc \in Checkouts /\ seen = {} /\ paths = {} /\ complete = TRUE BY DEF WalkInit
<1>2. /\ todo = Calls("visit", Start, WorkingDir, WorkingDir, 0)
      /\ Start \in Seq(Reference) /\ WorkingDir \in DirOrNone /\ 0 \in 0..MaxIncludeDepth
  BY InputsAssumption DEF WalkInit, DirOrNone
<1>3. \A r \in ToSet(Start) : r \in Reference BY <1>2 DEF ToSet
<1>4. \A r \in ToSet(Start) : Call("visit", r, WorkingDir, WorkingDir, 0) \in Task
  BY <1>2, <1>3 DEF Call, Task
<1>5. /\ todo \in Seq(Task)
      /\ \A t \in ToSet(todo) : \E r \in ToSet(Start) : t = Call("visit", r, WorkingDir, WorkingDir, 0)
      /\ \A r \in ToSet(Start) : Call("visit", r, WorkingDir, WorkingDir, 0) \in ToSet(todo)
  BY <1>2, <1>4, CallsFor
<1>6. ASSUME NEW t \in ToSet(todo) PROVE Typed(t) /\ Leads(t)
  <2>1. PICK r \in ToSet(Start) : t = Call("visit", r, WorkingDir, WorkingDir, 0) BY <1>5
  <2>2. t.what = "visit" /\ t.item = r /\ t.base = WorkingDir /\ t.contents = WorkingDir
    BY <2>1 DEF Call
  <2>3. Resolves(WorkingDir, r) => <<Resolve(WorkingDir, r), WorkingDir>> \in Roots BY DEF Roots
  <2>4. Roots \subseteq Read BY <1>1, ReadClosed DEF Read
  <2> QED BY <1>3, <2>2, <2>3, <2>4 DEF Typed, Leads
<1>7. \A r \in ToSet(Start) : RefDealt(r, WorkingDir) BY <1>5 DEF RefDealt, Pending, Call
<1>8. WalkTypeOK BY <1>1, <1>5, <1>6, TypedCalls
<1> QED BY <1>1, <1>6, <1>7, <1>8 DEF InputsInv, Thorough

\* Every step of the walk keeps the type and the invariant.
LEMMA InputsStep == ASSUME WalkTypeOK, InputsInv, [WalkNext]_walkVars PROVE WalkTypeOK' /\ InputsInv'
<1>1. CASE VisitNothing BY <1>1, VisitNothingInv
<1>2. CASE VisitLeaf BY <1>2, VisitLeafInv
<1>3. CASE Visit BY <1>3, VisitInv
<1>4. CASE WalkInclude BY <1>4, WalkIncludeInv
<1>5. CASE WalkIncludeFails BY <1>5, WalkIncludeFailsInv
<1>6. CASE WalkExtends BY <1>6, WalkExtendsInv
<1>7. CASE WalkExtendsNothing BY <1>7, WalkExtendsNothingInv
<1>8. CASE UNCHANGED walkVars
  <2>1. doc' = doc /\ todo' = todo /\ seen' = seen /\ paths' = paths /\ complete' = complete
    BY <1>8 DEF walkVars
  <2>2. Read' = Read /\ ReadFiles' = ReadFiles BY <2>1, ReadKept
  <2>3. WalkTypeOK' BY <2>1 DEF WalkTypeOK
  <2>4. \A t \in ToSet(todo') : Leads(t)'
    BY <2>1, <2>2 DEF InputsInv, Leads, HasInclude, HasExtends
  <2>5. \A q : Explored(q)' <=> Explored(q)
    BY <2>1 DEF Explored, IncludeDealt, ExtendsDealt, RefDealt, Pending
  <2>6. \A r, b : RefDealt(r, b)' <=> RefDealt(r, b) BY <2>1 DEF RefDealt, Pending
  <2> QED BY <2>1, <2>2, <2>3, <2>4, <2>5, <2>6 DEF InputsInv, Thorough
<1>9. CASE Done BY <1>8, <1>9 DEF Done
<1> QED BY <1>1, <1>2, <1>3, <1>4, <1>5, <1>6, <1>7, <1>8, <1>9 DEF WalkNext

\* When no call is left, a thorough walk has looked into everything that is read,
\* provided a file is read under one directory only.
LEMMA AllWalked ==
    ASSUME WalkTypeOK, todo = <<>>, Thorough, Unambiguous
    PROVE  \A q \in Read : q[1] \in seen /\ Explored(q)
<1>1. doc \in Checkouts BY DEF WalkTypeOK
<1>2. \A w, i, b : ~Pending(w, i, b) BY DEF Pending, ToSet
<1>3. ASSUME NEW q \in Read, q[1] \in seen PROVE Explored(q)
  <2>1. PICK p \in Read : p[1] = q[1] /\ Explored(p) BY <1>3 DEF Thorough
  <2>2. p = q BY <2>1 DEF Unambiguous
  <2> QED BY <2>1, <2>2
<1> DEFINE S == {q \in Read : q[1] \in seen}
<1>4. Roots \subseteq S
  <2> SUFFICES ASSUME NEW r \in ToSet(Start), Resolves(WorkingDir, r)
               PROVE  <<Resolve(WorkingDir, r), WorkingDir>> \in S
    BY DEF Roots
  <2>1. r \in Reference /\ WorkingDir \in DirOrNone BY InputsAssumption DEF ToSet, DirOrNone
  <2>2. r.dir # Remote BY <2>1, ResolveType
  <2>3. Resolve(WorkingDir, r) \in seen BY <1>2, <2>2 DEF Thorough, RefDealt
  <2>4. <<Resolve(WorkingDir, r), WorkingDir>> \in Roots BY DEF Roots
  <2>5. Roots \subseteq Read BY <1>1, ReadClosed DEF Read
  <2> QED BY <2>3, <2>4, <2>5
<1>5. ASSUME NEW q \in S, Holds(doc, q[1]) # Unreadable
      PROVE  Children(Holds(doc, q[1]), q[2]) \subseteq S
  <2> DEFINE d == Holds(doc, q[1])
  <2>1. Explored(q) BY <1>3
  <2>2. d \in Document /\ q[2] \in DirOrNone /\ Children(d, q[2]) \subseteq Read
    BY <1>1, <1>5, EntryRead
  <2>3. d.includes \in Seq(IncludeEntry) /\ d.extends \in Seq(ExtendsEntry) BY <2>2 DEF Document
  <2>4. \A e \in ToSet(d.includes) : IncludeDealt(e, q[2]) BY <2>1 DEF Explored
  <2>5. \A r \in ToSet(d.extends) : ExtendsDealt(r, q[2]) BY <2>1 DEF Explored
  <2> HIDE DEF d
  <2>6. ASSUME NEW r \in ToSet(d.extends), Extends(r, q[2]) PROVE Extended(r, q[2]) \in S
    <3>1. r \in Reference /\ Resolves(q[2], r) BY <2>3, <2>6 DEF ToSet, ExtendsEntry, Extends
    <3>2. r.dir # Remote BY <2>2, <3>1, ResolveType
    <3>3. r.dir # "empty" BY <3>1, InputsAssumption DEF Resolves, Here, Unresolved
    <3>4. Resolve(q[2], r) \in seen
      BY <1>2, <2>5, <3>2, <3>3 DEF ExtendsDealt, ExtendsNothing, RefDealt
    <3>5. Extended(r, q[2]) \in Children(d, q[2]) BY <2>6 DEF Children
    <3>6. Extended(r, q[2])[1] = Resolve(q[2], r) BY DEF Extended
    <3> QED BY <2>2, <3>4, <3>5, <3>6
  <2>7. ASSUME NEW e \in Followed(d), NEW r \in ToSet(e.paths), Resolves(q[2], r)
        PROVE  <<Resolve(q[2], r), IncludeDir(e, q[2])>> \in S
    <3>1. e \in ToSet(d.includes) /\ e \in IncludeEntry /\ Includes(e) BY <2>3 DEF Followed, ToSet
    <3>2. e.paths \in Seq(Reference) BY <2>2, <3>1, IncludeDirType
    <3>3. r \in Reference BY <3>2 DEF ToSet
    <3>4. r.dir # Remote BY <2>2, <2>7, <3>3, ResolveType
    <3>5. Resolve(q[2], r) \in seen BY <1>2, <2>4, <3>1, <3>4 DEF IncludeDealt, RefDealt
    <3>6. <<Resolve(q[2], r), IncludeDir(e, q[2])>> \in Children(d, q[2])
      BY <2>7 DEF Children, Included
    <3> QED BY <2>2, <3>5, <3>6
  <2> HIDE DEF S
  <2>8. \A e \in Followed(d) : Included(e, q[2]) \subseteq S BY <2>7 DEF Included
  <2>9. Children(d, q[2]) \subseteq S BY <2>6, <2>8 DEF Children
  <2> QED BY <2>9 DEF d
<1>6. S \cap Read = S OBVIOUS
<1>7. ReadBy(doc, S) \subseteq S
  <2> HIDE DEF S
  <2> QED BY <1>5 DEF ReadBy
<1>8. Read \subseteq S
  <2> HIDE DEF S
  <2> QED BY <1>1, <1>4, <1>6, <1>7, ReadLeast DEF Read
<1> QED BY <1>3, <1>8

\* The walk of internal/compose/inputs.go (ProjectInputs, visit, walkInclude,
\* walkExtends) makes calls of the kinds it has, for references of the kinds a
\* file can hold, and never deeper than maxIncludeDepth.
THEOREM WalkTypes == WalkSpec => []WalkTypeOK
<1>1. WalkInit => WalkTypeOK /\ InputsInv BY InputsInit
<1>2. WalkTypeOK /\ InputsInv /\ [WalkNext]_walkVars => (WalkTypeOK /\ InputsInv)' BY InputsStep
<1> QED BY <1>1, <1>2, PTL DEF WalkSpec

\* Whatever the files hold and however they include each other, the complete
\* list of ProjectInputs names no file the stack does not read, so that a change
\* elsewhere does not restart it.
THEOREM NothingElse == WalkSpec => []NothingElseMatches
<1>1. WalkInit => WalkTypeOK /\ InputsInv BY InputsInit
<1>2. WalkTypeOK /\ InputsInv /\ [WalkNext]_walkVars => (WalkTypeOK /\ InputsInv)' BY InputsStep
<1>3. ASSUME InputsInv PROVE NothingElseMatches
  <2>1. paths \subseteq ReadFiles /\ DeclaredPaths \subseteq ReadFiles
    BY <1>3 DEF InputsInv, ReadFiles
  <2>2. ASSUME complete, NEW f \in Paths, Matches(f) PROVE IsRead(f) \/ Gap
    <3>1. CASE ~DeclaredComplete BY <3>1 DEF Gap
    <3>2. CASE DeclaredComplete BY <2>1, <2>2, <3>2 DEF Matches, IsRead
    <3> QED BY <3>1, <3>2
  <2> QED BY <2>2 DEF NothingElseMatches
<1> QED BY <1>1, <1>2, <1>3, PTL DEF WalkSpec

\* The list of ProjectInputs misses nothing: a change to a file that is read, or
\* may be for all one can tell, puts the stack in the cycle (stackInputsMatch),
\* for every number of files, every cycle of includes and every depth limit.
THEOREM NoneMissed == WalkSpec => []NoInputIsMissed
<1>1. WalkInit => WalkTypeOK /\ InputsInv BY InputsInit
<1>2. WalkTypeOK /\ InputsInv /\ [WalkNext]_walkVars => (WalkTypeOK /\ InputsInv)' BY InputsStep
<1>3. ASSUME WalkTypeOK, InputsInv PROVE NoInputIsMissed
  <2> SUFFICES ASSUME todo = <<>>, Unambiguous, NEW f \in Paths, IsRead(f) \/ Gap,
                      complete, DeclaredComplete
               PROVE  Matches(f)
    BY DEF NoInputIsMissed, Matches
  <2>1. Thorough BY <1>3 DEF InputsInv
  <2>2. \A q \in Read : q[1] \in seen /\ Explored(q) BY <1>3, <2>1, AllWalked
  <2>3. \A w, i, b : ~Pending(w, i, b) BY DEF Pending, ToSet
  <2>4. seen \subseteq paths /\ doc \in Checkouts BY <1>3 DEF WalkTypeOK
  <2>5. ~Gap
    <3>1. \A r \in ToSet(Start) : r.dir = Remote \/ Resolves(WorkingDir, r)
      BY <2>1, <2>3 DEF Thorough, RefDealt
    <3>2. ASSUME NEW q \in Read PROVE ~Obscure(Holds(doc, q[1]), q[2])
      <4>1. Explored(q) BY <2>2
      <4> QED BY <2>3, <4>1 DEF Explored, Obscure, IncludeDealt, ExtendsDealt, RefDealt
    <3> QED BY <3>1, <3>2 DEF Gap
  <2>6. ReadFiles \subseteq paths \cup DeclaredPaths
    <3>1. \A q \in Read : q[1] \in paths BY <2>2, <2>4
    <3>2. ASSUME NEW q \in Read PROVE EnvFiles(Holds(doc, q[1]), q[2]) \subseteq paths
      <4>1. Explored(q) BY <2>2
      <4>2. \A e \in Followed(Holds(doc, q[1])) : IncludeEnv(e, q[2]) \subseteq paths
        BY <2>3, <4>1 DEF Explored, IncludeDealt, Followed
      <4> QED BY <4>2 DEF EnvFiles
    <3> QED BY <3>1, <3>2 DEF ReadFiles
  <2> QED BY <2>5, <2>6 DEF IsRead, Matches
<1> QED BY <1>1, <1>2, <1>3, PTL DEF WalkSpec
=============================================================================
