---------------------------- MODULE RestoreProofs -------------------------
(***************************************************************************)
(* Extract restores the tree that CreateArchive packed, for every tree,    *)
(* exclusion list and limit, and whatever is edited meanwhile.             *)
(***************************************************************************)
EXTENDS TransferProofs, ArchiveProofs

\* Leaves are for Zenon unless they name another prover.
USE ZenonT(30)

---------------------------------------------------------------------------
(* Names and sizes of the entries.                                         *)

\* The parents of a path are the other paths above it, the root apart.
LEMMA ParentsAre ==
  ASSUME NEW S, NEW p \in Seq(S), S \subseteq STRING, NEW r \in Parents(p)
  PROVE  r \in Seq(S) \ {<<>>} /\ r # p /\ Within(p, r)
<1>1. Len(p) \in Nat /\ p \in Path
  BY SeqIs, SeqWider DEF Path
<1>2. PICK l \in 1 .. Len(p) - 1 : r = SubSeq(p, 1, l)
  BY DEF Parents
<1>3. l \in 0 .. Len(p) /\ l # 0 /\ l < Len(p)
  BY <1>1, <1>2, SMTT(30)
<1>4. r \in Seq(S) /\ Len(r) = l /\ \A i \in 1 .. l : r[i] = p[i]
  BY <1>2, <1>3, PrefixFacts, SMTT(30)
<1>5. Len(<<>>) = 0 /\ r \in Path
  BY <1>4, SeqEmpty, SeqWider DEF Path
<1>6. r # <<>> /\ r # p
  BY <1>3, <1>4, <1>5, SMTT(30)
<1>7. Len(r) <= Len(p) /\ \A i \in 1 .. Len(r) : p[i] = r[i]
  BY <1>1, <1>3, <1>4, SMTT(30)
<1> QED
  BY <1>1, <1>4, <1>5, <1>6, <1>7, WithinIs, SMTT(30)

\* path.Clean leaves a path of ordinary names alone.
LEMMA CleanName ==
  ASSUME NEW p \in Seq(Name)
  PROVE  Clean(p) = p
<1> DEFINE N == Len(p)
           E(h) == h = [i \in 0 .. Len(p) |-> IF i = 0 THEN <<>> ELSE PathStep(h[i - 1], p[i])]
           at == CHOOSE h : E(h)
           f == [i \in 0 .. N |-> SubSeq(p, 1, i)]
<1>1. N \in Nat /\ \A i \in 1 .. N : p[i] \in Name
  BY SeqIs, SeqElement
<1>2. ASSUME NEW i \in 1 .. N
      PROVE  SubSeq(p, 1, i) = PathStep(SubSeq(p, 1, i - 1), p[i])
  <2>1. SubSeq(p, 1, i) = Append(SubSeq(p, 1, i - 1), p[i])
    BY PrefixNext
  <2>2. p[i] # "." /\ p[i] # ".."
    BY <1>1 DEF Name
  <2> QED BY <2>1, <2>2 DEF PathStep
<1>3. SubSeq(p, 1, 0) = <<>> /\ SubSeq(p, 1, N) = p
  BY PrefixNext
<1>4. E(f)
  <2>1. ASSUME NEW i \in 0 .. N
        PROVE  f[i] = IF i = 0 THEN <<>> ELSE PathStep(f[i - 1], p[i])
    <3>1. CASE i = 0
      BY <3>1, <1>3
    <3>2. CASE i # 0
      <4>1. i \in 1 .. N /\ i - 1 \in 0 .. N
        BY <3>2, <1>1, SMTT(30)
      <4>2. f[i] = SubSeq(p, 1, i) /\ f[i - 1] = SubSeq(p, 1, i - 1)
        BY <4>1
      <4> QED BY <4>1, <4>2, <1>2, <3>2, SMTT(30)
    <3> QED BY <3>1, <3>2
  <2>2. f = [i \in 0 .. N |-> IF i = 0 THEN <<>> ELSE PathStep(f[i - 1], p[i])]
    BY <2>1
  <2> QED BY <2>2
<1>5. E(at)
  BY <1>4
<1>6. Clean(p) = at[N]
  BY DEF Clean
<1> DEFINE C == {i \in 0 .. N : at[i] = SubSeq(p, 1, i)}
<1> HIDE DEF at
<1>7. 0 \in C
  BY <1>1, <1>3, <1>5, SMTT(30)
<1>8. ASSUME NEW i \in 1 .. N, i - 1 \in C PROVE i \in C
  <2>1. at[i] = PathStep(at[i - 1], p[i])
    BY <1>1, <1>5, SMTT(30)
  <2>2. at[i] = SubSeq(p, 1, i)
    BY <2>1, <1>2, <1>8
  <2> QED BY <2>2, SMTT(30)
<1>9. N \in C
  <2> HIDE DEF C, N
  <2>1. \A i \in 0 .. N : i \in C
    BY <1>1, <1>7, <1>8, Climb
  <2> QED BY <2>1, <1>1, SMTT(30)
<1> QED
  BY <1>3, <1>6, <1>9

\* The paths on a disk pass safeArchivePath.
LEMMA NamesAreSafe ==
  ASSUME NEW p \in Seq(Name) \ {<<>>}
  PROVE  safeArchivePath(p) /\ Clean(p) = p
<1>1. Clean(p) = p
  BY CleanName
<1>2. Head(p) \in Name
  BY SeqTail
<1>3. Head(p) # "/" /\ Head(p) # ".."
  BY <1>2 DEF Name
<1> QED
  BY <1>1, <1>3 DEF safeArchivePath, IsAbs, Outside

\* The sizes in the headers of an archive, and what the first k of them add up to.
SizeOf(a)   == [i \in DOMAIN a |-> a[i].size]
Total(a, k) == (CHOOSE h : IsSum(h, DOMAIN a, SizeOf(a)))[1 .. k]

\* The sum of the sizes, entry by entry.
LEMMA TotalFacts ==
  ASSUME NEW a \in Seq(Entries)
  PROVE  /\ Total(a, 0) = 0
         /\ \A k \in 1 .. Len(a) : Total(a, k) = a[k].size + Total(a, k - 1)
         /\ \A k \in 0 .. Len(a) : Total(a, k) \in Nat
         /\ \A k \in 0 .. Len(a) :
              Total(a, k) <= FoldFunction(+, 0, [i \in DOMAIN a |-> a[i].size])
         /\ FoldFunction(+, 0, [i \in DOMAIN a |-> a[i].size]) \in Nat
<1> DEFINE S == DOMAIN a
           N == Len(a)
           w == SizeOf(a)
           h == CHOOSE f : IsSum(f, S, w)
<1>1. N \in Nat /\ S = 1 .. N /\ \A i \in S : a[i].size \in Nat
  <2>1. N \in Nat /\ S = 1 .. N
    BY SeqIs
  <2>2. \A i \in 1 .. N : a[i] \in Entries
    BY SeqElement
  <2> QED BY <2>1, <2>2 DEF Entries
<1>2. w \in [S -> Nat] /\ IsFiniteSet(S) /\ DOMAIN w = S /\ \A i \in S : w[i] = a[i].size
  BY <1>1, FS_Interval, SMTT(30) DEF SizeOf
<1>3. \A k : Total(a, k) = h[1 .. k]
  BY DEF Total
<1>4. FoldFunction(+, 0, [i \in DOMAIN a |-> a[i].size]) = FoldFunction(+, 0, w)
  BY DEF SizeOf
<1> HIDE DEF S, N, w
<1>5. IsSum(h, S, w)
  <2>1. \E f : IsSum(f, S, w)
    BY <1>2, SumExists
  <2> QED BY <2>1
<1>6. FoldFunction(+, 0, w) = h[S]
  BY <1>2 DEF FoldFunction, FoldFunctionOnSet, MapThenFoldSet, IsSum, One
<1> HIDE DEF h
<1>7. AnyOrder(h, S, w) /\ \A s \in SUBSET S : h[s] \in Nat
  BY <1>2, <1>5, SumRemove, SumNat, SMTT(30)
<1>8. ASSUME NEW k \in 0 .. N PROVE 1 .. k \in SUBSET S /\ Total(a, k) \in Nat
  <2>1. 1 .. k \in SUBSET S
    BY <1>1, SMTT(30)
  <2> QED BY <2>1, <1>3, <1>7, SMTT(30)
<1>9. ASSUME NEW k \in 1 .. N PROVE Total(a, k) = a[k].size + Total(a, k - 1)
  <2>1. k \in 0 .. N /\ k \in 1 .. k /\ (1 .. k) \ {k} = 1 .. k - 1 /\ k \in S
    BY <1>1, SMTT(30)
  <2>2. 1 .. k \in SUBSET S
    BY <2>1, <1>8
  <2>3. h[1 .. k] = w[k] + h[(1 .. k) \ {k}]
    BY <2>1, <2>2, <1>7 DEF AnyOrder
  <2> QED BY <2>1, <2>3, <1>2, <1>3
<1>10. Total(a, 0) = 0
  <2>1. 1 .. 0 = {} /\ {} \in SUBSET S
    BY SMTT(30)
  <2>2. h[{}] = 0
    BY <1>5 DEF IsSum
  <2> QED BY <2>1, <2>2, <1>3
<1> DEFINE C == {j \in 0 .. N : Total(a, N - j) <= Total(a, N)}
<1>11. \A j \in 0 .. N : j \in C
  <2>1. 0 \in C
    <3>1. N - 0 = N /\ N \in 0 .. N
      BY <1>1, SMTT(30)
    <3>2. Total(a, N) \in Nat
      BY <3>1, <1>8
    <3> QED BY <3>1, <3>2, SMTT(30)
  <2>2. ASSUME NEW j \in 1 .. N, j - 1 \in C PROVE j \in C
    <3>1. N - (j - 1) \in 1 .. N /\ (N - (j - 1)) - 1 = N - j /\ N - j \in 0 .. N /\ N \in 0 .. N
      BY <1>1, SMTT(30)
    <3>2. Total(a, N - (j - 1)) = a[N - (j - 1)].size + Total(a, N - j)
      BY <3>1, <1>9
    <3>3. a[N - (j - 1)].size \in Nat /\ Total(a, N - j) \in Nat /\ Total(a, N) \in Nat
      BY <1>1, <1>8, <3>1
    <3>4. Total(a, N - (j - 1)) <= Total(a, N)
      BY <2>2
    <3>5. Total(a, N - j) <= Total(a, N)
      BY <3>2, <3>3, <3>4, SMTT(30)
    <3> QED BY <3>5, SMTT(30)
  <2> HIDE DEF C
  <2> QED BY <1>1, <2>1, <2>2, Climb
<1>12. ASSUME NEW k \in 0 .. N PROVE Total(a, k) <= h[S]
  <2>1. N - k \in 0 .. N /\ N - (N - k) = k
    BY <1>1, SMTT(30)
  <2>2. Total(a, k) <= Total(a, N)
    BY <2>1, <1>11
  <2>3. Total(a, N) = h[S]
    BY <1>1, <1>3
  <2> QED BY <2>2, <2>3
<1>13. h[S] \in Nat
  BY <1>7
<1> QED
  BY <1>4, <1>6, <1>8, <1>9, <1>10, <1>12, <1>13 DEF N

---------------------------------------------------------------------------
(* Extract restores what CreateArchive packed.                             *)

\* The reasons for which Extract may refuse the archive a of CreateArchive, which wrote it
\* while the tree was edited n times.
Excuses(a, n) ==
  \/ Len(a) > MaxFiles
  \/ FoldFunction(+, 0, [i \in DOMAIN a |-> a[i].size]) > MaxBytes
  \/ \E e \in Range(a) : e.node.kind = "link" /\ ~validateSymlink(e.name, e.node.to)
  \/ n > 0 /\ \E e, f \in Range(a) :
       e.node.kind # "dir" /\ f.name # e.name /\ Within(f.name, e.name)

Excused == Excuses(archive, edits)

\* How many entries Extract has met.
Met == IF epc = "body" THEN idx ELSE idx - 1

\* The destination holds what the entries met so far say, and nothing else.
Following ==
  /\ seen = {archive[i].name : i \in 1 .. Met} /\ files = Met
  /\ DOMAIN dest = seen /\ dest = [p \in DOMAIN dest |-> dest[p]]
  /\ bytes = Total(archive, idx - 1)
  /\ \A i \in 1 .. idx - 1 : dest[archive[i].name] = archive[i].node

Restoring ==
  Own =>
    /\ epc # "idle" => wpc = "packed"
    /\ epc = "refused" => Excused
    /\ epc \in {"idle", "next", "body", "ok"} => Following
    /\ epc = "ok" => idx = Len(archive) + 1

\* The directories on the way to an entry all come before it.
LEMMA EarlierParents ==
  ASSUME Packing, Walking, Own, NEW i \in DOMAIN archive,
         NEW r \in Path \ {<<>>}, Within(archive[i].name, r), r # archive[i].name
  PROVE  \E j \in 1 .. i - 1 : archive[j].name = r
<1> DEFINE N == Len(archive)
           Early(m) == Within(archive[m].name, r) /\ r # archive[m].name
                         => \E j \in 1 .. m - 1 : archive[j].name = r
           C == {m \in 0 .. N : \A l \in 1 .. m : Early(l)}
<1>1. N \in Nat /\ DOMAIN archive = 1 .. N
  BY SeqFacts
<1>2. Written
  BY DEF Walking
<1>3. 0 \in C
  BY <1>1, SMTT(30)
<1>4. ASSUME NEW m \in 1 .. N, m - 1 \in C PROVE m \in C
  <2>1. SUFFICES ASSUME Within(archive[m].name, r), r # archive[m].name
                 PROVE  \E j \in 1 .. m - 1 : archive[j].name = r
    <3>1. \A l \in 1 .. m : l = m \/ l \in 1 .. m - 1
      BY <1>1, SMTT(30)
    <3> QED BY <1>1, <1>4, <2>1, <3>1, SMTT(30)
  <2> DEFINE n == archive[m].name
             d == Parent(n)
  <2>2. /\ n \in Seq(Name) \ {<<>>}
        /\ d = <<>> \/ \E j \in 1 .. m - 1 : archive[j].name = d
    BY <1>1, <1>2 DEF Written
  <2>3. n \in Path \ {<<>>}
    BY <2>2, NamesArePaths
  <2>4. d \in Path
    BY <2>3, Ends DEF Path
  <2>5. Within(d, r)
    BY <2>1, <2>3, WithinParent, SMTT(30)
  <2>6. d # <<>>
    <3> SUFFICES ASSUME d = <<>> PROVE FALSE
      OBVIOUS
    <3>1. Len(r) \in Nat /\ Len(<<>>) = 0 /\ Within(<<>>, r)
      BY <2>5, SeqIs DEF Path
    <3>2. Len(r) = 0
      BY <3>1, SMTT(30) DEF Within
    <3> QED BY <3>2, SeqEmpty, SMTT(30) DEF Path
  <2>7. PICK j \in 1 .. m - 1 : archive[j].name = d
    BY <2>2, <2>6
  <2>8. CASE d = r
    BY <2>7, <2>8
  <2>9. CASE d # r
    <3>1. Early(j)
      BY <1>4, <2>7
    <3>2. PICK l \in 1 .. j - 1 : archive[l].name = r
      BY <2>5, <2>7, <2>9, <3>1, SMTT(30)
    <3>3. l \in 1 .. m - 1
      BY <1>1, <2>7, <3>2, SMTT(30)
    <3> QED BY <3>2, <3>3, SMTT(30)
  <2> QED BY <2>8, <2>9
<1>5. \A m \in 0 .. N : m \in C
  <2> HIDE DEF C, N
  <2> QED BY <1>1, <1>3, <1>4, Climb
<1>6. Early(i)
  <2>1. i \in 1 .. N /\ i \in 0 .. N
    BY <1>1, SMTT(30)
  <2> QED BY <1>5, <2>1, SMTT(30)
<1> QED
  BY <1>6

\* What Extract finds when it reads an entry of CreateArchive.
LEMMA OwnEntry ==
  ASSUME Packing, Walking, Own, Following, epc = "next", idx \in 1 .. Len(archive)
  PROVE  /\ idx \in Nat /\ Met = idx - 1 /\ idx \in DOMAIN archive /\ NextEntry = archive[idx]
         /\ NextPath = NextEntry.name /\ safeArchivePath(NextEntry.name)
         /\ NextPath \in Seq(Name) \ {<<>>}
         /\ NextPath \notin seen /\ Parents(NextPath) \subseteq DOMAIN dest
         /\ DOMAIN Grown = DOMAIN dest /\ \A q \in DOMAIN dest : Grown[q] = dest[q]
         /\ NextEntry.node.kind \in {"file", "dir", "link"}
         /\ NextEntry.node.kind # "file" => NextEntry.size = 0
<1>1. /\ Len(archive) \in Nat /\ DOMAIN archive = 1 .. Len(archive)
  BY SeqFacts
<1>2. idx \in Nat /\ idx \in DOMAIN archive /\ Met = idx - 1 /\ NextEntry = archive[idx]
  BY <1>1, SMTT(30) DEF Met, NextEntry
<1>3. Written
  BY DEF Walking
<1>4. /\ NextEntry.name \in Seq(Name) \ {<<>>}
      /\ NextEntry.node.kind \in {"file", "dir", "link"}
      /\ NextEntry.node.kind # "file" => NextEntry.size = 0
  BY <1>2, <1>3 DEF Written
<1>5. safeArchivePath(NextEntry.name) /\ NextPath = NextEntry.name
  BY <1>4, NamesAreSafe DEF NextPath
<1>6. DOMAIN dest = seen /\ seen = {archive[i].name : i \in 1 .. idx - 1}
  BY <1>2 DEF Following
<1>7. NextPath \notin seen
  <2> SUFFICES ASSUME NextPath \in seen PROVE FALSE
    OBVIOUS
  <2>1. PICK i \in 1 .. idx - 1 : archive[i].name = NextPath
    BY <1>6
  <2>2. i \in DOMAIN archive /\ i # idx
    BY <1>1, <1>2, <2>1, SMTT(30)
  <2> QED BY <1>2, <1>3, <1>5, <2>1, <2>2, SMTT(30) DEF Written
<1>8. ASSUME NEW r \in Parents(NextPath) PROVE r \in DOMAIN dest
  <2>1. r \in Seq(Name) \ {<<>>} /\ r # NextPath /\ Within(NextPath, r)
    BY <1>4, <1>5, ParentsAre, NamesArePaths
  <2>2. r \in Path \ {<<>>}
    BY <2>1, NamesArePaths, SMTT(30)
  <2>3. \E j \in 1 .. idx - 1 : archive[j].name = r
    BY <1>2, <1>5, <2>1, <2>2, EarlierParents, SMTT(30)
  <2> QED BY <1>6, <2>3, SMTT(30)
<1>9. DOMAIN Grown = DOMAIN dest /\ \A q \in DOMAIN dest : Grown[q] = dest[q]
  <2>1. /\ DOMAIN Grown = DOMAIN dest \union Parents(NextPath)
        /\ \A q \in DOMAIN dest : Grown[q] = dest[q]
    BY WithParentsFacts DEF Grown
  <2> QED BY <1>8, <2>1
<1> QED
  BY <1>2, <1>4, <1>5, <1>7, <1>8, <1>9

\* A parent that is no directory: the tree was edited.
LEMMA OwnParents ==
  ASSUME Packing, Walking, Complete, Own, Following, epc = "next", idx \in 1 .. Len(archive),
         wpc = "packed", ~ensureSafeParents(dest, NextPath)
  PROVE  Excused
<1>1. /\ idx \in Nat /\ Met = idx - 1 /\ idx \in DOMAIN archive /\ NextEntry = archive[idx]
      /\ NextPath = NextEntry.name /\ NextPath \in Seq(Name) \ {<<>>}
  BY OwnEntry
<1>2. PICK q \in Parents(NextPath) : q \in DOMAIN dest /\ dest[q].kind # "dir"
  BY DEF ensureSafeParents
<1>3. q \in Seq(Name) \ {<<>>} /\ q # NextPath /\ Within(NextPath, q)
  BY <1>1, ParentsAre, NamesArePaths
<1>4. PICK j \in 1 .. idx - 1 : archive[j].name = q
  BY <1>1, <1>2, SMTT(30) DEF Following
<1>5. dest[q] = archive[j].node
  BY <1>4 DEF Following
<1>6. j \in DOMAIN archive
  BY <1>1, <1>4, SeqFacts, SMTT(30)
<1>7. edits # 0
  <2> SUFFICES ASSUME edits = 0 PROVE FALSE
    OBVIOUS
  <2>1. Faithful(j) /\ Faithful(idx)
    BY <1>1, <1>6 DEF Complete
  <2>2. archive[j].node = src[q] /\ NextPath \in DOMAIN src
    BY <1>1, <1>4, <2>1, SMTT(30) DEF Faithful
  <2>3. IsOnDisk(src)
    BY DEF Walking
  <2>4. q \in Path \ {<<>>}
    BY <1>3, NamesArePaths
  <2>5. src[q].kind = "dir"
    BY <1>3, <2>2, <2>3, <2>4, Ancestors, SMTT(30)
  <2> QED BY <1>2, <1>5, <2>2, <2>5
<1>8. edits > 0
  <2>1. edits \in Nat
    BY MaxEditsAssumption, SMTT(30) DEF Packing
  <2> QED BY <1>7, <2>1, SMTT(30)
<1>9. archive[j] \in Range(archive) /\ archive[idx] \in Range(archive)
  BY <1>1, <1>6 DEF Range
<1>10. /\ archive[j].node.kind # "dir" /\ archive[idx].name # archive[j].name
       /\ Within(archive[idx].name, archive[j].name)
  BY <1>1, <1>2, <1>3, <1>4, <1>5, SMTT(30)
<1> QED
  BY <1>8, <1>9, <1>10 DEF Excused, Excuses

\* What Extract refuses of an archive of CreateArchive, it refuses for one of the reasons.
LEMMA OwnRefusal ==
  ASSUME Packing, Walking, Complete, Extracting, Own, Following, wpc = "packed", next, epc' = "refused"
  PROVE  Excused
<1>1. epc = "next" /\ idx \in 1 .. Len(archive)
  BY NextCases
<1>2. /\ idx \in Nat /\ Met = idx - 1 /\ idx \in DOMAIN archive /\ NextEntry = archive[idx]
      /\ NextPath = NextEntry.name /\ safeArchivePath(NextEntry.name) /\ NextPath \notin seen
      /\ DOMAIN Grown = DOMAIN dest /\ DOMAIN dest = seen
      /\ NextEntry.node.kind \in {"file", "dir", "link"}
  BY <1>1, OwnEntry DEF Following
<1>3. \/ files + 1 > MaxFiles \/ exceedsSize(NextEntry) \/ ~ensureSafeParents(dest, NextPath)
      \/ ~creatable(Grown, NextPath, NextEntry.node)
  <2>1. ~(~safeArchivePath(NextEntry.name) \/ NextPath \in seen)
    BY <1>2
  <2>2. IF \/ files + 1 > MaxFiles \/ exceedsSize(NextEntry) \/ ~ensureSafeParents(dest, NextPath)
        THEN TRUE
        ELSE IF ~creatable(Grown, NextPath, NextEntry.node)
        THEN TRUE
        ELSE IF NextEntry.node.kind = "file" THEN epc' = "body" ELSE epc' = "next"
    BY <2>1 DEF next, NextEntry, NextPath, Grown
  <2>3. epc' = "refused"
    OBVIOUS
  <2> QED BY <2>2, <2>3
<1>4. archive \in Seq(Entries) /\ Len(archive) \in Nat /\ NextEntry.size \in Nat
  BY <1>1, EntryFacts, SeqFacts, SMTT(30) DEF Packing
<1>5. CASE files + 1 > MaxFiles
  <2>1. files = idx - 1
    BY <1>2 DEF Following
  <2>2. Len(archive) > MaxFiles
    BY <1>1, <1>2, <1>4, <1>5, <2>1, LimitsAssumption, SMTT(30)
  <2> QED BY <2>2 DEF Excused, Excuses
<1>6. CASE exceedsSize(NextEntry)
  <2> DEFINE F == FoldFunction(+, 0, [i \in DOMAIN archive |-> archive[i].size])
             T == Total(archive, idx)
             U == Total(archive, idx - 1)
             z == archive[idx].size
  <2>1. T = z + U /\ U \in Nat /\ T <= F /\ F \in Nat
    <3>1. idx \in 0 .. Len(archive) /\ idx - 1 \in 0 .. Len(archive)
      BY <1>1, <1>2, <1>4, SMTT(30)
    <3> QED BY <1>1, <1>4, <3>1, TotalFacts
  <2>2. bytes = U /\ z > MaxBytes - bytes
    BY <1>2, <1>6 DEF Following, exceedsSize
  <2>3. z \in Nat
    BY <1>2, <1>4
  <2> HIDE DEF F, T, U, z
  <2>4. F > MaxBytes
    BY <2>1, <2>2, <2>3, LimitsAssumption, SMTT(30)
  <2>5. FoldFunction(+, 0, [i \in DOMAIN archive |-> archive[i].size]) > MaxBytes
    BY <2>4 DEF F
  <2> QED BY <2>5 DEF Excused, Excuses
<1>7. CASE ~ensureSafeParents(dest, NextPath)
  BY <1>1, <1>7, OwnParents, SMTT(30)
<1>8. CASE ~creatable(Grown, NextPath, NextEntry.node)
  <2>1. NextEntry.node.kind = "link" /\ ~validateSymlink(NextPath, NextEntry.node.to)
    BY <1>2, <1>8 DEF creatable
  <2>2. archive[idx] \in Range(archive)
    BY <1>2 DEF Range
  <2> QED BY <1>2, <2>1, <2>2 DEF Excused, Excuses
<1> QED
  BY <1>3, <1>5, <1>6, <1>7, <1>8, SMTT(30)

\* One entry more.
LEMMA OneMore ==
  ASSUME NEW a, NEW k \in Nat \ {0}
  PROVE  {a[i].name : i \in 1 .. k} = {a[i].name : i \in 1 .. k - 1} \union {a[k].name}
<1>1. \A i : i \in 1 .. k <=> i \in 1 .. k - 1 \/ i = k
  BY SMTT(30)
<1> DEFINE A == 1 .. k
           B == 1 .. k - 1
<1> HIDE DEF A, B
<1>2. \A i : i \in A <=> i \in B \/ i = k
  BY <1>1 DEF A, B
<1>3. {a[i].name : i \in A} = {a[i].name : i \in B} \union {a[k].name}
  BY <1>2
<1> QED
  BY <1>3 DEF A, B

\* A turn of the loop on an archive of CreateArchive.
LEMMA RestoringNext ==
  ASSUME Packing, Walking, Complete, Extracting, Restoring, Own, next
  PROVE  Restoring'
<1>1. /\ RefusesName \/ RefusesEntry \/ RefusesNode \/ OpensFile \/ AddsNode
      /\ epc = "next" /\ idx \in 1 .. Len(archive) /\ UNCHANGED <<packVars, bytes>>
  BY NextCases
<1>2. wpc = "packed" /\ Following
  BY <1>1 DEF Restoring
<1>3. /\ idx \in Nat /\ Met = idx - 1 /\ idx \in DOMAIN archive /\ NextEntry = archive[idx]
      /\ NextPath = NextEntry.name /\ NextPath \notin seen
      /\ DOMAIN Grown = DOMAIN dest /\ \A q \in DOMAIN dest : Grown[q] = dest[q]
      /\ NextEntry.node.kind # "file" => NextEntry.size = 0
  BY <1>1, <1>2, OwnEntry
<1>4. archive' = archive /\ wpc' = wpc /\ edits' = edits /\ bytes' = bytes
  BY <1>1 DEF packVars
<1>5. CASE epc' = "refused"
  <2>1. Excused
    BY <1>2, <1>5, OwnRefusal
  <2>2. Excused'
    BY <1>4, <2>1 DEF Excused
  <2> QED BY <1>2, <1>4, <1>5, <2>2, SMTT(30) DEF Restoring
<1> DEFINE p == NextPath
           S == {archive[i].name : i \in 1 .. idx - 1}
<1>6. /\ S \union {p} = {archive[i].name : i \in 1 .. idx}
      /\ \A i \in 1 .. idx - 1 : archive[i].name \in S
  <2>1. idx \in Nat \ {0}
    BY <1>1, <1>3, SMTT(30)
  <2> QED BY <1>3, <2>1, OneMore
<1>7. /\ seen = S /\ DOMAIN dest = S /\ files = idx - 1 /\ bytes = Total(archive, idx - 1)
      /\ \A i \in 1 .. idx - 1 : dest[archive[i].name] = archive[i].node
  BY <1>2, <1>3 DEF Following
<1>8. ASSUME NEW n, dest' = With(Grown, p, n)
      PROVE  /\ DOMAIN dest' = S \union {p} /\ dest' = [q \in DOMAIN dest' |-> dest'[q]]
             /\ dest'[p] = n /\ \A i \in 1 .. idx - 1 : dest'[archive[i].name] = archive[i].node
  <2>1. DOMAIN dest' = S \union {p} /\ dest' = [q \in DOMAIN dest' |-> dest'[q]] /\ dest'[p] = n
    BY <1>3, <1>7, <1>8, SMTT(30) DEF With
  <2>2. ASSUME NEW i \in 1 .. idx - 1 PROVE dest'[archive[i].name] = archive[i].node
    <3>1. archive[i].name \in DOMAIN dest /\ archive[i].name # p
      BY <1>3, <1>6, <1>7
    <3>2. dest'[archive[i].name] = Grown[archive[i].name]
      BY <1>3, <1>8, <3>1, SMTT(30) DEF With
    <3> QED BY <1>3, <1>7, <3>1, <3>2, SMTT(30)
  <2> QED BY <2>1, <2>2
<1> HIDE DEF S
<1>9. Admits => seen' = S \union {p} /\ files' = idx
  BY <1>3, <1>7, SMTT(30) DEF Admits, Meets
<1>10. CASE OpensFile
  <2>1. /\ epc' = "body" /\ idx' = idx /\ seen' = S \union {p} /\ files' = idx
        /\ dest' = With(Grown, p, File(<<>>))
    BY <1>9, <1>10 DEF OpensFile
  <2>2. /\ DOMAIN dest' = S \union {p} /\ dest' = [q \in DOMAIN dest' |-> dest'[q]]
        /\ \A i \in 1 .. idx - 1 : dest'[archive[i].name] = archive[i].node
    BY <1>8, <2>1
  <2>3. Following'
    BY <1>4, <1>6, <1>7, <2>1, <2>2, SMTT(30) DEF Following, Met
  <2> QED BY <1>2, <1>4, <2>1, <2>3 DEF Restoring
<1>11. CASE AddsNode
  <2>1. p \notin DOMAIN Grown
    BY <1>3, <1>7
  <2>2. /\ epc' = "next" /\ idx' = idx + 1 /\ seen' = S \union {p} /\ files' = idx
        /\ dest' = With(Grown, p, NextEntry.node) /\ NextEntry.size = 0
    BY <1>3, <1>9, <1>11, <2>1, SMTT(30) DEF AddsNode
  <2>3. /\ DOMAIN dest' = S \union {p} /\ dest' = [q \in DOMAIN dest' |-> dest'[q]]
        /\ dest'[p] = NextEntry.node
        /\ \A i \in 1 .. idx - 1 : dest'[archive[i].name] = archive[i].node
    BY <1>8, <2>2
  <2>4. bytes' = Total(archive, idx)
    <3>1. archive \in Seq(Entries)
      BY DEF Packing
    <3>2. /\ Total(archive, idx) = archive[idx].size + Total(archive, idx - 1)
          /\ Total(archive, idx - 1) \in Nat
      <4>1. idx - 1 \in 0 .. Len(archive)
        BY <1>1, <3>1, SeqIs, SMTT(30)
      <4> QED BY <1>1, <3>1, <4>1, TotalFacts
    <3> QED BY <1>3, <1>4, <1>7, <2>2, <3>2, SMTT(30)
  <2>5. \A i \in 1 .. idx : dest'[archive[i].name] = archive[i].node
    <3>1. \A i \in 1 .. idx : i = idx \/ i \in 1 .. idx - 1
      BY <1>3, SMTT(30)
    <3> QED BY <1>3, <2>3, <3>1
  <2>6. idx' - 1 = idx
    BY <1>3, <2>2, SMTT(30)
  <2>7. Following'
    BY <1>4, <1>6, <2>2, <2>3, <2>4, <2>5, <2>6, SMTT(30) DEF Following, Met
  <2> QED BY <1>2, <1>4, <2>2, <2>7, SMTT(30) DEF Restoring
<1> QED
  BY <1>1, <1>5, <1>10, <1>11, SMTT(30) DEF RefusesName, RefusesEntry, RefusesNode

\* The contents of a file of an archive of CreateArchive.
LEMMA RestoringBody ==
  ASSUME Packing, Walking, Extracting, Restoring, Own, body
  PROVE  Restoring'
<1>1. epc = "body" /\ UNCHANGED <<packVars, seen, files>>
  BY DEF body
<1>2. wpc = "packed" /\ Following
  BY <1>1 DEF Restoring
<1>3. archive' = archive /\ wpc' = wpc /\ seen' = seen /\ files' = files
  BY <1>1 DEF packVars
<1>4. /\ idx <= Len(archive) /\ NextEntry.node.kind = "file"
      /\ NextPath \in DOMAIN dest
  BY <1>1 DEF Extracting, NextEntry, NextPath
<1>5. /\ archive \in Seq(Entries) /\ Len(archive) \in Nat /\ DOMAIN archive = 1 .. Len(archive)
      /\ idx \in Nat
  BY SeqFacts, SMTT(30) DEF Packing, Extracting
<1>6. idx \in 1 .. Len(archive) /\ idx \in DOMAIN archive
  BY <1>4, <1>5, SMTT(30) DEF Extracting
<1>7. NextEntry \in Entries /\ NextEntry.size \in Nat /\ NextEntry.node \in Node
  BY <1>6, EntryFacts
<1>8. NextEntry = archive[idx] /\ NextPath = NextEntry.name
  <2>1. NextEntry.name \in Seq(Name) \ {<<>>}
    BY <1>6 DEF Walking, Written, NextEntry
  <2> QED BY <2>1, NamesAreSafe DEF NextPath, NextEntry
<1>9. CASE epc' # "next"
  <2>1. epc' = "failed"
    BY <1>9 DEF body
  <2> QED BY <1>2, <1>3, <2>1, SMTT(30) DEF Restoring
<1>10. CASE epc' = "next"
  <2>1. /\ idx' = idx + 1 /\ bytes' = bytes + NextEntry.size
        /\ dest' = [dest EXCEPT ![NextPath] = File(SubSeq(NextEntry.node.data, 1, NextEntry.size))]
    BY <1>10 DEF body, NextEntry, NextPath
  <2>2. Len(NextEntry.node.data) = NextEntry.size
    BY <1>2, <1>4, <1>6, <1>8, SMTT(30) DEF Packing, IsWhole
  <2>3. NextEntry.node.data \in Seq(Nat) /\ NextEntry.node = File(NextEntry.node.data)
    BY <1>4, <1>7 DEF Node, File
  <2>4. SubSeq(NextEntry.node.data, 1, NextEntry.size) = NextEntry.node.data
    BY <2>2, <2>3, PrefixNext, SMTT(30)
  <2>5. dest' = [dest EXCEPT ![NextPath] = NextEntry.node]
    BY <2>1, <2>3, <2>4
  <2>6. /\ DOMAIN dest' = DOMAIN dest /\ dest' = [q \in DOMAIN dest' |-> dest'[q]]
        /\ dest'[NextPath] = NextEntry.node
        /\ \A q \in DOMAIN dest : q # NextPath => dest'[q] = dest[q]
    BY <1>4, <2>5
  <2>7. /\ seen = {archive[i].name : i \in 1 .. idx} /\ files = idx /\ DOMAIN dest = seen
        /\ bytes = Total(archive, idx - 1)
        /\ \A i \in 1 .. idx - 1 : dest[archive[i].name] = archive[i].node
    BY <1>1, <1>2 DEF Following, Met
  <2>8. ASSUME NEW i \in 1 .. idx PROVE dest'[archive[i].name] = archive[i].node
    <3>1. CASE i = idx
      BY <1>8, <2>6, <3>1, SMTT(30)
    <3>2. CASE i # idx
      <4>1. i \in 1 .. idx - 1 /\ i \in DOMAIN archive
        BY <1>5, <1>6, <3>2, SMTT(30)
      <4>2. archive[i].name # NextPath
        BY <1>6, <1>8, <3>2, <4>1, SMTT(30) DEF Walking, Written
      <4>3. archive[i].name \in DOMAIN dest
        BY <2>7
      <4> QED BY <2>6, <2>7, <4>1, <4>2, <4>3, SMTT(30)
    <3> QED BY <3>1, <3>2
  <2>9. bytes' = Total(archive, idx)
    <3>1. /\ Total(archive, idx) = archive[idx].size + Total(archive, idx - 1)
          /\ Total(archive, idx - 1) \in Nat
      <4>1. idx - 1 \in 0 .. Len(archive)
        BY <1>5, <1>6, SMTT(30)
      <4> QED BY <1>5, <1>6, <4>1, TotalFacts
    <3> QED BY <1>7, <1>8, <2>1, <2>7, <3>1, SMTT(30)
  <2>10. idx' - 1 = idx
    BY <1>5, <2>1, SMTT(30)
  <2>11. Following'
    BY <1>3, <1>10, <2>6, <2>7, <2>8, <2>9, <2>10, SMTT(30) DEF Following, Met
  <2> QED BY <1>2, <1>3, <1>10, <2>11, SMTT(30) DEF Restoring
<1> QED
  BY <1>9, <1>10

\* The property holds of every state in which the invariants do.
LEMMA RestoredIs ==
  ASSUME Packing, Walking, Complete, Extracting, Counting, Restoring
  PROVE  RestoresTree
<1>1. Own /\ epc = "refused" => Excused
  BY DEF Restoring
<1>2. ASSUME Own, epc = "ok", edits = 0
      PROVE  dest = Packed(src) /\ files = Cardinality(DOMAIN dest)
  <2>1. wpc = "packed" /\ Following /\ idx = Len(archive) + 1
    BY <1>2 DEF Restoring
  <2>2. Len(archive) \in Nat /\ DOMAIN archive = 1 .. Len(archive)
    BY SeqFacts
  <2>3. Met = Len(archive) /\ idx - 1 = Len(archive)
    BY <1>2, <2>1, <2>2, SMTT(30) DEF Met
  <2>4. /\ seen = {archive[i].name : i \in DOMAIN archive} /\ DOMAIN dest = seen
        /\ dest = [p \in DOMAIN dest |-> dest[p]]
        /\ \A i \in DOMAIN archive : dest[archive[i].name] = archive[i].node
    BY <2>1, <2>2, <2>3 DEF Following
  <2>5. todo = <<>> /\ DOMAIN todo = {}
    BY <1>2, <2>1, SMTT(30) DEF Walking, Apart
  <2>6. /\ \A i \in DOMAIN archive : Faithful(i)
        /\ \A p \in DOMAIN src : isExcluded(p) \/ Archived(p)
    BY <1>2, <2>1, <2>5 DEF Complete, Covered
  <2>7. \A i \in DOMAIN archive :
          /\ archive[i].name \in DOMAIN src /\ ~isExcluded(archive[i].name)
          /\ archive[i].node = src[archive[i].name]
    BY <2>1, <2>6 DEF Faithful
  <2> DEFINE K == {p \in DOMAIN src : ~isExcluded(p)}
  <2>8. DOMAIN dest = K
    BY <2>4, <2>6, <2>7, SMTT(30) DEF Archived
  <2>9. ASSUME NEW p \in K PROVE dest[p] = src[p]
    <3>1. PICK i \in DOMAIN archive : archive[i].name = p
      BY <2>6 DEF Archived
    <3> QED BY <2>4, <2>7, <3>1
  <2>10. dest = [p \in K |-> src[p]]
    <3> HIDE DEF K
    <3> QED BY <2>4, <2>8, <2>9
  <2>11. Packed(src) = [p \in K |-> src[p]]
    BY DEF Packed, Restrict
  <2>12. files = Cardinality(DOMAIN dest)
    BY <1>2, <2>4 DEF Counting
  <2> QED BY <2>10, <2>11, <2>12
<1> QED
  BY <1>1, <1>2 DEF RestoresTree, Excused, Excuses

---------------------------------------------------------------------------
(* The way of the tree through the archive.                                *)

\* Before the walk nothing is written and nothing is to be visited.
LEMMA InitWalking == TInit => Walking /\ Complete
<1> SUFFICES ASSUME TInit PROVE Walking /\ Complete
  OBVIOUS
<1>1. /\ todo = <<>> /\ wpc \in {"start", "foreign"} /\ (Own => archive = <<>>)
      /\ src \in Trees \/ src = <<>>
  BY DEF TInit, Init, Own
<1>2. IsOnDisk(src)
  <2>1. IsOnDisk(<<>>)
    BY FS_EmptySet, SMTT(30) DEF IsOnDisk, IsTree
  <2> QED BY <1>1, <2>1, TreesAssumption
<1>3. Own => Pending /\ Written /\ Apart
  BY <1>1, SMTT(30) DEF Pending, Written, Apart, AtHead
<1> QED
  BY <1>1, <1>2, <1>3 DEF Walking, Complete

\* Every step preserves Walking and Complete: the walk is over, or has not begun, when
\* anything but CreateArchive and the user acts.
LEMMA WalkingKept ==
  ASSUME Preparing, Control, Walking, Complete, [TNext]_vars
  PROVE  Walking' /\ Complete'
<1>1. CASE pack
  BY <1>1, WalkingStep, CompleteStep DEF pack, Preparing
<1>2. CASE args
  <2>1. wpc = "start" /\ UNCHANGED <<src, edits, wpc, todo, archive>>
    BY <1>2 DEF args, Control
  <2>2. Complete'
    BY <2>1 DEF Complete
  <2>3. Walking'
    BY <2>1 DEF Walking, IsOnDisk, IsTree, IsDir, Has, Own, Pending, Written, Apart, AtHead, Archived
  <2> QED BY <2>2, <2>3
<1>3. CASE ~pack /\ ~args
  <2>1. UNCHANGED <<exclusions, src, edits, wpc, todo, archive>>
    BY <1>3, ExtractOnly
    DEF TNext, info, packed, receive, open, extract, uploadSend, uploadFail, uploadDone,
        transportStops, answer, uploadResult, boot, write, jobEnd, sendArtifacts, sendResult,
        writeArtifact, complete, lose, vars, packVars
  <2>2. Complete'
    BY <2>1 DEF Complete, Own, Faithful, Covered, Archived, isExcluded
  <2>3. Walking'
    BY <2>1 DEF Walking, IsOnDisk, IsTree, IsDir, Has, Own, Pending, Written, Apart, AtHead, Archived
  <2> QED BY <2>2, <2>3
<1> QED
  BY <1>1, <1>2, <1>3

\* Before Extract has met an entry nothing is there.
LEMMA NothingMet ==
  ASSUME NEW a \in Seq(Entries)
  PROVE  {a[i].name : i \in 1 .. 0} = {} /\ Total(a, 0) = 0
<1>1. Total(a, 0) = 0
  BY TotalFacts
<1>2. {a[i].name : i \in 1 .. 0} = {}
  BY SMTT(30)
<1> QED
  BY <1>1, <1>2

\* Extract starts with nothing.
LEMMA InitRestoring == TInit => Restoring
<1> SUFFICES ASSUME TInit PROVE Restoring
  OBVIOUS
<1>1. dest = <<>> /\ epc = "idle" /\ idx = 1 /\ bytes = 0 /\ files = 0 /\ seen = {}
  BY DEF TInit, Init
<1>2. archive \in Seq(Entries)
  BY InitPreparing DEF Preparing, Packing
<1>3. {archive[i].name : i \in 1 .. 0} = {} /\ Total(archive, 0) = 0
  BY <1>2, NothingMet
<1>4. Following
  <2>1. Met = 0 /\ idx - 1 = 0 /\ 1 .. 0 = {} /\ dest = [p \in DOMAIN dest |-> dest[p]] /\ DOMAIN dest = {}
    BY <1>1, SMTT(30) DEF Met
  <2> QED BY <1>1, <1>3, <2>1 DEF Following
<1> QED
  BY <1>1, <1>4 DEF Restoring

\* Every step preserves Restoring.
LEMMA RestoringKept ==
  ASSUME Preparing, Control, Extracting, Walking, Complete, Restoring, [TNext]_vars
  PROVE  Restoring'
<1>1. CASE extract
  <2>1. UNCHANGED packVars
    BY <1>1, ExtractOnly DEF extract
  <2>2. wpc' = wpc /\ archive' = archive /\ edits' = edits
    BY <2>1 DEF packVars
  <2>3. CASE ~Own
    BY <2>2, <2>3 DEF Own, Restoring
  <2>4. CASE Own /\ next
    BY <2>4, RestoringNext DEF Preparing
  <2>5. CASE Own /\ body
    BY <2>5, RestoringBody DEF Preparing
  <2>6. CASE Own /\ (end \/ breakOff)
    <3>1. /\ epc = "next" /\ UNCHANGED <<idx, seen, files, bytes, dest>>
          /\ epc' = "failed" \/ (epc' = "ok" /\ idx > Len(archive))
      BY <2>6 DEF end, breakOff
    <3>2. wpc = "packed" /\ Following
      BY <2>6, <3>1 DEF Restoring
    <3>3. epc' = "ok" => idx' = Len(archive') + 1
      <4>1. Len(archive) \in Nat /\ idx \in 1 .. Len(archive) + 1
        BY SeqIs DEF Preparing, Packing, Extracting
      <4> QED BY <2>2, <3>1, <4>1, SMTT(30)
    <3>4. Following'
      BY <2>2, <3>1, <3>2 DEF Following, Met
    <3> QED BY <2>2, <3>1, <3>2, <3>3, <3>4 DEF Restoring
  <2> QED BY <1>1, <2>3, <2>4, <2>5, <2>6 DEF extract, Extract
<1>2. CASE receive
  <2>1. /\ epc = "idle" /\ epc' = "next" /\ UNCHANGED <<idx, seen, files, bytes, dest>>
        /\ archive' = archive /\ wpc' = wpc /\ wpc \in {"packed", "foreign"}
    BY <1>2 DEF receive, open, packVars, Control
  <2>2. ASSUME Own PROVE Following'
    BY <2>1, <2>2 DEF Restoring, Following, Met
  <2> QED BY <2>1, <2>2 DEF Restoring, Own
<1>3. CASE pack
  <2>1. UNCHANGED extractVars /\ ypc = "pack"
    BY <1>3, PackOnly DEF pack
  <2>2. epc = "idle" /\ idx = 1 /\ epc' = epc /\ UNCHANGED <<idx, seen, files, bytes, dest>>
    BY <2>1 DEF Control, Extracting, extractVars
  <2>3. Own
    <3>1. fail \/ begin \/ visit \/ copy \/ descend \/ finish \/ edit
      BY <1>3 DEF pack, Pack
    <3>2. visit => wpc = "visit"
      BY DEF visit
    <3>3. edit => wpc \in {"visit", "copy", "descend"}
      BY SMTT(30) DEF edit
    <3>4. fail \/ begin \/ copy \/ descend \/ finish => wpc # "foreign"
      BY DEF fail, begin, copy, descend, finish
    <3> QED BY <3>1, <3>2, <3>3, <3>4 DEF Own
  <2>4. archive \in Seq(Entries) /\ archive' \in Seq(Entries)
    BY PreparingKept DEF Preparing, Packing
  <2>5. /\ {archive[i].name : i \in 1 .. 0} = {} /\ Total(archive, 0) = 0
        /\ {archive'[i].name : i \in 1 .. 0} = {} /\ Total(archive', 0) = 0
    BY <2>4, NothingMet
  <2>6. idx - 1 = 0 /\ Met = 0 /\ Met' = 0 /\ 1 .. 0 = {}
    BY <2>2, SMTT(30) DEF Met
  <2>7. /\ seen = {} /\ files = 0 /\ bytes = 0
        /\ DOMAIN dest = seen /\ dest = [p \in DOMAIN dest |-> dest[p]]
    BY <2>2, <2>3, <2>5, <2>6 DEF Restoring, Following
  <2>8. Following'
    BY <2>2, <2>5, <2>6, <2>7 DEF Following
  <2> QED BY <2>2, <2>8 DEF Restoring
<1>4. CASE ~extract /\ ~receive /\ ~pack
  <2>1. UNCHANGED <<extractVars, archive, edits, wpc>>
    BY <1>4 DEF TNext, args, info, packed, uploadSend, uploadFail, uploadDone, transportStops, answer,
                uploadResult, boot, write, jobEnd, sendArtifacts, sendResult, writeArtifact, complete,
                lose, vars, packVars
  <2> QED BY <2>1 DEF extractVars, Restoring, Own, Excused, Following, Met
<1> QED
  BY <1>1, <1>2, <1>3, <1>4

---------------------------------------------------------------------------
(* The theorem.                                                            *)

\* The invariant with the way of the tree through the archive.
TreeInv == IInv /\ Walking /\ Complete /\ Restoring

\* What CreateArchive packs of a tree nobody edits is what Extract restores, the
\* exclusions apart; and Extract refuses an archive of CreateArchive only for a limit, a
\* link out of the tree, or an entry that changed its kind during the walk.
THEOREM TreeIsRestored == TSpec => []RestoresTree
<1>1. TInit => Walking /\ Complete /\ Restoring
  BY InitWalking, InitRestoring
<1>2. TreeInv /\ [TNext]_vars => Walking' /\ Complete' /\ Restoring'
  BY WalkingKept, RestoringKept DEF TreeInv, IInv
<1>3. TreeInv => RestoresTree
  BY RestoredIs DEF TreeInv, IInv, Preparing
<1> QED
  BY <1>1, <1>2, <1>3, InvariantHolds, PTL DEF TSpec, TreeInv
===========================================================================
