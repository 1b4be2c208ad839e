--------------------------- MODULE WorkspaceProofs ------------------------
(***************************************************************************)
(* What the operations on paths and trees return, for every path and tree, *)
(* and what the steps of CreateArchive and Extract preserve.               *)
(***************************************************************************)
EXTENDS Workspace, FiniteSetTheorems, TLAPS

\* Leaves are for Zenon unless they name another prover.
USE ZenonT(30)

\* An entry of a directory, with its type.
Item == [path : Path \ {<<>>}, dir : BOOLEAN]

Fits(e) == e.node.kind = "file" => Len(e.node.data) <= e.size

\* What CreateArchive works on.  Only the last entry of an unfinished archive may have
\* less than its header announces, and none ever has more.
Packing ==
  /\ IsTree(src) /\ edits \in 0 .. MaxEdits /\ tmp \in BOOLEAN
  /\ exclusions \in Seq(Path)
  /\ todo \in Seq(Item) /\ archive \in Seq(Entries)
  /\ wpc \in {"start", "visit", "copy", "descend", "packed", "failed", "foreign"}
  /\ wpc \in {"copy", "descend"} => todo # <<>>
  /\ wpc = "copy" => archive # <<>>
  /\ \A i \in DOMAIN archive : Fits(archive[i])
  /\ \A i \in DOMAIN archive :
       i < Len(archive) \/ wpc \in {"packed", "foreign"} => IsWhole(archive[i])

\* The files and links of the tree; directories may be there because an entry implies them.
Leaves(t) == {p \in DOMAIN t : t[p].kind # "dir"}

\* What Extract has created so far.
Extracting ==
  /\ IsTree(dest) /\ TreeIsReal
  /\ epc \in {"idle", "next", "body", "ok", "refused", "failed"}
  /\ idx \in 1 .. Len(archive) + 1 /\ bytes \in 0 .. MaxBytes /\ files \in 0 .. MaxFiles + 1
  /\ epc \in {"idle", "next", "body", "ok"} => files <= MaxFiles
  /\ epc = "idle" => idx = 1
  /\ epc = "body" =>
       LET e == archive[idx]
       IN /\ idx <= Len(archive) /\ e.node.kind = "file" /\ e.size <= MaxBytes - bytes
          /\ Clean(e.name) \in DOMAIN dest /\ dest[Clean(e.name)] = File(<<>>)

\* What it has counted.
Counting ==
  /\ Bytes(dest) <= MaxBytes
  /\ epc \in {"idle", "next", "body", "ok"} =>
       /\ bytes = Bytes(dest)
       /\ seen \subseteq DOMAIN dest /\ Leaves(dest) \subseteq seen
       /\ files = Cardinality(seen)
  /\ Cardinality(Leaves(dest)) <= MaxFiles

---------------------------------------------------------------------------
(* Sequences.                                                              *)

\* A sequence is a function on an initial interval.
LEMMA SeqIs ==
  ASSUME NEW S, NEW s \in Seq(S)
  PROVE  Len(s) \in Nat /\ s \in [1 .. Len(s) -> S] /\ DOMAIN s = 1 .. Len(s)
  BY SMTT(30)

\* Its elements.
LEMMA SeqElement ==
  ASSUME NEW S, NEW s \in Seq(S), NEW n \in 1 .. Len(s)
  PROVE  s[n] \in S
  BY SMTT(30)

\* Only the empty sequence has length zero.
LEMMA SeqEmpty ==
  ASSUME NEW S
  PROVE  /\ <<>> \in Seq(S) /\ Len(<<>>) = 0
         /\ \A s \in Seq(S) : s # <<>> => Len(s) \in Nat \ {0}
  BY SMTT(30)

\* Sequences with the same elements are equal.
LEMMA SeqSame ==
  ASSUME NEW S, NEW s \in Seq(S), NEW t \in Seq(S), Len(s) = Len(t),
         \A i \in 1 .. Len(s) : s[i] = t[i]
  PROVE  s = t
  BY SMTT(30)

\* The first element and the rest.
LEMMA SeqTail ==
  ASSUME NEW S, NEW s \in Seq(S), s # <<>>
  PROVE  /\ Head(s) \in S /\ Tail(s) \in Seq(S) /\ Len(Tail(s)) = Len(s) - 1
         /\ \A i \in 1 .. Len(Tail(s)) : Tail(s)[i] = s[i + 1]
  BY SMTT(30)

\* One more element at the end.
LEMMA SeqAppend ==
  ASSUME NEW S, NEW s \in Seq(S), NEW e \in S
  PROVE  /\ Append(s, e) \in Seq(S) /\ Append(s, e) # <<>> /\ Len(Append(s, e)) = Len(s) + 1
         /\ \A i \in 1 .. Len(s) : Append(s, e)[i] = s[i]
         /\ Append(s, e)[Len(s) + 1] = e
  BY SMTT(30)

\* Two sequences, one after the other.
LEMMA SeqConcat ==
  ASSUME NEW S, NEW s \in Seq(S), NEW t \in Seq(S)
  PROVE  /\ s \o t \in Seq(S) /\ Len(s \o t) = Len(s) + Len(t)
         /\ \A i \in 1 .. Len(s) + Len(t) :
              (s \o t)[i] = IF i <= Len(s) THEN s[i] ELSE t[i - Len(s)]
  BY SMTT(30)

\* A part of a sequence.
LEMMA SeqPart ==
  ASSUME NEW S, NEW s, NEW m \in Int, NEW n \in Int, \A i \in m .. n : s[i] \in S
  PROVE  /\ SubSeq(s, m, n) \in Seq(S)
         /\ Len(SubSeq(s, m, n)) = IF m <= n THEN n - m + 1 ELSE 0
         /\ \A i \in 1 .. n - m + 1 : SubSeq(s, m, n)[i] = s[m + i - 1]
  BY SMTT(30)

---------------------------------------------------------------------------
(* Induction and recursion over the natural numbers.                       *)

\* Every set of natural numbers that is not empty has a least element.
LEMMA Least ==
  ASSUME NEW B, B \subseteq Nat, B # {}
  PROVE  \E m \in B : \A k \in B : m <= k
<1>1. \E x \in B : \A y \in B : ~ (<<y, x>> \in OpToRel(<, Nat))
  BY NatLessThanWellFounded, WFMin
<1>2. PICK x \in B : \A y \in B : ~ (<<y, x>> \in OpToRel(<, Nat))
  BY <1>1
<1>3. \A y \in B : ~ (y < x)
  BY <1>2 DEF OpToRel
<1> QED
  BY <1>3, SMTT(30)

\* A property of numbers that a step hands on holds of all of them: the set C of the
\* numbers that have it.
LEMMA Climb ==
  ASSUME NEW N \in Nat, NEW C, 0 \in C, \A i \in 1 .. N : i - 1 \in C => i \in C
  PROVE  \A i \in 0 .. N : i \in C
<1> DEFINE B == {i \in 0 .. N : i \notin C}
<1> SUFFICES ASSUME B # {} PROVE FALSE
  OBVIOUS
<1>0. B \subseteq Nat
  BY SMTT(30)
<1>1. PICK m \in B : \A k \in B : m <= k
  <2> HIDE DEF B
  <2> QED BY <1>0, Least
<1>2. m \in 1 .. N /\ m - 1 \in 0 .. N
  BY SMTT(30)
<1>3. m - 1 \notin B
  BY <1>1, <1>2, SMTT(30)
<1> QED
  BY <1>2, <1>3

\* f is what the recursion over 0 .. N with the base b and the step g defines.
Solution(f, T, b, N, g) ==
  f \in [0 .. N -> T] /\ f[0] = b /\ \A i \in 1 .. N : f[i] = g[<<f[i - 1], i>>]

\* A recursion over 0 .. N has a solution.
LEMMA Recursion ==
  ASSUME NEW T, NEW b \in T, NEW N \in Nat, NEW g \in [T \X (1 .. N) -> T]
  PROVE  \E f : Solution(f, T, b, N, g)
<1> DEFINE Solves(f, n) == f[0] = b /\ \A i \in 1 .. n : f[i] = g[<<f[i - 1], i>>]
           C == {n \in 0 .. N : \E f \in [0 .. n -> T] : Solves(f, n)}
<1>1. 0 \in C
  <2>1. [i \in 0 .. 0 |-> b] \in [0 .. 0 -> T] /\ Solves([i \in 0 .. 0 |-> b], 0)
    BY SMTT(30)
  <2>2. \E f \in [0 .. 0 -> T] : Solves(f, 0)
    <3> HIDE DEF Solves
    <3> QED BY <2>1
  <2> QED BY <2>2, SMTT(30)
<1>2. ASSUME NEW n \in 1 .. N, n - 1 \in C PROVE n \in C
  <2>1. PICK f \in [0 .. n - 1 -> T] : Solves(f, n - 1)
    BY <1>2
  <2> DEFINE h == [i \in 0 .. n |-> IF i = n THEN g[<<f[n - 1], n>>] ELSE f[i]]
  <2>2. f[n - 1] \in T /\ g[<<f[n - 1], n>>] \in T
    BY SMTT(30)
  <2>3. h \in [0 .. n -> T]
    BY <2>2, SMTT(30)
  <2>4. h[0] = b
    BY <2>1, SMTT(30)
  <2>5. ASSUME NEW i \in 1 .. n PROVE h[i] = g[<<h[i - 1], i>>]
    <3>1. i - 1 \in 0 .. n /\ i - 1 # n /\ h[i - 1] = f[i - 1]
      BY SMTT(30)
    <3>2. CASE i = n
      BY <3>1, <3>2, SMTT(30)
    <3>3. CASE i # n
      <4>1. i \in 1 .. n - 1 /\ h[i] = f[i]
        BY <3>3, SMTT(30)
      <4> QED BY <4>1, <3>1, <2>1
    <3> QED BY <3>2, <3>3
  <2>6. Solves(h, n)
    BY <2>4, <2>5
  <2> HIDE DEF h, Solves
  <2> QED BY <2>3, <2>6, SMTT(30)
<1> HIDE DEF C
<1>3. N \in C
  BY <1>1, <1>2, Climb, SMTT(30)
<1> QED
  BY <1>3 DEF C, Solution

---------------------------------------------------------------------------
(* Paths.                                                                  *)

\* The directory and the last component of a path that is not empty.
LEMMA Ends ==
  ASSUME NEW S, NEW p \in Seq(S), p # <<>>
  PROVE  /\ Parent(p) \in Seq(S) /\ Base(p) \in S
         /\ Len(Parent(p)) = Len(p) - 1 /\ Len(p) >= 1
         /\ \A i \in 1 .. Len(p) - 1 : Parent(p)[i] = p[i]
<1>1. Len(p) \in Nat \ {0} /\ \A i \in 1 .. Len(p) : p[i] \in S
  BY SeqEmpty, SeqElement, SeqIs
<1>2. \A i \in 1 .. Len(p) - 1 : p[i] \in S
  BY <1>1, SMTT(30)
<1>3. /\ SubSeq(p, 1, Len(p) - 1) \in Seq(S)
      /\ Len(SubSeq(p, 1, Len(p) - 1)) = IF 1 <= Len(p) - 1 THEN (Len(p) - 1) - 1 + 1 ELSE 0
      /\ \A i \in 1 .. (Len(p) - 1) - 1 + 1 : SubSeq(p, 1, Len(p) - 1)[i] = p[1 + i - 1]
  BY <1>1, <1>2, SeqPart, SMTT(30)
<1>4. Parent(p) = SubSeq(p, 1, Len(p) - 1) /\ Base(p) = p[Len(p)]
  BY DEF Parent, Base
<1>5. Len(Parent(p)) = Len(p) - 1
  <2> DEFINE n == Len(p)
             m == Len(SubSeq(p, 1, n - 1))
  <2>1. n \in Nat \ {0} /\ m = IF 1 <= n - 1 THEN (n - 1) - 1 + 1 ELSE 0
    BY <1>1, <1>3
  <2>2. Len(Parent(p)) = m
    BY <1>4
  <2> HIDE DEF n, m
  <2>3. m = n - 1
    BY <2>1, SMTT(30)
  <2> QED BY <2>2, <2>3 DEF n
<1>6. ASSUME NEW i \in 1 .. Len(p) - 1 PROVE Parent(p)[i] = p[i]
  <2>1. i \in 1 .. (Len(p) - 1) - 1 + 1 /\ 1 + i - 1 = i
    BY <1>1, SMTT(30)
  <2> QED BY <1>3, <1>4, <2>1
<1>7. Base(p) \in S /\ Len(p) >= 1
  BY <1>1, <1>4, SMTT(30)
<1> QED
  BY <1>3, <1>4, <1>5, <1>6, <1>7

\* A path with one more component is a path.
LEMMA AppendIsPath ==
  ASSUME NEW p \in Path, NEW c \in STRING
  PROVE  Append(p, c) \in Path \ {<<>>}
<1>1. Append(p, c) \in Seq(STRING) /\ Append(p, c) # <<>>
  BY SeqAppend DEF Path
<1> QED
  BY <1>1 DEF Path

\* path.Clean takes paths to paths, one component at a time.
LEMMA StepIsPath ==
  ASSUME NEW at \in Path, NEW c \in STRING
  PROVE  PathStep(at, c) \in Path
<1>1. at # <<>> => Parent(at) \in Path
  BY Ends DEF Path
<1>2. Append(at, c) \in Path
  BY AppendIsPath
<1> QED
  BY <1>1, <1>2 DEF PathStep

\* filepath.Clean returns a path.
LEMMA CleanIsPath ==
  ASSUME NEW p \in Path
  PROVE  Clean(p) \in Path
<1> DEFINE N == Len(p)
           E(h) == h = [i \in 0 .. Len(p) |-> IF i = 0 THEN <<>> ELSE PathStep(h[i - 1], p[i])]
           at == CHOOSE h : E(h)
           g == [x \in Path \X (1 .. N) |-> PathStep(x[1], p[x[2]])]
<1>1. N \in Nat /\ \A i \in 1 .. N : p[i] \in STRING
  BY SeqIs, SeqElement DEF Path
<1>2. g \in [Path \X (1 .. N) -> Path]
  BY <1>1, StepIsPath
<1>3. <<>> \in Path
  BY SMTT(30) DEF Path
<1>4. \E f : Solution(f, Path, <<>>, N, g)
  <2> HIDE DEF g, N
  <2> QED BY <1>1, <1>2, <1>3, Recursion
<1>5. PICK f \in [0 .. N -> Path] : f[0] = <<>> /\ \A i \in 1 .. N : f[i] = g[<<f[i - 1], i>>]
  <2> HIDE DEF g, N
  <2> QED BY <1>4 DEF Solution
<1>6. \A i \in 1 .. N : f[i] = PathStep(f[i - 1], p[i])
  <2> TAKE i \in 1 .. N
  <2>1. f[i - 1] \in Path /\ g[<<f[i - 1], i>>] = PathStep(f[i - 1], p[i])
    BY <1>1, SMTT(30)
  <2> QED BY <2>1, <1>5
<1>7. E(f)
  BY <1>1, <1>5, <1>6, SMTT(30)
<1>8. E(at)
  BY <1>7
<1>9. Clean(p) = at[N]
  BY DEF Clean
<1> DEFINE C == {i \in 0 .. N : at[i] \in Path}
<1> HIDE DEF at
<1>10. 0 \in C
  BY <1>8, <1>3, <1>1, SMTT(30)
<1>11. ASSUME NEW i \in 1 .. N, i - 1 \in C PROVE i \in C
  <2>1. at[i] = PathStep(at[i - 1], p[i])
    BY <1>8, <1>1, SMTT(30)
  <2>2. at[i - 1] \in Path /\ p[i] \in STRING
    BY <1>11, <1>1
  <2>3. at[i] \in Path
    BY <2>1, <2>2, StepIsPath
  <2> QED BY <2>3, SMTT(30)
<1>12. N \in C
  <2> HIDE DEF C, N
  <2>1. \A i \in 0 .. N : i \in C
    BY <1>10, <1>11, <1>1, Climb
  <2> QED BY <2>1, <1>1, SMTT(30)
<1> QED
  BY <1>9, <1>12 DEF C

\* The parents of a path are finitely many paths; with each of them the one that is a
\* component shorter is another, until nothing is left.
LEMMA ParentFacts ==
  ASSUME NEW p \in Path \ {<<>>}
  PROVE  /\ Parents(p) \subseteq Path \ {<<>>} /\ IsFiniteSet(Parents(p))
         /\ Parent(p) = <<>> \/ Parent(p) \in Parents(p)
         /\ \A q \in Parents(p) : Parent(q) = <<>> \/ Parent(q) \in Parents(p)
<1> DEFINE N == Len(p) - 1
           f == [l \in 1 .. N |-> SubSeq(p, 1, l)]
<1>1. N \in Nat /\ N < Len(p) /\ Len(p) \in Nat /\ \A i \in 1 .. N : p[i] \in STRING
  <2>1. Len(p) \in Nat \ {0} /\ \A i \in 1 .. Len(p) : p[i] \in STRING
    BY SeqIs, SeqElement, SeqEmpty DEF Path
  <2> QED BY <2>1, SMTT(30)
<1>2. Parents(p) = {SubSeq(p, 1, l) : l \in 1 .. N}
  BY DEF Parents
<1> HIDE DEF N
<1>3. ASSUME NEW l \in 0 .. N
      PROVE  SubSeq(p, 1, l) \in Path /\ Len(SubSeq(p, 1, l)) = l
             /\ \A i \in 1 .. l : SubSeq(p, 1, l)[i] = p[i]
  <2>1. l \in Nat /\ \A i \in 1 .. l : p[i] \in STRING
    BY <1>1, SMTT(30)
  <2>2. /\ SubSeq(p, 1, l) \in Seq(STRING) 
        /\ Len(SubSeq(p, 1, l)) = IF 1 <= l THEN l - 1 + 1 ELSE 0
        /\ \A i \in 1 .. l - 1 + 1 : SubSeq(p, 1, l)[i] = p[1 + i - 1]
    BY <2>1, SeqPart, SMTT(30)
  <2>3. Len(SubSeq(p, 1, l)) = l
    <3> DEFINE m == Len(SubSeq(p, 1, l))
    <3>1. m = IF 1 <= l THEN l - 1 + 1 ELSE 0
      BY <2>2
    <3> HIDE DEF m
    <3>2. m = l
      BY <3>1, <2>1, SMTT(30)
    <3> QED BY <3>2 DEF m
  <2>4. ASSUME NEW i \in 1 .. l PROVE SubSeq(p, 1, l)[i] = p[i]
    <3>1. i \in 1 .. l - 1 + 1 /\ 1 + i - 1 = i
      BY <2>1, SMTT(30)
    <3> QED BY <3>1, <2>2
  <2> QED BY <2>2, <2>3, <2>4 DEF Path
<1>4. Parents(p) \subseteq Path \ {<<>>}
  <2>1. ASSUME NEW l \in 1 .. N PROVE SubSeq(p, 1, l) \in Path \ {<<>>}
    <3>1. l \in 0 .. N /\ l # 0
      BY <1>1, SMTT(30)
    <3>2. SubSeq(p, 1, l) \in Path /\ Len(SubSeq(p, 1, l)) # 0
      BY <1>3, <3>1
    <3>3. Len(<<>>) = 0
      BY SeqEmpty
    <3> QED BY <3>2, <3>3
  <2> QED BY <1>2, <2>1
<1>5. IsFiniteSet(Parents(p))
  <2>1. f \in Surjection(1 .. N, Parents(p))
    BY <1>2 DEF Surjection
  <2>2. IsFiniteSet(1 .. N)
    BY <1>1, FS_Interval, SMTT(30)
  <2> HIDE DEF f
  <2> QED BY <2>1, <2>2, FS_Surjection
<1>6. ASSUME NEW l \in 0 .. N PROVE SubSeq(p, 1, l) = <<>> \/ SubSeq(p, 1, l) \in Parents(p)
  <2>1. CASE l = 0
    <3>1. SubSeq(p, 1, l) \in Seq(STRING) /\ Len(SubSeq(p, 1, l)) = 0
      BY <1>3, <2>1 DEF Path
    <3> QED BY <3>1, SeqEmpty
  <2>2. CASE l # 0
    <3>1. l \in 1 .. N
      BY <1>1, <2>2, SMTT(30)
    <3> QED BY <1>2, <3>1
  <2> QED BY <2>1, <2>2
<1>7. Parent(p) = <<>> \/ Parent(p) \in Parents(p)
  <2>1. Parent(p) = SubSeq(p, 1, N) /\ N \in 0 .. N
    BY <1>1, SMTT(30) DEF Parent, N
  <2> QED BY <1>6, <2>1
<1>8. ASSUME NEW q \in Parents(p) PROVE Parent(q) = <<>> \/ Parent(q) \in Parents(p)
  <2>1. PICK l \in 1 .. N : q = SubSeq(p, 1, l)
    BY <1>2
  <2>2. q \in Path /\ Len(q) = l /\ \A i \in 1 .. l : q[i] = p[i]
    <3>1. l \in 0 .. N
      BY <1>1, SMTT(30)
    <3> QED BY <1>3, <2>1, <3>1
  <2>3. /\ Parent(q) \in Path /\ Len(Parent(q)) = l - 1 /\ l >= 1
        /\ \A i \in 1 .. l - 1 : Parent(q)[i] = q[i]
    <3>1. q \in Seq(STRING) /\ q # <<>>
      BY <1>4, <2>2 DEF Path
    <3>2. /\ Parent(q) \in Seq(STRING) /\ Len(Parent(q)) = Len(q) - 1 /\ Len(q) >= 1
          /\ \A i \in 1 .. Len(q) - 1 : Parent(q)[i] = q[i]
      BY <3>1, Ends
    <3> QED BY <2>2, <3>2 DEF Path
  <2>4. l - 1 \in 0 .. N
    BY <2>3, <1>1, SMTT(30)
  <2>5. SubSeq(p, 1, l - 1) \in Path /\ Len(SubSeq(p, 1, l - 1)) = l - 1
        /\ \A i \in 1 .. l - 1 : SubSeq(p, 1, l - 1)[i] = p[i]
    BY <2>4, <1>3
  <2>6. \A i \in 1 .. l - 1 : Parent(q)[i] = SubSeq(p, 1, l - 1)[i]
    BY <2>2, <2>3, <2>5, <1>1, SMTT(30)
  <2>7. Parent(q) = SubSeq(p, 1, l - 1)
    <3> DEFINE u == SubSeq(p, 1, l - 1)
               v == Parent(q)
    <3>1. u \in Seq(STRING) /\ v \in Seq(STRING) /\ Len(u) = Len(v) /\ \A i \in 1 .. Len(v) : v[i] = u[i]
      BY <2>3, <2>5, <2>6 DEF Path
    <3> HIDE DEF u, v
    <3>2. u = v
      BY <3>1, SeqSame
    <3> QED BY <3>2 DEF u, v
  <2> QED BY <1>6, <2>4, <2>7
<1> QED
  BY <1>4, <1>5, <1>7, <1>8

---------------------------------------------------------------------------
(* Trees.                                                                  *)

\* What the kinds of nodes carry.
LEMMA NodeFacts ==
  /\ \A n \in Node : n.kind \in {"file", "link", "dir", "other"}
  /\ \A n \in Node : n.kind = "file" => n.data \in Seq(Nat)
  /\ \A d \in Seq(Nat) : File(d) \in Node /\ File(d).kind = "file" /\ File(d).data = d
  /\ Dir \in Node /\ Dir.kind = "dir"
  BY DEF Node, File, Dir

\* Putting a node into a tree leaves a tree.
LEMMA WithIsTree ==
  ASSUME NEW t, IsTree(t), NEW p \in Path \ {<<>>}, NEW n \in Node
  PROVE  IsTree(With(t, p, n))
<1> DEFINE w == With(t, p, n)
<1>1. DOMAIN w = DOMAIN t \union {p} /\ w[p] = n /\ \A q \in DOMAIN t : q # p => w[q] = t[q]
  BY DEF With
<1> HIDE DEF w
<1>2. IsFiniteSet(DOMAIN t \union {p})
  BY FS_AddElement DEF IsTree
<1>3. DOMAIN w \subseteq Path \ {<<>>} /\ \A q \in DOMAIN w : w[q] \in Node
  BY <1>1 DEF IsTree
<1>4. IsTree(w)
  BY <1>1, <1>2, <1>3 DEF IsTree
<1> QED
  BY <1>4 DEF w

\* Removing what is at and below a path leaves a tree.
LEMMA CutIsTree ==
  ASSUME NEW t, IsTree(t), NEW p
  PROVE  IsTree(Cut(t, p))
<1> DEFINE D == {q \in DOMAIN t : ~Within(q, p)}
<1>1. DOMAIN Cut(t, p) = D /\ \A q \in D : Cut(t, p)[q] = t[q]
  BY DEF Cut, Restrict
<1>2. D \in SUBSET DOMAIN t
  OBVIOUS
<1> HIDE DEF D
<1>3. IsFiniteSet(D)
  BY <1>2, FS_Subset DEF IsTree
<1> QED
  BY <1>1, <1>2, <1>3 DEF IsTree

\* MkdirAll adds the directories that are missing and changes no other node.
LEMMA WithParentsFacts ==
  ASSUME NEW t, NEW p
  PROVE  /\ DOMAIN WithParents(t, p) = DOMAIN t \union Parents(p)
         /\ \A q \in DOMAIN t : WithParents(t, p)[q] = t[q]
         /\ \A q \in Parents(p) : q \notin DOMAIN t => WithParents(t, p)[q] = Dir
  BY DEF WithParents

\* MkdirAll leaves a tree.
LEMMA WithParentsIsTree ==
  ASSUME NEW t, IsTree(t), NEW p \in Path \ {<<>>}
  PROVE  IsTree(WithParents(t, p))
<1> DEFINE w == WithParents(t, p)
<1>1. /\ DOMAIN w = DOMAIN t \union Parents(p)
      /\ \A q \in DOMAIN t : w[q] = t[q]
      /\ \A q \in Parents(p) : q \notin DOMAIN t => w[q] = Dir
  BY WithParentsFacts
<1> HIDE DEF w
<1>2. IsFiniteSet(DOMAIN t \union Parents(p)) /\ Parents(p) \subseteq Path \ {<<>>}
  BY ParentFacts, FS_Union DEF IsTree
<1>3. DOMAIN w \subseteq Path \ {<<>>} /\ \A q \in DOMAIN w : w[q] \in Node
  BY <1>1, <1>2, NodeFacts DEF IsTree
<1>4. IsTree(w)
  BY <1>1, <1>2, <1>3 DEF IsTree
<1> QED
  BY <1>4 DEF w

\* Replacing a node, with what is below it, leaves a tree.
LEMMA PutIsTree ==
  ASSUME NEW t, IsTree(t), NEW p \in Path \ {<<>>}, NEW n \in Node
  PROVE  IsTree(Put(t, p, n))
  BY CutIsTree, WithIsTree DEF Put

\* What ReadDir returns for a tree.
LEMMA ReadDirItems ==
  ASSUME NEW t, IsTree(t), NEW p \in Path
  PROVE  ReadDir(t, p) \in Seq(Item)
<1> DEFINE lasts == {Base(q) : q \in DOMAIN t}
           names == {n \in lasts : Append(Real(t, p), n) \in DOMAIN t}
           item(n) == [path |-> Append(p, n), dir |-> Has(t, Append(Real(t, p), n), "dir")]
           order == CHOOSE o \in [1 .. Cardinality(names) -> names] : IsInjective(o)
           f == [q \in DOMAIN t |-> Base(q)]
<1>1. \A q \in DOMAIN t : Base(q) \in STRING
  BY Ends DEF IsTree, Path
<1>2. IsFiniteSet(lasts)
  <2>1. f \in Surjection(DOMAIN t, lasts)
    BY DEF Surjection
  <2> HIDE DEF f, lasts
  <2> QED BY <2>1, FS_Surjection DEF IsTree
<1>3. names \in SUBSET lasts /\ names \subseteq STRING
  BY <1>1
<1>4. IsFiniteSet(names)
  <2> HIDE DEF lasts, names
  <2> QED BY <1>2, <1>3, FS_Subset
<1>5. Cardinality(names) \in Nat /\ order \in [1 .. Cardinality(names) -> names]
  <2> HIDE DEF names
  <2>1. Cardinality(names) \in Nat /\ ExistsBijection(1 .. Cardinality(names), names)
    BY <1>4, FS_CardinalityType
  <2>2. PICK h : h \in Bijection(1 .. Cardinality(names), names)
    BY <2>1 DEF ExistsBijection
  <2>3. h \in [1 .. Cardinality(names) -> names] /\ IsInjective(h)
    BY <2>2 DEF Bijection, Injection
  <2>4. order \in [1 .. Cardinality(names) -> names]
    BY <2>3
  <2> QED BY <2>1, <2>4
<1>6. Len(order) \in Nat /\ \A i \in 1 .. Len(order) : order[i] \in names
  <2>1. order \in Seq(names)
    <3> HIDE DEF order, names
    <3> QED BY <1>5, SMTT(30)
  <2> HIDE DEF order, names
  <2> QED BY <2>1, SeqIs, SeqElement
<1>7. \A n \in names : item(n) \in Item
  <2> TAKE n \in names
  <2>1. Append(p, n) \in Path /\ Append(p, n) # <<>>
    <3>1. n \in STRING
      BY <1>3
    <3> HIDE DEF names
    <3> QED BY <3>1, AppendIsPath
  <2>2. Has(t, Append(Real(t, p), n), "dir") \in BOOLEAN
    BY DEF Has
  <2> QED BY <2>1, <2>2 DEF Item
<1>8. ReadDir(t, p) = [i \in 1 .. Len(order) |-> item(order[i])]
  BY DEF ReadDir
<1>9. \A i \in 1 .. Len(order) : item(order[i]) \in Item
  <2> HIDE DEF order, names, item
  <2> QED BY <1>6, <1>7
<1>10. [i \in 1 .. Len(order) |-> item(order[i])] \in Seq(Item)
  <2> HIDE DEF order, names, item
  <2> QED BY <1>6, <1>9, SMTT(30)
<1> QED
  BY <1>8, <1>10

---------------------------------------------------------------------------
(* Sums over finite sets: Bytes adds up the files of a tree in an order    *)
(* that is not specified.                                                  *)

One(s) == CHOOSE x \in s : TRUE

IsSum(h, S, w) ==
  h = [s \in SUBSET S |-> IF s = {} THEN 0 ELSE w[One(s)] + h[s \ {One(s)}]]

\* One element less.
LEMMA TakeOne ==
  ASSUME NEW S, IsFiniteSet(S), NEW s \in SUBSET S, NEW x \in s
  PROVE  /\ s \ {x} \in SUBSET S /\ Cardinality(s) \in 1 .. Cardinality(S)
         /\ Cardinality(s \ {x}) = Cardinality(s) - 1
<1>1. IsFiniteSet(s) /\ Cardinality(s) <= Cardinality(S)
  BY FS_Subset
<1>2. Cardinality(s \ {x}) = Cardinality(s) - 1 /\ IsFiniteSet(s \ {x})
  BY <1>1, FS_RemoveElement
<1>3. Cardinality(s) \in Nat /\ Cardinality(s \ {x}) \in Nat /\ Cardinality(S) \in Nat
  BY <1>1, <1>2, FS_CardinalityType
<1> QED
  BY <1>1, <1>2, <1>3, SMTT(30)

\* Every finite set of weights has a sum in the sense of IsSum.
LEMMA SumExists ==
  ASSUME NEW S, IsFiniteSet(S), NEW w \in [S -> Nat]
  PROVE  \E h : IsSum(h, S, w)
<1> DEFINE T == [SUBSET S -> Nat]
           N == Cardinality(S)
           add(h) == [s \in SUBSET S |-> IF s = {} THEN 0 ELSE w[One(s)] + h[s \ {One(s)}]]
           g == [x \in T \X (1 .. N) |-> add(x[1])]
           b == [s \in SUBSET S |-> 0]
<1>0. N \in Nat
  BY FS_CardinalityType
<1>1. \A s \in SUBSET S : s # {} => One(s) \in s
  BY DEF One
<1>2. ASSUME NEW h \in T PROVE add(h) \in T
  <2>1. ASSUME NEW s \in SUBSET S, s # {} PROVE w[One(s)] + h[s \ {One(s)}] \in Nat
    <3>1. w[One(s)] \in Nat /\ s \ {One(s)} \in SUBSET S
      BY <1>1, <2>1
    <3> QED BY <3>1, SMTT(30)
  <2> QED BY <2>1
<1>3. g \in [T \X (1 .. N) -> T]
  <2> HIDE DEF T, add
  <2> QED BY <1>2
<1>4. b \in T
  OBVIOUS
<1>5. PICK f : Solution(f, T, b, N, g)
  <2> HIDE DEF T, b, N, g
  <2> QED BY <1>0, <1>3, <1>4, Recursion
<1>6. f \in [0 .. N -> T] /\ f[0] = b /\ \A i \in 1 .. N : f[i] = g[<<f[i - 1], i>>]
  <2> HIDE DEF T, b, N, g
  <2> QED BY <1>5 DEF Solution
<1>7. \A i \in 1 .. N : f[i] = add(f[i - 1])
  <2> TAKE i \in 1 .. N
  <2> HIDE DEF T, N, add
  <2>1. i - 1 \in 0 .. N
    BY <1>0, SMTT(30)
  <2>2. f[i - 1] \in T
    BY <2>1, <1>6
  <2> QED BY <2>2, <1>6
<1> DEFINE h == [s \in SUBSET S |-> f[Cardinality(s)][s]]
<1>8. ASSUME NEW s \in SUBSET S
      PROVE  h[s] = IF s = {} THEN 0 ELSE w[One(s)] + h[s \ {One(s)}]
  <2>1. CASE s = {}
    BY <2>1, <1>6, FS_EmptySet
  <2>2. CASE s # {}
    <3> DEFINE x == One(s)
    <3>1. x \in s
      BY <1>1, <2>2
    <3> HIDE DEF x
    <3>2. /\ s \ {x} \in SUBSET S /\ Cardinality(s) \in 1 .. N
          /\ Cardinality(s \ {x}) = Cardinality(s) - 1
      BY <3>1, TakeOne
    <3>3. f[Cardinality(s)] = add(f[Cardinality(s) - 1])
      BY <3>2, <1>7
    <3>4. f[Cardinality(s)][s] = w[x] + f[Cardinality(s) - 1][s \ {x}]
      BY <3>3, <2>2 DEF x
    <3>5. h[s \ {x}] = f[Cardinality(s) - 1][s \ {x}]
      BY <3>2
    <3>6. h[s] = w[x] + h[s \ {x}]
      BY <3>4, <3>5
    <3> QED BY <3>6, <2>2 DEF x
  <2> QED BY <2>1, <2>2
<1>9. h = [s \in SUBSET S |-> IF s = {} THEN 0 ELSE w[One(s)] + h[s \ {One(s)}]]
  BY <1>8
<1> HIDE DEF h
<1> QED
  BY <1>9 DEF IsSum

\* The sizes of the subsets of a finite set, and what IsSum says of a sum over them.
Steps(h, S, w) ==
  /\ Cardinality(S) \in Nat
  /\ \A s \in SUBSET S : Cardinality(s) \in 0 .. Cardinality(S)
  /\ \A s \in SUBSET S : Cardinality(s) = 0 => s = {}
  /\ h[{}] = 0
  /\ \A s \in SUBSET S : s # {} => One(s) \in s /\ h[s] = w[One(s)] + h[s \ {One(s)}]

\* Any element may be taken first.
AnyOrder(h, S, w) == \A s \in SUBSET S : \A x \in s : h[s] = w[x] + h[s \ {x}]

\* What IsSum says, with the sizes of the subsets.
LEMMA SumSteps ==
  ASSUME NEW S, IsFiniteSet(S), NEW w \in [S -> Nat], NEW h, IsSum(h, S, w)
  PROVE  Steps(h, S, w)
<1>1. ASSUME NEW s \in SUBSET S PROVE IsFiniteSet(s) /\ Cardinality(s) <= Cardinality(S)
  BY FS_Subset
<1>2. Cardinality(S) \in Nat /\ \A s \in SUBSET S : Cardinality(s) \in Nat
  BY <1>1, FS_CardinalityType
<1>3. \A s \in SUBSET S : Cardinality(s) = 0 => s = {}
  BY <1>1, FS_EmptySet
<1>4. h[{}] = 0
  BY DEF IsSum
<1>5. \A s \in SUBSET S : s # {} => One(s) \in s /\ h[s] = w[One(s)] + h[s \ {One(s)}]
  BY DEF IsSum, One
<1>6. \A s \in SUBSET S : Cardinality(s) \in 0 .. Cardinality(S)
  BY <1>1, <1>2, SMTT(30)
<1> QED
  BY <1>2, <1>3, <1>4, <1>5, <1>6 DEF Steps

\* A sum of natural numbers is one.
LEMMA SumNat ==
  ASSUME NEW S, IsFiniteSet(S), NEW w \in [S -> Nat], NEW h, IsSum(h, S, w)
  PROVE  \A s \in SUBSET S : h[s] \in Nat
<1> DEFINE N == Cardinality(S)
           C == {n \in 0 .. N : \A s \in SUBSET S : Cardinality(s) = n => h[s] \in Nat}
<1>1. /\ N \in Nat /\ \A s \in SUBSET S : Cardinality(s) \in 0 .. N
      /\ \A s \in SUBSET S : Cardinality(s) = 0 => s = {}
      /\ h[{}] = 0
      /\ \A s \in SUBSET S : s # {} => One(s) \in s /\ h[s] = w[One(s)] + h[s \ {One(s)}]
  <2>1. Steps(h, S, w)
    BY SumSteps
  <2> QED BY <2>1 DEF Steps
<1>2. 0 \in C
  <2>1. \A s \in SUBSET S : Cardinality(s) = 0 => h[s] = 0
    BY <1>1
  <2> QED BY <1>1, <2>1, SMTT(30)
<1>3. ASSUME NEW n \in 1 .. N, n - 1 \in C PROVE n \in C
  <2> SUFFICES ASSUME NEW s \in SUBSET S, Cardinality(s) = n PROVE h[s] \in Nat
    BY <1>1, SMTT(30)
  <2>1. s # {}
    BY FS_EmptySet, SMTT(30)
  <2>2. One(s) \in s /\ h[s] = w[One(s)] + h[s \ {One(s)}]
    BY <1>1, <2>1
  <2>3. s \ {One(s)} \in SUBSET S /\ Cardinality(s \ {One(s)}) = n - 1
    BY <2>2, TakeOne
  <2>4. h[s \ {One(s)}] \in Nat /\ w[One(s)] \in Nat
    BY <1>3, <2>2, <2>3
  <2> QED BY <2>2, <2>4, SMTT(30)
<1>4. \A n \in 0 .. N : n \in C
  <2> HIDE DEF C, N
  <2> QED BY <1>1, <1>2, <1>3, Climb
<1> QED
  BY <1>1, <1>4

\* The sum does not depend on which element is taken first.
LEMMA SumRemove ==
  ASSUME NEW S, IsFiniteSet(S), NEW w \in [S -> Nat], NEW h, IsSum(h, S, w)
  PROVE  AnyOrder(h, S, w)
<1> DEFINE N == Cardinality(S)
           P(s) == \A x \in s : h[s] = w[x] + h[s \ {x}]
           C == {n \in 0 .. N : \A s \in SUBSET S : Cardinality(s) = n => P(s)}
<1>1. /\ N \in Nat /\ \A s \in SUBSET S : Cardinality(s) \in 0 .. N
      /\ \A s \in SUBSET S : Cardinality(s) = 0 => s = {}
      /\ h[{}] = 0
      /\ \A s \in SUBSET S : s # {} => One(s) \in s /\ h[s] = w[One(s)] + h[s \ {One(s)}]
  <2>1. Steps(h, S, w)
    BY SumSteps
  <2> QED BY <2>1 DEF Steps
<1>2. \A s \in SUBSET S : h[s] \in Nat
  BY SumNat
<1>3. 0 \in C
  BY <1>1, SMTT(30)
<1>4. ASSUME NEW n \in 1 .. N, n - 1 \in C PROVE n \in C
  <2> SUFFICES ASSUME NEW s \in SUBSET S, Cardinality(s) = n, NEW x \in s
               PROVE  h[s] = w[x] + h[s \ {x}]
    BY SMTT(30)
  <2> DEFINE c == One(s)
  <2>1. c \in s /\ h[s] = w[c] + h[s \ {c}]
    BY <1>1
  <2> HIDE DEF c
  <2>2. ASSUME NEW y \in s PROVE s \ {y} \in SUBSET S /\ P(s \ {y})
    <3>1. s \ {y} \in SUBSET S /\ Cardinality(s \ {y}) = n - 1
      BY TakeOne
    <3> HIDE DEF P
    <3> QED BY <3>1, <1>4
  <2>3. CASE x = c
    BY <2>3, <2>1
  <2>4. CASE x # c
    <3> DEFINE u == (s \ {c}) \ {x}
    <3>1. (s \ {x}) \ {c} = u /\ u \in SUBSET S /\ c \in s \ {x} /\ x \in s \ {c}
      BY <2>1, <2>4
    <3>2. h[s \ {x}] = w[c] + h[u]
      BY <2>2, <3>1
    <3>3. h[s \ {c}] = w[x] + h[u]
      BY <2>1, <2>2, <3>1
    <3>4. h[u] \in Nat /\ w[c] \in Nat /\ w[x] \in Nat
      BY <1>2, <2>1, <3>1
    <3> HIDE DEF u
    <3> QED BY <2>1, <3>2, <3>3, <3>4, SMTT(30)
  <2> QED BY <2>3, <2>4
<1>5. \A n \in 0 .. N : n \in C
  <2> HIDE DEF C, N
  <2> QED BY <1>1, <1>3, <1>4, Climb
<1>6. \A s \in SUBSET S : P(s)
  <2> HIDE DEF P
  <2> QED BY <1>1, <1>5
<1> QED
  BY <1>6 DEF AnyOrder

\* A sum depends only on the weights of what it is taken over.
LEMMA SumLocal ==
  ASSUME NEW S, IsFiniteSet(S), NEW w \in [S -> Nat], NEW h, IsSum(h, S, w),
         NEW R, IsFiniteSet(R), NEW v \in [R -> Nat], NEW k, IsSum(k, R, v),
         NEW Q, Q \subseteq S, Q \subseteq R, \A x \in Q : w[x] = v[x]
  PROVE  h[Q] = k[Q]
<1> DEFINE N == Cardinality(S)
           C == {n \in 0 .. N : \A s \in SUBSET Q : Cardinality(s) = n => h[s] = k[s]}
<1>1. /\ N \in Nat /\ \A s \in SUBSET S : Cardinality(s) \in 0 .. N
      /\ \A s \in SUBSET S : Cardinality(s) = 0 => s = {}
      /\ h[{}] = 0
      /\ \A s \in SUBSET S : s # {} => One(s) \in s /\ h[s] = w[One(s)] + h[s \ {One(s)}]
  <2>1. Steps(h, S, w)
    BY SumSteps
  <2> QED BY <2>1 DEF Steps
<1>2. /\ k[{}] = 0
      /\ \A s \in SUBSET R : s # {} => One(s) \in s /\ k[s] = v[One(s)] + k[s \ {One(s)}]
  <2>1. Steps(k, R, v)
    BY SumSteps
  <2> QED BY <2>1 DEF Steps
<1>3. 0 \in C
  <2>1. \A s \in SUBSET Q : Cardinality(s) = 0 => h[s] = k[s]
    <3> TAKE s \in SUBSET Q
    <3>1. s \in SUBSET S
      OBVIOUS
    <3> QED BY <3>1, <1>1, <1>2
  <2> QED BY <1>1, <2>1, SMTT(30)
<1>4. ASSUME NEW n \in 1 .. N, n - 1 \in C PROVE n \in C
  <2> SUFFICES ASSUME NEW s \in SUBSET Q, Cardinality(s) = n PROVE h[s] = k[s]
    BY <1>1, SMTT(30)
  <2>1. s # {} /\ s \in SUBSET S /\ s \in SUBSET R
    BY FS_EmptySet, SMTT(30)
  <2>2. One(s) \in s /\ h[s] = w[One(s)] + h[s \ {One(s)}] /\ k[s] = v[One(s)] + k[s \ {One(s)}]
    BY <1>1, <1>2, <2>1
  <2>3. Cardinality(s \ {One(s)}) = n - 1
    BY <2>1, <2>2, TakeOne
  <2>4. s \ {One(s)} \in SUBSET Q /\ w[One(s)] = v[One(s)]
    BY <2>2
  <2>5. h[s \ {One(s)}] = k[s \ {One(s)}]
    BY <1>4, <2>3, <2>4
  <2> QED BY <2>2, <2>4, <2>5
<1>5. \A n \in 0 .. N : n \in C
  <2> HIDE DEF C, N
  <2> QED BY <1>1, <1>3, <1>4, Climb
<1> QED
  BY <1>1, <1>5

\* What weighs nothing does not count.
LEMMA SumZero ==
  ASSUME NEW S, IsFiniteSet(S), NEW w \in [S -> Nat], NEW h, IsSum(h, S, w),
         NEW Q, Q \subseteq S, \A x \in S \ Q : w[x] = 0
  PROVE  h[S] = h[Q]
<1> DEFINE N == Cardinality(S)
           C == {n \in 0 .. N : \A s \in SUBSET (S \ Q) : Cardinality(s) = n => h[Q \union s] = h[Q]}
<1>1. /\ N \in Nat /\ \A s \in SUBSET S : Cardinality(s) \in 0 .. N
      /\ \A s \in SUBSET S : Cardinality(s) = 0 => s = {}
  <2>1. Steps(h, S, w)
    BY SumSteps
  <2> QED BY <2>1 DEF Steps
<1>2. \A s \in SUBSET S : h[s] \in Nat
  BY SumNat
<1>3. \A s \in SUBSET S : \A x \in s : h[s] = w[x] + h[s \ {x}]
  <2>1. AnyOrder(h, S, w)
    BY SumRemove
  <2> QED BY <2>1 DEF AnyOrder
<1>4. 0 \in C
  <2>1. ASSUME NEW s \in SUBSET (S \ Q), Cardinality(s) = 0 PROVE h[Q \union s] = h[Q]
    <3>1. s = {} /\ Q \union {} = Q
      BY <1>1, <2>1
    <3> QED BY <3>1
  <2> QED BY <1>1, <2>1, SMTT(30)
<1>5. ASSUME NEW n \in 1 .. N, n - 1 \in C PROVE n \in C
  <2> SUFFICES ASSUME NEW s \in SUBSET (S \ Q), Cardinality(s) = n PROVE h[Q \union s] = h[Q]
    BY <1>1, SMTT(30)
  <2>1. PICK x \in s : TRUE
    BY FS_EmptySet, SMTT(30)
  <2>2. s \in SUBSET S
    OBVIOUS
  <2>3. Cardinality(s \ {x}) = n - 1
    BY <2>2, TakeOne
  <2>4. h[Q \union (s \ {x})] = h[Q]
    BY <1>5, <2>3
  <2>5. (Q \union s) \ {x} = Q \union (s \ {x}) /\ x \in Q \union s /\ Q \union s \in SUBSET S
    OBVIOUS
  <2>6. h[Q \union s] = w[x] + h[(Q \union s) \ {x}]
    BY <1>3, <2>5
  <2>7. w[x] = 0 /\ h[Q] \in Nat
    BY <1>2
  <2>8. h[Q \union s] = 0 + h[Q]
    BY <2>4, <2>5, <2>6, <2>7
  <2> QED BY <2>7, <2>8, SMTT(30)
<1>6. \A n \in 0 .. N : n \in C
  <2> HIDE DEF C, N
  <2> QED BY <1>1, <1>4, <1>5, Climb
<1>7. S \ Q \in SUBSET S /\ Q \union (S \ Q) = S
  OBVIOUS
<1>8. Cardinality(S \ Q) \in 0 .. N
  BY <1>1, <1>7
<1>9. h[Q \union (S \ Q)] = h[Q]
  BY <1>6, <1>8
<1> QED
  BY <1>7, <1>9

\* The blocks at each path.
Weights(t) == [p \in DOMAIN t |-> IF t[p].kind = "file" THEN Len(t[p].data) ELSE 0]

\* The size of every file of a tree is a natural number.
LEMMA WeightsAreNat ==
  ASSUME NEW t, IsTree(t)
  PROVE  Weights(t) \in [DOMAIN t -> Nat]
<1>1. \A p \in DOMAIN t : t[p].kind = "file" => Len(t[p].data) \in Nat
  BY NodeFacts, SeqIs DEF IsTree
<1> QED
  BY <1>1 DEF Weights

\* Bytes is the sum of these sizes.
LEMMA BytesIsSum ==
  ASSUME NEW t, IsTree(t)
  PROVE  \E h : IsSum(h, DOMAIN t, Weights(t)) /\ Bytes(t) = h[DOMAIN t]
<1> DEFINE w == Weights(t)
           S == DOMAIN t
           h == CHOOSE f : IsSum(f, S, w)
<1>1. w \in [S -> Nat] /\ IsFiniteSet(S)
  BY WeightsAreNat DEF IsTree
<1>2. \E f : IsSum(f, S, w)
  <2> HIDE DEF w, S
  <2> QED BY <1>1, SumExists
<1>3. IsSum(h, S, w)
  <2> HIDE DEF w, S
  <2> QED BY <1>2
<1>4. Bytes(t) = FoldFunction(+, 0, w)
  BY DEF Bytes, Weights
<1>5. DOMAIN w = S
  BY DEF Weights
<1>6. FoldFunction(+, 0, w) = h[S]
  <2> HIDE DEF w, S
  <2> QED BY <1>5 DEF FoldFunction, FoldFunctionOnSet, MapThenFoldSet, IsSum, One
<1> QED
  BY <1>3, <1>4, <1>6

\* Bytes of a tree is a natural number.
LEMMA BytesNat ==
  ASSUME NEW t, IsTree(t)
  PROVE  Bytes(t) \in Nat
<1>1. PICK h : IsSum(h, DOMAIN t, Weights(t)) /\ Bytes(t) = h[DOMAIN t]
  BY BytesIsSum
<1>2. Weights(t) \in [DOMAIN t -> Nat] /\ IsFiniteSet(DOMAIN t)
  BY WeightsAreNat DEF IsTree
<1>3. \A s \in SUBSET DOMAIN t : h[s] \in Nat
  BY <1>1, <1>2, SumNat
<1> QED
  BY <1>1, <1>3

\* The empty tree has no bytes.
LEMMA BytesEmpty ==
  ASSUME NEW t, IsTree(t), DOMAIN t = {}
  PROVE  Bytes(t) = 0
<1>1. PICK h : IsSum(h, DOMAIN t, Weights(t)) /\ Bytes(t) = h[DOMAIN t]
  BY BytesIsSum
<1> QED
  BY <1>1 DEF IsSum

\* Two trees that differ in what is at p.  The rest of a tree is what it weighs without p.
LEMMA BytesBut ==
  ASSUME NEW t, IsTree(t), NEW u, IsTree(u), NEW p, DOMAIN u \ {p} = DOMAIN t \ {p},
         \A q \in DOMAIN t : q # p => u[q] = t[q]
  PROVE  \E rest \in Nat :
           /\ Bytes(t) = IF p \in DOMAIN t THEN Weights(t)[p] + rest ELSE rest
           /\ Bytes(u) = IF p \in DOMAIN u THEN Weights(u)[p] + rest ELSE rest
<1> DEFINE Q == DOMAIN t \ {p}
           w == Weights(t)
           v == Weights(u)
<1>1. PICK h : IsSum(h, DOMAIN t, w) /\ Bytes(t) = h[DOMAIN t]
  BY BytesIsSum
<1>2. PICK k : IsSum(k, DOMAIN u, v) /\ Bytes(u) = k[DOMAIN u]
  BY BytesIsSum
<1>3. /\ w \in [DOMAIN t -> Nat] /\ IsFiniteSet(DOMAIN t)
      /\ v \in [DOMAIN u -> Nat] /\ IsFiniteSet(DOMAIN u)
  BY WeightsAreNat DEF IsTree
<1>4. Q \subseteq DOMAIN t /\ Q \subseteq DOMAIN u /\ \A x \in Q : w[x] = v[x]
  BY DEF Weights
<1> HIDE DEF w, v
<1>5. h[Q] = k[Q]
  <2> HIDE DEF Q
  <2> QED BY <1>1, <1>2, <1>3, <1>4, SumLocal, SMTT(30)
<1>6. h[Q] \in Nat
  BY <1>1, <1>3, <1>4, SumNat
<1>7. Bytes(t) = IF p \in DOMAIN t THEN w[p] + h[Q] ELSE h[Q]
  <2>1. CASE p \in DOMAIN t
    <3>1. AnyOrder(h, DOMAIN t, w)
      BY <1>1, <1>3, SumRemove
    <3>2. h[DOMAIN t] = w[p] + h[DOMAIN t \ {p}]
      BY <2>1, <3>1 DEF AnyOrder
    <3> QED BY <1>1, <2>1, <3>2
  <2>2. CASE p \notin DOMAIN t
    <3>1. Q = DOMAIN t
      BY <2>2
    <3> QED BY <1>1, <2>2, <3>1
  <2> QED BY <2>1, <2>2
<1>8. Bytes(u) = IF p \in DOMAIN u THEN v[p] + h[Q] ELSE h[Q]
  <2>1. CASE p \in DOMAIN u
    <3>1. AnyOrder(k, DOMAIN u, v)
      BY <1>2, <1>3, SumRemove
    <3>2. k[DOMAIN u] = v[p] + k[DOMAIN u \ {p}]
      BY <2>1, <3>1 DEF AnyOrder
    <3> QED BY <1>2, <1>5, <2>1, <3>2
  <2>2. CASE p \notin DOMAIN u
    <3>1. Q = DOMAIN u
      BY <2>2
    <3> QED BY <1>2, <1>5, <2>2, <3>1
  <2> QED BY <2>1, <2>2
<1> QED
  BY <1>6, <1>7, <1>8 DEF w, v

\* A node at a new path adds what it weighs.
LEMMA BytesWith ==
  ASSUME NEW t, IsTree(t), NEW p \in Path \ {<<>>}, p \notin DOMAIN t, NEW n \in Node
  PROVE  Bytes(With(t, p, n)) = Bytes(t) + (IF n.kind = "file" THEN Len(n.data) ELSE 0)
<1> DEFINE u == With(t, p, n)
<1>1. DOMAIN u = DOMAIN t \union {p} /\ u[p] = n /\ \A q \in DOMAIN t : q # p => u[q] = t[q]
  BY DEF With
<1>2. IsTree(u)
  BY WithIsTree
<1> HIDE DEF u
<1>3. DOMAIN u \ {p} = DOMAIN t \ {p}
  BY <1>1
<1>4. PICK rest \in Nat : /\ Bytes(t) = IF p \in DOMAIN t THEN Weights(t)[p] + rest ELSE rest
                          /\ Bytes(u) = IF p \in DOMAIN u THEN Weights(u)[p] + rest ELSE rest
  BY <1>1, <1>2, <1>3, BytesBut
<1>5. Weights(u)[p] = (IF n.kind = "file" THEN Len(n.data) ELSE 0) /\ Weights(u)[p] \in Nat
  BY <1>1, <1>2, WeightsAreNat DEF Weights
<1>6. Bytes(u) = Bytes(t) + Weights(u)[p]
  BY <1>1, <1>4, <1>5, SMTT(30)
<1> QED
  BY <1>5, <1>6 DEF u

\* Directories weigh nothing.
LEMMA BytesParents ==
  ASSUME NEW t, IsTree(t), NEW p \in Path \ {<<>>}
  PROVE  Bytes(WithParents(t, p)) = Bytes(t)
<1> DEFINE u == WithParents(t, p)
           w == Weights(t)
           v == Weights(u)
<1>1. /\ DOMAIN u = DOMAIN t \union Parents(p)
      /\ \A q \in DOMAIN t : u[q] = t[q]
      /\ \A q \in Parents(p) : q \notin DOMAIN t => u[q] = Dir
  BY WithParentsFacts
<1>2. IsTree(u)
  BY WithParentsIsTree
<1> HIDE DEF u
<1>3. PICK h : IsSum(h, DOMAIN t, w) /\ Bytes(t) = h[DOMAIN t]
  BY BytesIsSum
<1>4. PICK k : IsSum(k, DOMAIN u, v) /\ Bytes(u) = k[DOMAIN u]
  BY <1>2, BytesIsSum
<1>5. /\ w \in [DOMAIN t -> Nat] /\ IsFiniteSet(DOMAIN t)
      /\ v \in [DOMAIN u -> Nat] /\ IsFiniteSet(DOMAIN u)
  BY <1>2, WeightsAreNat DEF IsTree
<1>6. /\ DOMAIN t \subseteq DOMAIN t /\ DOMAIN t \subseteq DOMAIN u
      /\ \A q \in DOMAIN t : w[q] = v[q]
  BY <1>1 DEF Weights
<1>7. \A q \in DOMAIN u \ DOMAIN t : v[q] = 0
  BY <1>1, NodeFacts DEF Weights
<1> HIDE DEF w, v
<1>8. k[DOMAIN u] = k[DOMAIN t]
  BY <1>4, <1>5, <1>6, <1>7, SumZero, SMTT(30)
<1>9. h[DOMAIN t] = k[DOMAIN t]
  BY <1>3, <1>4, <1>5, <1>6, SumLocal, SMTT(30)
<1>10. Bytes(u) = Bytes(t)
  BY <1>3, <1>4, <1>8, <1>9
<1> QED
  BY <1>10 DEF u

---------------------------------------------------------------------------
(* The archive and the walk.                                               *)

\* An entry that CreateArchive may append: the one before it is whole, because WriteHeader
\* refuses otherwise.
LEMMA AppendEntry ==
  ASSUME Packing, ~Short, NEW e \in Entries, Fits(e)
  PROVE  /\ Append(archive, e) \in Seq(Entries) /\ Append(archive, e) # <<>>
         /\ \A i \in DOMAIN Append(archive, e) : Fits(Append(archive, e)[i])
         /\ \A i \in DOMAIN Append(archive, e) :
              i < Len(Append(archive, e)) => IsWhole(Append(archive, e)[i])
<1> DEFINE a == Append(archive, e)
<1>1. archive \in Seq(Entries)
  BY DEF Packing
<1>2. /\ a \in Seq(Entries) /\ a # <<>> /\ Len(a) = Len(archive) + 1 /\ a[Len(archive) + 1] = e
      /\ \A i \in 1 .. Len(archive) : a[i] = archive[i]
  BY <1>1, SeqAppend, SMTT(30)
<1>3. Len(archive) \in Nat /\ DOMAIN archive = 1 .. Len(archive) /\ DOMAIN a = 1 .. Len(a)
  BY <1>1, <1>2, SeqIs
<1>4. ASSUME NEW i \in 1 .. Len(archive) PROVE Fits(archive[i]) /\ IsWhole(archive[i])
  <2>1. Fits(archive[i]) /\ (i < Len(archive) => IsWhole(archive[i]))
    BY <1>3 DEF Packing
  <2>2. CASE i = Len(archive)
    <3>1. archive # <<>> /\ archive[Len(archive)] = archive[i]
      BY <2>2, SMTT(30)
    <3>2. ~(archive[i].node.kind = "file" /\ Len(archive[i].node.data) < archive[i].size)
      BY <3>1 DEF Short
    <3>3. archive[i].node \in Node /\ archive[i].size \in Nat
      <4>1. archive[i] \in Entries
        BY <1>1, SeqElement
      <4> QED BY <4>1 DEF Entries
    <3>4. archive[i].node.kind = "file" => Len(archive[i].node.data) \in Nat
      BY <3>3, NodeFacts, SeqIs, SMTT(30)
    <3> QED BY <2>1, <3>2, <3>3, <3>4, SMTT(30) DEF Fits, IsWhole
  <2>3. i < Len(archive) \/ i = Len(archive)
    <3>1. Len(archive) \in Nat
      BY <1>1, SeqIs
    <3> HIDE DEF a
    <3> QED BY <3>1, SMTT(30)
  <2> QED BY <2>1, <2>2, <2>3
<1> HIDE DEF a
<1>5. \A i \in DOMAIN a : Fits(a[i]) /\ (i < Len(a) => IsWhole(a[i]))
  <2> TAKE i \in DOMAIN a
  <2>1. CASE i \in 1 .. Len(archive)
    BY <2>1, <1>2, <1>4
  <2>2. CASE i = Len(archive) + 1
    BY <2>2, <1>2, <1>3, SMTT(30)
  <2> QED BY <1>2, <1>3, <2>1, <2>2, SMTT(30)
<1> QED
  BY <1>2, <1>5 DEF a

\* CreateArchive: no step of the walk spoils the archive.
LEMMA WalkStep ==
  ASSUME Packing, Pack
  PROVE  Packing'
<1>0. /\ IsTree(src) /\ edits \in 0 .. MaxEdits /\ tmp \in BOOLEAN
      /\ exclusions \in Seq(Path)
      /\ todo \in Seq(Item) /\ archive \in Seq(Entries)
      /\ wpc \in {"start", "visit", "copy", "descend", "packed", "failed", "foreign"}
      /\ wpc \in {"copy", "descend"} => todo # <<>>
      /\ wpc = "copy" => archive # <<>>
      /\ \A i \in DOMAIN archive : Fits(archive[i])
      /\ \A i \in DOMAIN archive :
           i < Len(archive) \/ wpc \in {"packed", "foreign"} => IsWhole(archive[i])
  BY DEF Packing
<1>1. CASE fail
  BY <1>0, <1>1, SeqEmpty DEF fail, Packing
<1>2. CASE begin
  <2>1. ReadDir(src, <<>>) \in Seq(Item)
    BY <1>0, ReadDirItems, SeqEmpty DEF Path
  <2> QED BY <1>0, <1>2, <2>1 DEF begin, Packing
<1>3. CASE visit
  <2> DEFINE e == Head(todo)
             q == Lstat(src, e.path)
             n == src[q]
             ent == IF n.kind = "file" THEN Entry(e.path, File(<<>>), Len(n.data))
                                       ELSE Entry(e.path, n, 0)
  <2>1. wpc = "visit" /\ todo # <<>>
    BY <1>3 DEF visit
  <2>2. UNCHANGED <<exclusions, src, edits, tmp>>
    BY <1>3 DEF visit
  <2>3. CASE todo' = Tail(todo) /\ UNCHANGED <<wpc, archive>>
    <3>1. Tail(todo) \in Seq(Item)
      BY <1>0, <2>1, SeqTail
    <3> QED BY <1>0, <2>1, <2>2, <2>3, <3>1 DEF Packing
  <2>4. CASE /\ q \in DOMAIN src /\ n.kind # "other" /\ ~Short
             /\ archive' = Append(archive, ent)
             /\ wpc' = IF n.kind = "file" THEN "copy" ELSE "descend"
             /\ UNCHANGED todo
    <3>1. e.path \in Path
      <4>1. Head(todo) \in Item
        BY <1>0, <2>1, SeqTail
      <4> QED BY <4>1 DEF Item
    <3>2. n \in Node
      BY <1>0, <2>4 DEF IsTree
    <3>3. n.kind = "file" => Len(n.data) \in Nat
      BY <3>2, NodeFacts, SeqIs, SMTT(30)
    <3>4. <<>> \in Seq(Nat) /\ Len(<<>>) = 0
      BY SeqEmpty
    <3>5. ent \in Entries /\ Fits(ent)
      <4>1. CASE n.kind = "file"
        <5>1. File(<<>>) \in Node /\ File(<<>>).kind = "file" /\ File(<<>>).data = <<>>
          BY <3>4, NodeFacts
        <5>2. ent = Entry(e.path, File(<<>>), Len(n.data))
          BY <4>1
        <5> HIDE DEF ent, e, n
        <5> QED BY <3>1, <3>3, <3>4, <4>1, <5>1, <5>2, SMTT(30) DEF Entries, Entry, Fits
      <4>2. CASE n.kind # "file"
        <5>1. ent = Entry(e.path, n, 0)
          BY <4>2
        <5> HIDE DEF ent, e, n
        <5> QED BY <3>1, <3>2, <4>2, <5>1 DEF Entries, Entry, Fits
      <4> QED BY <4>1, <4>2
    <3> HIDE DEF ent
    <3>6. /\ archive' \in Seq(Entries) /\ archive' # <<>>
          /\ \A i \in DOMAIN archive' : Fits(archive'[i])
          /\ \A i \in DOMAIN archive' : i < Len(archive') => IsWhole(archive'[i])
      BY <2>4, <3>5, AppendEntry
    <3>7. wpc' \in {"copy", "descend"}
      BY <2>4
    <3> QED BY <1>0, <2>1, <2>2, <2>4, <3>6, <3>7 DEF Packing, Fits, IsWhole
  <2> QED BY <1>3, <2>3, <2>4 DEF visit
<1>4. CASE copy
  <2> DEFINE q == Real(src, Head(todo).path)
             L == Len(archive)
             ent == [archive[L] EXCEPT !.node = src[q]]
             a == [archive EXCEPT ![L] = ent]
  <2>1. /\ wpc = "copy" /\ Has(src, q, "file") /\ Len(src[q].data) <= archive[L].size
        /\ archive' = a /\ wpc' = "descend"
        /\ UNCHANGED <<exclusions, src, edits, todo, tmp>>
    BY <1>4 DEF copy
  <2>2. archive # <<>> /\ todo # <<>>
    BY <1>0, <2>1
  <2>3. src[q] \in Node
    BY <1>0, <2>1 DEF IsTree, Has
  <2>4. L \in 1 .. L /\ L \in Nat /\ DOMAIN archive = 1 .. L
    BY <1>0, <2>2, SeqEmpty, SeqIs, SMTT(30)
  <2>5. archive[L] \in Entries
    BY <1>0, <2>4, SeqElement
  <2>6. ent \in Entries /\ Fits(ent)
    <3> HIDE DEF L, q
    <3> QED BY <2>1, <2>3, <2>5 DEF Entries, Fits
  <2> HIDE DEF ent
  <2>7. /\ a \in Seq(Entries) /\ Len(a) = L /\ a[L] = ent
        /\ \A i \in 1 .. L : i # L => a[i] = archive[i]
    <3>1. archive \in Seq(Entries) /\ L \in 1 .. Len(archive)
      BY <1>0, <2>4
    <3> HIDE DEF L
    <3>2. /\ a \in Seq(Entries) /\ Len(a) = Len(archive)
          /\ \A j \in 1 .. Len(archive) : a[j] = IF j = L THEN ent ELSE archive[j]
      BY <2>6, <3>1, SMTT(30)
    <3> HIDE DEF a
    <3>3. Len(archive) = L
      BY DEF L
    <3> QED BY <3>1, <3>2, <3>3
  <2> HIDE DEF a, L
  <2>8. DOMAIN a = 1 .. L /\ a # <<>>
    BY <2>4, <2>7, SeqIs, SeqEmpty, SMTT(30)
  <2>9. \A i \in DOMAIN a : Fits(a[i]) /\ (i < Len(a) => IsWhole(a[i]))
    <3> TAKE i \in DOMAIN a
    <3>1. CASE i = L
      BY <2>4, <2>6, <2>7, <3>1, SMTT(30)
    <3>2. CASE i # L
      <4>1. Fits(archive[i]) /\ (i < L => IsWhole(archive[i]))
        BY <1>0, <2>4, <2>8 DEF L
      <4> QED BY <2>7, <2>8, <3>2, <4>1
    <3> QED BY <3>1, <3>2
  <2> QED BY <1>0, <2>1, <2>2, <2>7, <2>8, <2>9 DEF Packing, Fits, IsWhole
<1>5. CASE descend
  <2>1. wpc = "descend" /\ wpc' = "visit" /\ UNCHANGED <<exclusions, src, edits, archive, tmp>>
    BY <1>5 DEF descend
  <2>2. todo # <<>>
    BY <1>0, <2>1
  <2>3. Head(todo) \in Item /\ Tail(todo) \in Seq(Item)
    BY <1>0, <2>2, SeqTail
  <2>4. ReadDir(src, Head(todo).path) \in Seq(Item)
    BY <1>0, <2>3, ReadDirItems DEF Item
  <2>5. ReadDir(src, Head(todo).path) \o Tail(todo) \in Seq(Item)
    BY <2>3, <2>4, SeqConcat
  <2>6. todo' \in Seq(Item)
    BY <1>5, <2>3, <2>5 DEF descend
  <2> QED BY <1>0, <2>1, <2>6 DEF Packing
<1>6. CASE finish
  <2>1. /\ wpc = "visit" /\ ~Short /\ wpc' = "packed"
        /\ UNCHANGED <<exclusions, src, edits, todo, archive, tmp>>
    BY <1>6 DEF finish
  <2>2. ASSUME NEW i \in DOMAIN archive PROVE IsWhole(archive[i])
    <3>1. DOMAIN archive = 1 .. Len(archive) /\ Len(archive) \in Nat
      BY <1>0, SeqIs
    <3>2. Fits(archive[i]) /\ (i < Len(archive) => IsWhole(archive[i]))
      BY <1>0
    <3>3. CASE i = Len(archive)
      <4>1. archive # <<>> /\ archive[Len(archive)] = archive[i]
        BY <3>1, <3>3, SMTT(30)
      <4>2. ~(archive[i].node.kind = "file" /\ Len(archive[i].node.data) < archive[i].size)
        BY <2>1, <4>1 DEF Short
      <4>3. archive[i].node \in Node /\ archive[i].size \in Nat
        <5>1. archive[i] \in Entries
          BY <1>0, <3>1, SeqElement
        <5> QED BY <5>1 DEF Entries
      <4>4. archive[i].node.kind = "file" => Len(archive[i].node.data) \in Nat
        BY <4>3, NodeFacts, SeqIs
      <4> QED BY <3>2, <4>2, <4>3, <4>4, SMTT(30) DEF Fits, IsWhole
    <3> QED BY <3>1, <3>2, <3>3, SMTT(30)
  <2> QED BY <1>0, <2>1, <2>2 DEF Packing, Fits, IsWhole
<1>7. CASE edit
  <2>1. /\ wpc \in {"visit", "copy", "descend"} /\ edits < MaxEdits /\ edits' = edits + 1
        /\ UNCHANGED <<exclusions, wpc, todo, archive, tmp>>
    BY <1>7, SMTT(30) DEF edit
  <2>2. edits' \in 0 .. MaxEdits
    BY <1>0, <2>1, MaxEditsAssumption, SMTT(30)
  <2>3. ASSUME NEW q \in {<<>>} \union DOMAIN src, NEW n \in Names
        PROVE  Append(q, n) \in Path \ {<<>>}
    <3>1. n \in STRING
      <4>1. Names \subseteq Name
        BY TreesAssumption
      <4> QED BY <4>1 DEF Name
    <3>2. <<>> \in Path
      BY SMTT(30) DEF Path
    <3>3. q \in Path
      BY <1>0, <3>2 DEF IsTree
    <3> QED BY <3>1, <3>3, AppendIsPath
  <2>4. PICK p \in DOMAIN src \union {Append(q, n) : q \in {<<>>} \union DOMAIN src, n \in Names} :
          \/ \E n \in Edits : src' = Put(src, p, n)
          \/ src' = Cut(src, p)
    BY <1>7, SMTT(30) DEF edit
  <2>5. p \in Path \ {<<>>}
    <3>1. DOMAIN src \subseteq Path \ {<<>>}
      BY <1>0, SMTT(30) DEF IsTree
    <3>2. CASE p \in DOMAIN src
      BY <3>1, <3>2, SMTT(30)
    <3>3. CASE p \in {Append(q, n) : q \in {<<>>} \union DOMAIN src, n \in Names}
      <4>1. PICK q \in {<<>>} \union DOMAIN src, n \in Names : p = Append(q, n)
        BY <3>3, SMTT(30)
      <4> QED BY <2>3, <4>1, SMTT(30)
    <3> QED BY <3>2, <3>3, SMTT(30)
  <2>6. IsTree(src')
    <3>1. CASE \E n \in Edits : src' = Put(src, p, n)
      BY <1>0, <2>5, <3>1, PutIsTree, TreesAssumption, SMTT(30)
    <3>2. CASE src' = Cut(src, p)
      BY <1>0, <3>2, CutIsTree, SMTT(30)
    <3> QED BY <2>4, <3>1, <3>2, SMTT(30)
  <2> QED BY <1>0, <2>1, <2>2, <2>6, SMTT(30) DEF Packing, IsTree
<1> QED
  BY <1>1, <1>2, <1>3, <1>4, <1>5, <1>6, <1>7 DEF Pack

\* The walk and Extract leave each other's variables alone.
LEMMA PackOnly ==
  ASSUME Pack
  PROVE  UNCHANGED extractVars
<1>1. CASE fail \/ begin \/ descend \/ finish
  BY <1>1 DEF fail, begin, descend, finish
<1>2. CASE visit
  BY <1>2 DEF visit
<1>3. CASE copy
  BY <1>3 DEF copy
<1>4. CASE edit
  BY <1>4 DEF edit
<1> QED
  BY <1>1, <1>2, <1>3, <1>4 DEF Pack

\* Extract does not touch what CreateArchive works on.
LEMMA ExtractOnly ==
  ASSUME Extract
  PROVE  UNCHANGED packVars
  BY DEF Extract, next, body, end, breakOff

---------------------------------------------------------------------------
(* Extract.  Each turn of its loop ends in one of five ways.               *)

NextEntry == archive[idx]
NextPath  == Clean(NextEntry.name)
Grown     == WithParents(dest, NextPath)

RefusesName == epc' = "refused" /\ UNCHANGED <<idx, seen, files, dest>>

Meets ==
  /\ NextPath \in Path \ {<<>>} /\ NextPath \notin seen
  /\ seen' = seen \union {NextPath} /\ files' = files + 1

RefusesEntry == Meets /\ epc' = "refused" /\ UNCHANGED <<idx, dest>>

Admits ==
  /\ Meets /\ files + 1 <= MaxFiles /\ NextEntry.size <= MaxBytes - bytes
  /\ ensureSafeParents(dest, NextPath)

RefusesNode == Admits /\ epc' = "refused" /\ dest' = Grown /\ UNCHANGED idx

OpensFile ==
  /\ Admits /\ NextEntry.node.kind = "file" /\ NextPath \notin DOMAIN Grown
  /\ epc' = "body" /\ dest' = With(Grown, NextPath, File(<<>>)) /\ UNCHANGED idx

AddsNode ==
  /\ Admits /\ NextEntry.node.kind \in {"dir", "link"}
  /\ epc' = "next" /\ idx' = idx + 1
  /\ dest' = IF NextPath \in DOMAIN Grown THEN Grown ELSE With(Grown, NextPath, NextEntry.node)

\* The entry that Extract reads.
LEMMA EntryFacts ==
  ASSUME Packing, idx \in 1 .. Len(archive)
  PROVE  NextEntry \in Entries /\ NextPath \in Path /\ NextEntry.size \in Nat /\ NextEntry.node \in Node
<1>1. NextEntry \in Entries
  <2>1. archive \in Seq(Entries)
    BY DEF Packing
  <2> QED BY <2>1, SeqElement DEF NextEntry
<1>2. NextEntry.name \in Path /\ NextEntry.size \in Nat /\ NextEntry.node \in Node
  BY <1>1 DEF Entries
<1>3. NextPath \in Path
  BY <1>2, CleanIsPath DEF NextPath
<1> QED
  BY <1>1, <1>2, <1>3

\* These are all the ways in which a turn of Extract can end.
LEMMA NextCases ==
  ASSUME Packing, Extracting, next
  PROVE  /\ RefusesName \/ RefusesEntry \/ RefusesNode \/ OpensFile \/ AddsNode
         /\ epc = "next" /\ idx \in 1 .. Len(archive) /\ UNCHANGED <<packVars, bytes>>
<1>1. epc = "next" /\ idx <= Len(archive) /\ UNCHANGED <<packVars, bytes>>
  BY DEF next
<1>2. idx \in 1 .. Len(archive)
  <2>1. Len(archive) \in Nat
    BY SeqIs DEF Packing
  <2>2. idx \in 1 .. Len(archive) + 1
    BY DEF Extracting
  <2> QED BY <1>1, <2>1, <2>2, SMTT(30)
<1>3. NextPath \in Path /\ NextEntry.size \in Nat /\ NextEntry.node \in Node
  BY <1>2, EntryFacts
<1>4. NextEntry.node.kind \in {"file", "link", "dir", "other"}
  BY <1>3, NodeFacts
<1>5. files \in Nat /\ bytes \in Nat /\ bytes <= MaxBytes /\ MaxFiles \in Nat /\ MaxBytes \in Nat
  BY LimitsAssumption, SMTT(30) DEF Extracting
<1> DEFINE e == NextEntry
           p == NextPath
           t == Grown
<1>6. \/ /\ ~safeArchivePath(e.name) \/ p \in seen
         /\ epc' = "refused"
         /\ UNCHANGED <<idx, seen, files, dest>>
      \/ /\ safeArchivePath(e.name) /\ p \notin seen
         /\ seen' = seen \union {p} /\ files' = files + 1
         /\ IF files + 1 > MaxFiles \/ exceedsSize(e) \/ ~ensureSafeParents(dest, p)
            THEN epc' = "refused" /\ UNCHANGED <<idx, dest>>
            ELSE IF ~creatable(t, p, e.node)
            THEN epc' = "refused" /\ dest' = t /\ UNCHANGED idx
            ELSE IF e.node.kind = "file"
            THEN epc' = "body" /\ dest' = With(t, p, File(<<>>)) /\ UNCHANGED idx
            ELSE /\ epc' = "next" /\ idx' = idx + 1
                 /\ dest' = IF p \in DOMAIN t THEN t ELSE With(t, p, e.node)
  BY DEF next, NextEntry, NextPath, Grown
<1>7. safeArchivePath(e.name) => p # <<>>
  BY DEF safeArchivePath, NextPath
<1>8. ~(files + 1 > MaxFiles) => files + 1 <= MaxFiles
  BY <1>5, SMTT(30)
<1>9. ~exceedsSize(e) => e.size <= MaxBytes - bytes
  BY <1>3, <1>5, SMTT(30) DEF exceedsSize
<1>10. creatable(t, p, e.node) =>
         /\ e.node.kind \in {"file", "dir", "link"}
         /\ e.node.kind = "file" => p \notin DOMAIN t
  BY DEF creatable
<1> HIDE DEF e, p, t
<1>11. \/ RefusesName
       \/ /\ p \in Path \ {<<>>} /\ p \notin seen /\ seen' = seen \union {p} /\ files' = files + 1
          /\ \/ epc' = "refused" /\ UNCHANGED <<idx, dest>>
             \/ /\ files + 1 <= MaxFiles /\ e.size <= MaxBytes - bytes /\ ensureSafeParents(dest, p)
                /\ \/ epc' = "refused" /\ dest' = t /\ UNCHANGED idx
                   \/ /\ e.node.kind = "file" /\ p \notin DOMAIN t
                      /\ epc' = "body" /\ dest' = With(t, p, File(<<>>)) /\ UNCHANGED idx
                   \/ /\ e.node.kind \in {"dir", "link"}
                      /\ epc' = "next" /\ idx' = idx + 1
                      /\ dest' = IF p \in DOMAIN t THEN t ELSE With(t, p, e.node)
  <2>1. p \in Path
    BY <1>3 DEF p
  <2>2. CASE epc' = "refused" /\ UNCHANGED <<idx, seen, files, dest>>
    BY <2>2 DEF RefusesName
  <2>3. CASE /\ safeArchivePath(e.name) /\ p \notin seen
             /\ seen' = seen \union {p} /\ files' = files + 1
             /\ epc' = "refused" /\ UNCHANGED <<idx, dest>>
    BY <1>7, <2>1, <2>3
  <2>4. CASE /\ safeArchivePath(e.name) /\ p \notin seen
             /\ seen' = seen \union {p} /\ files' = files + 1
             /\ ~(files + 1 > MaxFiles) /\ ~exceedsSize(e) /\ ensureSafeParents(dest, p)
             /\ IF ~creatable(t, p, e.node)
                THEN epc' = "refused" /\ dest' = t /\ UNCHANGED idx
                ELSE IF e.node.kind = "file"
                THEN epc' = "body" /\ dest' = With(t, p, File(<<>>)) /\ UNCHANGED idx
                ELSE /\ epc' = "next" /\ idx' = idx + 1
                     /\ dest' = IF p \in DOMAIN t THEN t ELSE With(t, p, e.node)
    BY <1>7, <1>8, <1>9, <1>10, <2>1, <2>4
  <2> QED BY <1>6, <2>2, <2>3, <2>4
<1>12. RefusesName \/ RefusesEntry \/ RefusesNode \/ OpensFile \/ AddsNode
  BY <1>11 DEF e, p, t, RefusesEntry, Meets, Admits, RefusesNode, OpensFile, AddsNode
<1> QED
  BY <1>1, <1>2, <1>12

IsReal(t) == \A p \in DOMAIN t : IsDir(t, Parent(p))

\* The parents of an entry become real directories, since none of them is anything else.
LEMMA RealParents ==
  ASSUME NEW t, IsTree(t), IsReal(t), NEW p \in Path \ {<<>>}, ensureSafeParents(t, p)
  PROVE  IsReal(WithParents(t, p)) /\ IsDir(WithParents(t, p), Parent(p))
<1> DEFINE w == WithParents(t, p)
<1>1. /\ DOMAIN w = DOMAIN t \union Parents(p)
      /\ \A q \in DOMAIN t : w[q] = t[q]
      /\ \A q \in Parents(p) : q \notin DOMAIN t => w[q] = Dir
  BY WithParentsFacts
<1> HIDE DEF w
<1>2. /\ Parent(p) = <<>> \/ Parent(p) \in Parents(p)
      /\ \A q \in Parents(p) : Parent(q) = <<>> \/ Parent(q) \in Parents(p)
  BY ParentFacts
<1>3. \A q \in Parents(p) : w[q].kind = "dir"
  <2> TAKE q \in Parents(p)
  <2>1. q \in DOMAIN t => t[q].kind = "dir"
    BY DEF ensureSafeParents, Parents
  <2>2. Dir.kind = "dir"
    BY DEF Dir
  <2> QED BY <1>1, <2>1, <2>2
<1>4. \A q \in Parents(p) : IsDir(w, q)
  BY <1>1, <1>3 DEF IsDir, Has
<1>5. ASSUME NEW q \in DOMAIN w PROVE IsDir(w, Parent(q))
  <2>1. CASE q \in Parents(p)
    BY <1>2, <1>4, <2>1 DEF IsDir
  <2>2. CASE q \in DOMAIN t
    BY <1>1, <2>2 DEF IsReal, IsDir, Has
  <2> QED BY <1>1, <2>1, <2>2
<1>6. IsDir(w, Parent(p))
  BY <1>2, <1>4 DEF IsDir
<1> QED
  BY <1>5, <1>6 DEF w, IsReal

\* A node put where its parent is a directory leaves every parent a directory.
LEMMA RealWith ==
  ASSUME NEW t, IsReal(t), NEW p, p \notin DOMAIN t, IsDir(t, Parent(p)), NEW n
  PROVE  IsReal(With(t, p, n))
<1> DEFINE w == With(t, p, n)
<1>1. DOMAIN w = DOMAIN t \union {p} /\ w[p] = n /\ \A q \in DOMAIN t : q # p => w[q] = t[q]
  BY DEF With
<1> HIDE DEF w
<1>2. ASSUME NEW q, IsDir(t, q) PROVE IsDir(w, q)
  BY <1>1, <1>2 DEF IsDir, Has
<1> QED
  BY <1>1, <1>2 DEF w, IsReal

\* What a turn that admits its entry finds.
LEMMA AdmitFacts ==
  ASSUME Packing, Extracting, Admits
  PROVE  /\ NextPath \in Path \ {<<>>} /\ IsTree(Grown) /\ IsReal(Grown) /\ IsDir(Grown, Parent(NextPath))
         /\ Bytes(Grown) = Bytes(dest) /\ Leaves(Grown) = Leaves(dest) /\ DOMAIN dest \subseteq DOMAIN Grown
<1>1. NextPath \in Path \ {<<>>} /\ ensureSafeParents(dest, NextPath)
  BY DEF Admits, Meets
<1>2. IsTree(dest) /\ IsReal(dest)
  BY DEF Extracting, TreeIsReal, IsReal
<1>3. IsTree(Grown)
  BY <1>1, <1>2, WithParentsIsTree DEF Grown
<1>4. IsReal(Grown) /\ IsDir(Grown, Parent(NextPath))
  BY <1>1, <1>2, RealParents DEF Grown
<1>5. Bytes(Grown) = Bytes(dest)
  BY <1>1, <1>2, BytesParents DEF Grown
<1>6. /\ DOMAIN Grown = DOMAIN dest \union Parents(NextPath)
      /\ \A q \in DOMAIN dest : Grown[q] = dest[q]
      /\ \A q \in Parents(NextPath) : q \notin DOMAIN dest => Grown[q] = Dir
  BY WithParentsFacts DEF Grown
<1>7. Dir.kind = "dir"
  BY DEF Dir
<1>8. Leaves(Grown) = Leaves(dest)
  BY <1>6, <1>7 DEF Leaves
<1> QED
  BY <1>1, <1>3, <1>4, <1>5, <1>6, <1>8

\* A turn of the loop of Extract preserves Extracting.
LEMMA ExtractingNext ==
  ASSUME Packing, Extracting, next
  PROVE  Extracting'
<1>1. /\ RefusesName \/ RefusesEntry \/ RefusesNode \/ OpensFile \/ AddsNode
      /\ epc = "next" /\ idx \in 1 .. Len(archive) /\ UNCHANGED <<packVars, bytes>>
  BY NextCases
<1>2. archive' = archive /\ bytes' = bytes /\ Len(archive) \in Nat
  BY <1>1, SeqIs DEF packVars, Packing
<1>3. /\ IsTree(dest) /\ IsReal(dest) /\ bytes \in 0 .. MaxBytes /\ files \in 0 .. MaxFiles + 1
      /\ idx \in 1 .. Len(archive) + 1
  BY DEF Extracting, TreeIsReal, IsReal
<1>4. NextEntry \in Entries /\ NextEntry.node \in Node
  BY <1>1, EntryFacts
<1>5. SUFFICES /\ IsTree(dest') /\ IsReal(dest')
               /\ files' \in 0 .. MaxFiles + 1 /\ (epc' # "refused" => files' <= MaxFiles)
               /\ epc' \in {"next", "body", "refused"} /\ idx' \in 1 .. Len(archive) + 1
               /\ epc' = "body" =>
                    /\ idx' = idx /\ NextEntry.node.kind = "file" /\ NextEntry.size <= MaxBytes - bytes
                    /\ NextPath \in DOMAIN dest' /\ dest'[NextPath] = File(<<>>)
  <2>1. bytes' \in 0 .. MaxBytes /\ idx' \in 1 .. Len(archive') + 1
    BY <1>2, <1>3, <1>5
  <2>2. IsTree(dest)' /\ TreeIsReal'
    BY <1>5 DEF IsTree, TreeIsReal, IsReal, IsDir, Has
  <2>3. ASSUME epc' = "body"
        PROVE  LET e == archive'[idx']
               IN /\ idx' <= Len(archive') /\ e.node.kind = "file" /\ e.size <= MaxBytes - bytes'
                  /\ Clean(e.name) \in DOMAIN dest' /\ dest'[Clean(e.name)] = File(<<>>)
    <3>1. idx' = idx /\ archive'[idx'] = NextEntry
      BY <1>2, <1>5, <2>3 DEF NextEntry
    <3>2. idx' <= Len(archive')
      BY <1>1, <1>2, <3>1, SMTT(30)
    <3> QED BY <1>2, <1>5, <2>3, <3>1, <3>2 DEF NextPath
  <2> QED BY <1>5, <2>1, <2>2, <2>3 DEF Extracting
<1>6. files <= MaxFiles /\ files + 1 \in 0 .. MaxFiles + 1
  BY <1>1, <1>3, LimitsAssumption, SMTT(30) DEF Extracting
<1>7. idx + 1 \in 1 .. Len(archive) + 1
  BY <1>1, <1>2, SMTT(30)
<1>8. CASE RefusesName
  BY <1>3, <1>8 DEF RefusesName
<1>9. CASE RefusesEntry
  BY <1>3, <1>6, <1>9 DEF RefusesEntry, Meets
<1>10. Admits => files' = files + 1 /\ files' <= MaxFiles /\ NextEntry.size <= MaxBytes - bytes
  BY DEF Admits, Meets
<1>11. CASE RefusesNode
  <2>1. IsTree(Grown) /\ IsReal(Grown)
    BY <1>11, AdmitFacts DEF RefusesNode
  <2> QED BY <1>3, <1>6, <1>10, <1>11, <2>1 DEF RefusesNode
<1>12. CASE OpensFile
  <2>1. /\ NextPath \in Path \ {<<>>} /\ IsTree(Grown) /\ IsReal(Grown)
        /\ IsDir(Grown, Parent(NextPath))
    BY <1>12, AdmitFacts DEF OpensFile
  <2>2. /\ NextPath \notin DOMAIN Grown /\ dest' = With(Grown, NextPath, File(<<>>))
        /\ epc' = "body" /\ idx' = idx /\ NextEntry.node.kind = "file" /\ Admits
    BY <1>12 DEF OpensFile
  <2>3. File(<<>>) \in Node
    BY NodeFacts, SeqEmpty
  <2>4. IsTree(dest') /\ IsReal(dest')
    BY <2>1, <2>2, <2>3, WithIsTree, RealWith
  <2>5. NextPath \in DOMAIN dest' /\ dest'[NextPath] = File(<<>>)
    BY <2>2 DEF With
  <2> QED BY <1>3, <1>6, <1>10, <2>2, <2>4, <2>5
<1>13. CASE AddsNode
  <2>1. /\ NextPath \in Path \ {<<>>} /\ IsTree(Grown) /\ IsReal(Grown)
        /\ IsDir(Grown, Parent(NextPath))
    BY <1>13, AdmitFacts DEF AddsNode
  <2>2. /\ dest' = IF NextPath \in DOMAIN Grown THEN Grown ELSE With(Grown, NextPath, NextEntry.node)
        /\ epc' = "next" /\ idx' = idx + 1 /\ Admits
    BY <1>13 DEF AddsNode
  <2>3. IsTree(dest') /\ IsReal(dest')
    BY <1>4, <2>1, <2>2, WithIsTree, RealWith
  <2> QED BY <1>6, <1>7, <1>10, <2>2, <2>3
<1> QED
  BY <1>1, <1>8, <1>9, <1>11, <1>12, <1>13

\* The body of a file: as many blocks as were copied.
LEMMA BodyFacts ==
  ASSUME Packing, wpc \in {"packed", "foreign"}, Extracting, body
  PROVE  \E n \in 0 .. NextEntry.size :
           /\ n \in Nat /\ n <= MaxBytes - bytes /\ NextPath \in Path \ {<<>>}
           /\ NextPath \in DOMAIN dest /\ dest[NextPath] = File(<<>>)
           /\ DOMAIN dest' = DOMAIN dest /\ IsTree(dest')
           /\ \A q \in DOMAIN dest : q # NextPath => dest'[q] = dest[q]
           /\ dest'[NextPath].kind = "file" /\ Len(dest'[NextPath].data) = n
           /\ \/ epc' = "next" /\ idx' = idx + 1 /\ bytes' = bytes + n
              \/ epc' = "failed" /\ UNCHANGED <<idx, bytes>>
           /\ idx \in 1 .. Len(archive) /\ epc = "body" /\ UNCHANGED <<packVars, seen, files>>
<1>1. epc = "body" /\ UNCHANGED <<packVars, seen, files>>
  BY DEF body
<1>2. /\ idx <= Len(archive) /\ NextEntry.node.kind = "file" /\ NextEntry.size <= MaxBytes - bytes
      /\ NextPath \in DOMAIN dest /\ dest[NextPath] = File(<<>>)
  BY <1>1 DEF Extracting, NextEntry, NextPath
<1>3. archive \in Seq(Entries) /\ Len(archive) \in Nat /\ DOMAIN archive = 1 .. Len(archive)
  BY SeqIs DEF Packing
<1>4. idx \in 1 .. Len(archive)
  BY SMTT(30), <1>2, <1>3 DEF Extracting
<1>5. NextEntry \in Entries /\ NextEntry.size \in Nat /\ NextEntry.node \in Node
  BY <1>4, EntryFacts
<1>6. wpc \in {"packed", "foreign"}
  OBVIOUS
<1>7. Len(NextEntry.node.data) = NextEntry.size
  BY <1>2, <1>3, <1>4, <1>6 DEF Packing, IsWhole, NextEntry
<1>8. NextEntry.node.data \in Seq(Nat)
  BY <1>2, <1>5, NodeFacts
<1>9. PICK n \in 0 .. NextEntry.size :
        /\ dest' = [dest EXCEPT ![NextPath] = File(SubSeq(NextEntry.node.data, 1, n))]
        /\ \/ /\ n = NextEntry.size
              /\ epc' = "next" /\ idx' = idx + 1 /\ bytes' = bytes + n
           \/ epc' = "failed" /\ UNCHANGED <<idx, bytes>>
  BY DEF body, NextEntry, NextPath
<1> DEFINE d == SubSeq(NextEntry.node.data, 1, n)
<1>10. d \in Seq(Nat) /\ Len(d) = n
  <2>1. n \in Nat /\ \A i \in 1 .. n : NextEntry.node.data[i] \in Nat
    BY <1>5, <1>7, <1>8, SeqElement, SMTT(30)
  <2>2. d \in Seq(Nat) /\ Len(d) = IF 1 <= n THEN n - 1 + 1 ELSE 0
    BY <2>1, SeqPart, SMTT(30)
  <2> HIDE DEF d
  <2> QED BY <2>1, <2>2, SMTT(30)
<1> HIDE DEF d
<1>11. File(d) \in Node /\ File(d).kind = "file" /\ File(d).data = d
  BY <1>10, NodeFacts
<1>12. dest' = [dest EXCEPT ![NextPath] = File(d)]
  BY <1>9 DEF d
<1>13. IsTree(dest)
  BY DEF Extracting
<1>14. /\ DOMAIN dest' = DOMAIN dest /\ dest'[NextPath] = File(d)
       /\ \A q \in DOMAIN dest : q # NextPath => dest'[q] = dest[q]
  BY <1>2, <1>12
<1>15. IsTree(dest')
  BY <1>11, <1>13, <1>14 DEF IsTree
<1>16. NextPath \in Path \ {<<>>}
  BY <1>2, <1>13 DEF IsTree
<1>17. n \in Nat /\ n <= MaxBytes - bytes
  <2>1. bytes \in Nat /\ MaxBytes \in Nat
    BY SMTT(30), LimitsAssumption DEF Extracting
  <2> QED BY <1>2, <1>5, <2>1, SMTT(30)
<1>18. /\ dest'[NextPath].kind = "file" /\ Len(dest'[NextPath].data) = n
  BY <1>10, <1>11, <1>14
<1>19. \/ epc' = "next" /\ idx' = idx + 1 /\ bytes' = bytes + n
       \/ epc' = "failed" /\ UNCHANGED <<idx, bytes>>
  BY <1>9
<1> QED
  BY <1>1, <1>2, <1>4, <1>14, <1>15, <1>16, <1>17, <1>18, <1>19

\* Copying the contents of a file preserves it.
LEMMA ExtractingBody ==
  ASSUME Packing, wpc \in {"packed", "foreign"}, Extracting, body
  PROVE  Extracting'
<1>1. PICK n \in 0 .. NextEntry.size :
        /\ n \in Nat /\ n <= MaxBytes - bytes /\ NextPath \in Path \ {<<>>}
        /\ NextPath \in DOMAIN dest /\ dest[NextPath] = File(<<>>)
        /\ DOMAIN dest' = DOMAIN dest /\ IsTree(dest')
        /\ \A q \in DOMAIN dest : q # NextPath => dest'[q] = dest[q]
        /\ dest'[NextPath].kind = "file" /\ Len(dest'[NextPath].data) = n
        /\ \/ epc' = "next" /\ idx' = idx + 1 /\ bytes' = bytes + n
           \/ epc' = "failed" /\ UNCHANGED <<idx, bytes>>
        /\ idx \in 1 .. Len(archive) /\ epc = "body" /\ UNCHANGED <<packVars, seen, files>>
  BY BodyFacts
<1>2. archive' = archive /\ files' = files /\ Len(archive) \in Nat
  BY <1>1, SeqIs DEF packVars, Packing
<1>3. IsReal(dest) /\ bytes \in 0 .. MaxBytes /\ files \in 0 .. MaxFiles + 1 /\ files <= MaxFiles
  BY <1>1 DEF Extracting, TreeIsReal, IsReal
<1>4. ASSUME NEW q, IsDir(dest, q) PROVE IsDir(dest', q)
  <2>1. File(<<>>).kind # "dir"
    BY DEF File
  <2> QED BY <1>1, <1>4, <2>1 DEF IsDir, Has
<1>5. IsReal(dest')
  BY <1>1, <1>3, <1>4 DEF IsReal
<1>6. idx' \in 1 .. Len(archive') + 1
  BY SMTT(30), <1>1, <1>2
<1>7. bytes' \in 0 .. MaxBytes
  BY <1>1, <1>3, LimitsAssumption, SMTT(30)
<1>8. TreeIsReal' /\ IsTree(dest)'
  BY <1>1, <1>5 DEF TreeIsReal, IsReal, IsDir, Has, IsTree
<1>9. epc' \in {"next", "failed"}
  BY <1>1
<1> QED
  BY <1>2, <1>3, <1>6, <1>7, <1>8, <1>9 DEF Extracting

---------------------------------------------------------------------------
(* What Extract counts.                                                    *)

\* The counts after a turn that puts n, one of the things Extract creates, at the path it
\* has met, or finds a directory there.
LEMMA CountEntry ==
  ASSUME Packing, Extracting, Counting, Admits, epc = "next",
         dest' = Grown \/ \E n \in Node : /\ NextPath \notin DOMAIN Grown
                                          /\ n.kind = "file" => n.data = <<>>
                                          /\ dest' = With(Grown, NextPath, n),
         NextPath \in DOMAIN dest', UNCHANGED bytes
  PROVE  /\ Bytes(dest') = bytes /\ seen' \subseteq DOMAIN dest' /\ Leaves(dest') \subseteq seen'
         /\ files' = Cardinality(seen') /\ Cardinality(Leaves(dest')) <= MaxFiles
<1>1. /\ NextPath \in Path \ {<<>>} /\ IsTree(Grown) /\ Bytes(Grown) = Bytes(dest)
      /\ Leaves(Grown) = Leaves(dest) /\ DOMAIN dest \subseteq DOMAIN Grown
  BY AdmitFacts
<1>2. /\ bytes = Bytes(dest) /\ seen \subseteq DOMAIN dest /\ Leaves(dest) \subseteq seen
      /\ files = Cardinality(seen)
  BY DEF Counting
<1>3. /\ NextPath \notin seen /\ seen' = seen \union {NextPath} /\ files' = files + 1
      /\ files + 1 <= MaxFiles
  BY DEF Admits, Meets
<1>4. /\ IsTree(dest') /\ Bytes(dest') = bytes /\ DOMAIN dest \subseteq DOMAIN dest'
      /\ Leaves(dest') \subseteq Leaves(dest) \union {NextPath}
  <2>1. CASE dest' = Grown
    BY <1>1, <1>2, <2>1
  <2>2. CASE \E n \in Node : /\ NextPath \notin DOMAIN Grown
                             /\ n.kind = "file" => n.data = <<>>
                             /\ dest' = With(Grown, NextPath, n)
    <3>1. PICK n \in Node : /\ NextPath \notin DOMAIN Grown
                            /\ n.kind = "file" => n.data = <<>>
                            /\ dest' = With(Grown, NextPath, n)
      BY <2>2
    <3>2. IsTree(dest')
      BY <1>1, <3>1, WithIsTree
    <3>3. Bytes(dest') = Bytes(Grown) + (IF n.kind = "file" THEN Len(n.data) ELSE 0)
      BY <1>1, <3>1, BytesWith
    <3>4. (IF n.kind = "file" THEN Len(n.data) ELSE 0) = 0
      BY <3>1, SeqEmpty
    <3>5. Bytes(dest') = bytes
      <4>1. Bytes(Grown) \in Nat
        BY <1>1, BytesNat
      <4> QED BY SMTT(30), <1>1, <1>2, <3>3, <3>4, <4>1
    <3>6. /\ DOMAIN dest' = DOMAIN Grown \union {NextPath}
          /\ \A q \in DOMAIN Grown : q # NextPath => dest'[q] = Grown[q]
      BY <3>1 DEF With
    <3>7. Leaves(dest') \subseteq Leaves(Grown) \union {NextPath}
      BY <3>6 DEF Leaves
    <3> QED BY <1>1, <3>2, <3>5, <3>6, <3>7
  <2> QED BY <2>1, <2>2
<1>5. seen' \subseteq DOMAIN dest' /\ Leaves(dest') \subseteq seen'
  BY <1>2, <1>3, <1>4
<1>6. IsFiniteSet(seen)
  <2>1. IsFiniteSet(DOMAIN dest) /\ seen \in SUBSET DOMAIN dest
    BY <1>2 DEF Extracting, IsTree
  <2> QED BY <2>1, FS_Subset
<1>7. IsFiniteSet(seen') /\ Cardinality(seen') = files'
  BY <1>2, <1>3, <1>6, FS_AddElement
<1>8. Cardinality(Leaves(dest')) <= MaxFiles
  <2>1. Leaves(dest') \in SUBSET seen'
    BY <1>5
  <2>2. Cardinality(Leaves(dest')) <= Cardinality(seen') /\ IsFiniteSet(Leaves(dest'))
    BY <1>7, <2>1, FS_Subset
  <2>3. Cardinality(Leaves(dest')) \in Nat /\ Cardinality(seen') \in Nat
    BY <1>7, <2>2, FS_CardinalityType
  <2> QED BY SMTT(30), <1>3, <1>7, <2>2, <2>3, LimitsAssumption
<1> QED
  BY <1>4, <1>5, <1>7, <1>8

\* A turn of the loop of Extract preserves Counting.
LEMMA CountingNext ==
  ASSUME Packing, Extracting, Counting, next
  PROVE  Counting'
<1>1. /\ RefusesName \/ RefusesEntry \/ RefusesNode \/ OpensFile \/ AddsNode
      /\ epc = "next" /\ idx \in 1 .. Len(archive) /\ UNCHANGED bytes
  BY NextCases
<1>2. Bytes(dest) <= MaxBytes /\ Cardinality(Leaves(dest)) <= MaxFiles /\ bytes = Bytes(dest)
  BY <1>1 DEF Counting
<1>3. CASE epc' = "refused" /\ Bytes(dest') = Bytes(dest) /\ Leaves(dest') = Leaves(dest)
  <2>1. Bytes(dest)' = Bytes(dest) /\ Leaves(dest)' = Leaves(dest)
    BY <1>3 DEF Leaves
  <2> QED BY <1>2, <1>3, <2>1 DEF Counting
<1>4. CASE RefusesName \/ RefusesEntry
  <2>1. epc' = "refused" /\ dest' = dest
    BY <1>4 DEF RefusesName, RefusesEntry
  <2> QED BY <1>3, <2>1
<1>5. CASE RefusesNode
  <2>1. epc' = "refused" /\ dest' = Grown /\ Admits
    BY <1>5 DEF RefusesNode
  <2>2. Bytes(Grown) = Bytes(dest) /\ Leaves(Grown) = Leaves(dest)
    BY <2>1, AdmitFacts
  <2> QED BY <1>3, <2>1, <2>2
<1>6. CASE /\ Bytes(dest') = bytes /\ seen' \subseteq DOMAIN dest' /\ Leaves(dest') \subseteq seen'
           /\ files' = Cardinality(seen') /\ Cardinality(Leaves(dest')) <= MaxFiles
  BY <1>1, <1>2, <1>6 DEF Counting, Leaves
<1>7. CASE OpensFile
  <2>1. /\ Admits /\ NextPath \notin DOMAIN Grown /\ dest' = With(Grown, NextPath, File(<<>>))
    BY <1>7 DEF OpensFile
  <2>2. File(<<>>) \in Node /\ File(<<>>).data = <<>>
    BY NodeFacts, SeqEmpty
  <2>3. NextPath \in DOMAIN dest'
    BY <2>1 DEF With
  <2>4. \E n \in Node : /\ NextPath \notin DOMAIN Grown
                        /\ n.kind = "file" => n.data = <<>>
                        /\ dest' = With(Grown, NextPath, n)
    BY <2>1, <2>2
  <2> QED BY <1>1, <1>6, <2>1, <2>3, <2>4, CountEntry
<1>8. CASE AddsNode
  <2>1. /\ Admits /\ NextEntry.node.kind \in {"dir", "link"}
        /\ dest' = IF NextPath \in DOMAIN Grown THEN Grown ELSE With(Grown, NextPath, NextEntry.node)
    BY <1>8 DEF AddsNode
  <2>2. NextEntry.node \in Node
    BY <1>1, EntryFacts
  <2>3. NextPath \in DOMAIN dest'
    BY <2>1 DEF With
  <2>4. dest' = Grown \/ \E n \in Node : /\ NextPath \notin DOMAIN Grown
                                         /\ n.kind = "file" => n.data = <<>>
                                         /\ dest' = With(Grown, NextPath, n)
    <3>1. CASE NextPath \in DOMAIN Grown
      BY <2>1, <3>1
    <3>2. CASE NextPath \notin DOMAIN Grown
      BY <2>1, <2>2, <3>2
    <3> QED BY <3>1, <3>2
  <2> QED BY <1>1, <1>6, <2>1, <2>3, <2>4, CountEntry
<1> QED
  BY <1>1, <1>4, <1>5, <1>7, <1>8

\* Copying the contents of a file adds the same number to both counts of bytes.
LEMMA CountingBody ==
  ASSUME Packing, wpc \in {"packed", "foreign"}, Extracting, Counting, body
  PROVE  Counting'
<1>1. PICK n \in 0 .. NextEntry.size :
        /\ n \in Nat /\ n <= MaxBytes - bytes /\ NextPath \in Path \ {<<>>}
        /\ NextPath \in DOMAIN dest /\ dest[NextPath] = File(<<>>)
        /\ DOMAIN dest' = DOMAIN dest /\ IsTree(dest')
        /\ \A q \in DOMAIN dest : q # NextPath => dest'[q] = dest[q]
        /\ dest'[NextPath].kind = "file" /\ Len(dest'[NextPath].data) = n
        /\ \/ epc' = "next" /\ idx' = idx + 1 /\ bytes' = bytes + n
           \/ epc' = "failed" /\ UNCHANGED <<idx, bytes>>
        /\ idx \in 1 .. Len(archive) /\ epc = "body" /\ UNCHANGED <<packVars, seen, files>>
  BY BodyFacts
<1>2. /\ bytes = Bytes(dest) /\ seen \subseteq DOMAIN dest /\ Leaves(dest) \subseteq seen
      /\ files = Cardinality(seen) /\ Cardinality(Leaves(dest)) <= MaxFiles
  BY <1>1 DEF Counting
<1>3. IsTree(dest) /\ bytes \in Nat /\ MaxBytes \in Nat
  BY SMTT(30), LimitsAssumption DEF Extracting
<1>4. PICK rest \in Nat :
        /\ Bytes(dest) = IF NextPath \in DOMAIN dest THEN Weights(dest)[NextPath] + rest ELSE rest
        /\ Bytes(dest') = IF NextPath \in DOMAIN dest' THEN Weights(dest')[NextPath] + rest ELSE rest
  BY <1>1, <1>3, BytesBut
<1>5. Weights(dest)[NextPath] = 0 /\ Weights(dest')[NextPath] = n
  <2>1. File(<<>>).kind = "file" /\ File(<<>>).data = <<>> /\ Len(<<>>) = 0
    BY DEF File
  <2> QED BY <1>1, <2>1 DEF Weights
<1>6. Bytes(dest') = bytes + n
  BY SMTT(30), <1>1, <1>2, <1>4, <1>5
<1>7. Leaves(dest') = Leaves(dest)
  <2>1. File(<<>>).kind # "dir"
    BY DEF File
  <2> QED BY <1>1, <2>1 DEF Leaves
<1>8. Bytes(dest') <= MaxBytes
  BY SMTT(30), <1>1, <1>3, <1>6
<1>9. Bytes(dest)' = Bytes(dest') /\ Leaves(dest)' = Leaves(dest')
  BY DEF Leaves
<1> QED
  BY <1>1, <1>2, <1>6, <1>7, <1>8, <1>9 DEF Counting
===========================================================================
