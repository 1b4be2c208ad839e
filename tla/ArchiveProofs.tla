---------------------------- MODULE ArchiveProofs -------------------------
(***************************************************************************)
(* What CreateArchive writes, for every tree and every order in which      *)
(* ReadDir may list it: each node once, parents first, and nothing left    *)
(* out that is not excluded.                                               *)
(***************************************************************************)
EXTENDS WorkspaceProofs

\* Leaves are for Zenon unless they name another prover.
USE ZenonT(30)

---------------------------------------------------------------------------
(* Paths: what is within what.                                             *)

\* A sequence over a set is one over every larger set.
LEMMA SeqWider ==
  ASSUME NEW S, NEW T, NEW s \in Seq(S), S \subseteq T
  PROVE  s \in Seq(T)
  BY SMTT(30)

\* The first components of a path.
LEMMA PrefixFacts ==
  ASSUME NEW S, NEW p \in Seq(S), NEW l \in 0 .. Len(p)
  PROVE  /\ SubSeq(p, 1, l) \in Seq(S) /\ Len(SubSeq(p, 1, l)) = l
         /\ \A i \in 1 .. l : SubSeq(p, 1, l)[i] = p[i]
<1>1. l \in Nat /\ Len(p) \in Nat /\ \A i \in 1 .. l : p[i] \in S
  <2>1. Len(p) \in Nat /\ \A i \in 1 .. Len(p) : p[i] \in S
    BY SeqIs, SeqElement
  <2> QED BY <2>1, SMTT(30)
<1>2. /\ SubSeq(p, 1, l) \in Seq(S)
      /\ Len(SubSeq(p, 1, l)) = IF 1 <= l THEN l - 1 + 1 ELSE 0
      /\ \A i \in 1 .. l - 1 + 1 : SubSeq(p, 1, l)[i] = p[1 + i - 1]
  BY <1>1, SeqPart, SMTT(30)
<1> DEFINE u == SubSeq(p, 1, l)
           m == Len(u)
<1> HIDE DEF u, m
<1>3. u \in Seq(S) /\ m = IF 1 <= l THEN l - 1 + 1 ELSE 0
  BY <1>2 DEF u, m
<1>4. m = l
  BY <1>1, <1>3, SMTT(30)
<1>5. ASSUME NEW i \in 1 .. l PROVE u[i] = p[i]
  <2>1. i \in 1 .. l - 1 + 1 /\ 1 + i - 1 = i
    BY <1>1, SMTT(30)
  <2> QED BY <2>1, <1>2 DEF u
<1> QED
  BY <1>3, <1>4, <1>5 DEF u, m

\* To lie below a path is to begin with its components.
LEMMA WithinIs ==
  ASSUME NEW p \in Path, NEW q \in Path
  PROVE  Within(p, q) <=> Len(q) <= Len(p) /\ \A i \in 1 .. Len(q) : p[i] = q[i]
<1>1. Len(p) \in Nat /\ Len(q) \in Nat
  BY SeqIs DEF Path
<1>2. CASE Len(q) <= Len(p)
  <2>1. Len(q) \in 0 .. Len(p)
    BY <1>1, <1>2, SMTT(30)
  <2> DEFINE u == SubSeq(p, 1, Len(q))
  <2>2. u \in Seq(STRING) /\ Len(u) = Len(q) /\ \A i \in 1 .. Len(q) : u[i] = p[i]
    BY <2>1, PrefixFacts DEF Path
  <2>3. Within(p, q) <=> u = q
    BY <1>2 DEF Within
  <2> HIDE DEF u
  <2>4. u = q <=> \A i \in 1 .. Len(q) : u[i] = q[i]
    BY <2>2, SeqSame DEF Path
  <2> QED BY <1>2, <2>2, <2>3, <2>4
<1> QED
  BY <1>2 DEF Within

\* Paths of one length, one below the other, are the same.
LEMMA WithinSame ==
  ASSUME NEW p \in Path, NEW q \in Path, Within(p, q), Len(p) <= Len(q)
  PROVE  p = q
<1>1. Len(p) \in Nat /\ Len(q) \in Nat
  BY SeqIs DEF Path
<1>2. Len(p) = Len(q) /\ \A i \in 1 .. Len(p) : p[i] = q[i]
  BY <1>1, WithinIs, SMTT(30)
<1> QED
  BY <1>2, SeqSame DEF Path

\* "Below" is an order.
LEMMA WithinOrder ==
  ASSUME NEW p \in Path, NEW q \in Path
  PROVE  /\ Within(p, p)
         /\ Within(p, q) /\ Within(q, p) => p = q
         /\ \A r \in Path : Within(p, q) /\ Within(q, r) => Within(p, r)
<1>1. Len(p) \in Nat /\ Len(q) \in Nat
  BY SeqIs DEF Path
<1>2. Within(p, p)
  BY <1>1, WithinIs, SMTT(30)
<1>3. Within(p, q) /\ Within(q, p) => p = q
  <2>1. Within(q, p) => Len(p) <= Len(q)
    BY DEF Within
  <2> QED BY <2>1, WithinSame
<1>4. ASSUME NEW r \in Path, Within(p, q), Within(q, r) PROVE Within(p, r)
  <2>1. Len(r) \in Nat
    BY SeqIs DEF Path
  <2>2. Len(q) <= Len(p) /\ \A i \in 1 .. Len(q) : p[i] = q[i]
    BY <1>4, WithinIs
  <2>3. Len(r) <= Len(q) /\ \A i \in 1 .. Len(r) : q[i] = r[i]
    BY <1>4, WithinIs
  <2>4. Len(r) <= Len(p) /\ \A i \in 1 .. Len(r) : p[i] = r[i]
    BY <1>1, <2>1, <2>2, <2>3, SMTT(30)
  <2> QED BY <2>4, WithinIs
<1> QED
  BY <1>2, <1>3, <1>4

\* What is above a path is the path, or above its directory.
LEMMA WithinParent ==
  ASSUME NEW p \in Path \ {<<>>}, NEW q \in Path
  PROVE  Within(p, q) <=> p = q \/ Within(Parent(p), q)
<1>1. Len(q) \in Nat /\ Len(p) \in Nat
  BY SeqIs DEF Path
<1>2. /\ Parent(p) \in Path /\ Len(Parent(p)) = Len(p) - 1
      /\ \A i \in 1 .. Len(p) - 1 : Parent(p)[i] = p[i]
  BY Ends DEF Path
<1>3. ASSUME Within(p, q), p # q PROVE Within(Parent(p), q)
  <2>1. Len(q) <= Len(p) /\ ~(Len(p) <= Len(q)) /\ \A i \in 1 .. Len(q) : p[i] = q[i]
    BY <1>3, WithinIs, WithinSame
  <2>2. Len(q) <= Len(p) - 1
    BY <1>1, <2>1, SMTT(30)
  <2>3. \A i \in 1 .. Len(q) : i \in 1 .. Len(p) - 1
    BY <1>1, <2>2, SMTT(30)
  <2> DEFINE r == Parent(p)
  <2> HIDE DEF r
  <2>4. r \in Path /\ Len(q) <= Len(r) /\ \A i \in 1 .. Len(q) : r[i] = q[i]
    BY <1>1, <1>2, <2>1, <2>2, <2>3 DEF r
  <2>5. Within(r, q)
    BY <2>4, WithinIs
  <2> QED BY <2>5 DEF r
<1>4. ASSUME Within(Parent(p), q) PROVE Within(p, q)
  <2> DEFINE r == Parent(p)
  <2> HIDE DEF r
  <2>1. r \in Path /\ Within(r, q) /\ Len(r) = Len(p) - 1 /\ \A i \in 1 .. Len(p) - 1 : r[i] = p[i]
    BY <1>2, <1>4 DEF r
  <2>2. Len(q) <= Len(r) /\ \A i \in 1 .. Len(q) : r[i] = q[i]
    BY <2>1, WithinIs
  <2>3. \A i \in 1 .. Len(q) : i \in 1 .. Len(p) - 1
    BY <1>1, <2>1, <2>2, SMTT(30)
  <2>4. Len(q) <= Len(p) /\ \A i \in 1 .. Len(q) : p[i] = q[i]
    BY <1>1, <2>1, <2>2, <2>3, SMTT(30)
  <2> QED BY <2>4, WithinIs
<1>5. p = q => Within(p, q)
  BY WithinOrder
<1> QED
  BY <1>3, <1>4, <1>5

\* A path with one more component, and what it is taken apart into.
LEMMA ChildFacts ==
  ASSUME NEW S, NEW p \in Seq(S), NEW n \in S
  PROVE  /\ Append(p, n) \in Seq(S) \ {<<>>} /\ Len(Append(p, n)) = Len(p) + 1
         /\ \A i \in 1 .. Len(p) : Append(p, n)[i] = p[i]
         /\ Append(p, n)[Len(p) + 1] = n
         /\ Parent(Append(p, n)) = p /\ Base(Append(p, n)) = n
<1> DEFINE c == Append(p, n)
<1>1. /\ c \in Seq(S) /\ c # <<>> /\ Len(c) = Len(p) + 1
      /\ \A i \in 1 .. Len(p) : c[i] = p[i]
      /\ c[Len(p) + 1] = n
  BY SeqAppend
<1>2. Len(p) \in Nat
  BY SeqIs
<1> HIDE DEF c
<1>3. /\ Parent(c) \in Seq(S) /\ Len(Parent(c)) = Len(c) - 1
      /\ \A i \in 1 .. Len(c) - 1 : Parent(c)[i] = c[i]
  BY <1>1, Ends
<1> DEFINE r == Parent(c)
<1> HIDE DEF r
<1>4. r \in Seq(S) /\ Len(r) = Len(p) /\ \A i \in 1 .. Len(p) : r[i] = p[i]
  BY <1>1, <1>2, <1>3, SMTT(30) DEF r
<1>5. r = p
  BY <1>4, SeqSame
<1>6. Base(c) = n
  BY <1>1 DEF Base
<1> QED
  BY <1>1, <1>5, <1>6 DEF c, r

\* A path that is not empty is its last component in its directory.
LEMMA JoinEnds ==
  ASSUME NEW S, NEW p \in Seq(S) \ {<<>>}
  PROVE  p = Append(Parent(p), Base(p))
<1>1. /\ Parent(p) \in Seq(S) /\ Base(p) \in S /\ Len(p) \in Nat \ {0}
      /\ Len(Parent(p)) = Len(p) - 1 /\ \A i \in 1 .. Len(p) - 1 : Parent(p)[i] = p[i]
  BY Ends, SeqEmpty
<1> DEFINE d == Parent(p)
           n == Base(p)
           c == Append(d, n)
<1>2. d \in Seq(S) /\ n \in S /\ Len(d) = Len(p) - 1 /\ \A i \in 1 .. Len(p) - 1 : d[i] = p[i]
  BY <1>1
<1>3. n = p[Len(p)]
  BY DEF Base
<1> HIDE DEF d, n
<1>4. /\ c \in Seq(S) /\ Len(c) = Len(d) + 1
      /\ \A i \in 1 .. Len(d) : c[i] = d[i]
      /\ c[Len(d) + 1] = n
  BY <1>2, SeqAppend, SMTT(30)
<1> HIDE DEF c
<1>5. Len(c) = Len(p) /\ c[Len(p)] = n
  BY <1>1, <1>2, <1>4, SMTT(30)
<1>6. ASSUME NEW i \in 1 .. Len(p) PROVE c[i] = p[i]
  <2>1. CASE i = Len(p)
    BY <1>5, <1>3, <2>1
  <2>2. CASE i # Len(p)
    <3>1. i \in 1 .. Len(p) - 1 /\ i \in 1 .. Len(d)
      BY <1>1, <1>2, <2>2, SMTT(30)
    <3> QED BY <3>1, <1>2, <1>4
  <2> QED BY <2>1, <2>2
<1>7. c = p
  BY <1>4, <1>5, <1>6, SeqSame
<1> QED
  BY <1>7 DEF c, d, n

\* What lies below a path and is not the path lies at or below an entry of it.
LEMMA BelowChild ==
  ASSUME NEW S \in SUBSET STRING, NEW p \in Seq(S), NEW q \in Path, Within(p, q), p # q
  PROVE  \E n \in S : Within(p, Append(q, n))
<1>1. p \in Path
  BY SeqWider DEF Path
<1>2. Len(p) \in Nat /\ Len(q) \in Nat /\ \A i \in 1 .. Len(p) : p[i] \in S
  BY SeqIs, SeqElement DEF Path
<1>3. ~(Len(p) <= Len(q)) /\ \A i \in 1 .. Len(q) : p[i] = q[i]
  BY <1>1, WithinIs, WithinSame
<1> DEFINE n == p[Len(q) + 1]
           c == Append(q, n)
<1>4. Len(q) + 1 \in 1 .. Len(p) /\ n \in S /\ n \in STRING
  <2>1. Len(q) + 1 \in 1 .. Len(p)
    BY <1>2, <1>3, SMTT(30)
  <2>2. n \in S
    BY <2>1, <1>2
  <2> QED BY <2>1, <2>2
<1>5. n = p[Len(q) + 1]
  OBVIOUS
<1> HIDE DEF n
<1>6. /\ c \in Seq(STRING) /\ Len(c) = Len(q) + 1
      /\ \A i \in 1 .. Len(q) : c[i] = q[i]
      /\ c[Len(q) + 1] = n
  <2>0. PICK T : T = STRING
    OBVIOUS
  <2>1. q \in Seq(T) /\ n \in T
    BY <1>4, <2>0 DEF Path
  <2>2. /\ c \in Seq(T) /\ Len(c) = Len(q) + 1
        /\ \A i \in 1 .. Len(q) : c[i] = q[i]
        /\ c[Len(q) + 1] = n
    BY <2>1, ChildFacts, SMTT(30)
  <2> HIDE DEF c
  <2> QED BY <2>0, <2>2
<1> HIDE DEF c
<1>7. Len(c) <= Len(p)
  BY <1>2, <1>4, <1>6, SMTT(30)
<1>8. ASSUME NEW i \in 1 .. Len(c) PROVE p[i] = c[i]
  <2>1. CASE i = Len(q) + 1
    BY <2>1, <1>5, <1>6
  <2>2. CASE i # Len(q) + 1
    <3>1. i \in 1 .. Len(q)
      BY <2>2, <1>2, <1>6, SMTT(30)
    <3> QED BY <3>1, <1>3, <1>6
  <2> QED BY <2>1, <2>2
<1>9. Within(p, c)
  BY <1>1, <1>6, <1>7, <1>8, WithinIs DEF Path
<1> QED
  BY <1>4, <1>9 DEF c

\* The paths above a path, one component after the other.
LEMMA PrefixNext ==
  ASSUME NEW S, NEW p \in Seq(S)
  PROVE  /\ SubSeq(p, 1, 0) = <<>> /\ SubSeq(p, 1, Len(p)) = p
         /\ \A i \in 1 .. Len(p) : SubSeq(p, 1, i) = Append(SubSeq(p, 1, i - 1), p[i])
<1>1. SubSeq(p, 1, 0) = <<>> /\ SubSeq(p, 1, Len(p)) = p
  BY SMTT(30)
<1>2. ASSUME NEW i \in 1 .. Len(p)
      PROVE  SubSeq(p, 1, i) = Append(SubSeq(p, 1, i - 1), p[i])
  BY SMTT(30)
<1> QED
  BY <1>1, <1>2

\* The paths on a disk.
LEMMA NamesArePaths ==
  /\ Name \subseteq STRING /\ Name \in SUBSET STRING
  /\ \A p \in Seq(Name) : p \in Path
<1>1. Name \subseteq STRING
  BY DEF Name
<1>2. ASSUME NEW p \in Seq(Name) PROVE p \in Path
  BY <1>1, SeqWider DEF Path
<1> QED
  BY <1>1, <1>2

---------------------------------------------------------------------------
(* Trees on disk: listing a directory, resolving a path, an edit.          *)

\* What is above a node is a directory.
LEMMA Ancestors ==
  ASSUME NEW t, IsOnDisk(t), NEW p \in DOMAIN t, NEW q \in Path \ {<<>>}, Within(p, q)
  PROVE  q \in DOMAIN t /\ (q # p => t[q].kind = "dir")
<1> DEFINE Good(r) == q \in DOMAIN t /\ (q # r => t[q].kind = "dir")
           C == {l \in 0 .. Len(p) : \A r \in DOMAIN t : Len(r) = l /\ Within(r, q) => Good(r)}
<1>1. ASSUME NEW r \in DOMAIN t
      PROVE  r \in Path \ {<<>>} /\ Len(r) \in Nat \ {0} /\ Parent(r) \in Path
             /\ Len(Parent(r)) = Len(r) - 1 /\ IsDir(t, Parent(r))
  <2>1. r \in Path \ {<<>>} /\ IsDir(t, Parent(r))
    BY DEF IsOnDisk, IsTree
  <2> QED BY <2>1, Ends, SeqEmpty DEF Path
<1>2. 0 \in C
  BY <1>1, SMTT(30)
<1>3. ASSUME NEW l \in 1 .. Len(p), l - 1 \in C PROVE l \in C
  <2>1. ASSUME NEW r \in DOMAIN t, Len(r) = l, Within(r, q), r # q
        PROVE  Good(r)
    <3>1. Within(Parent(r), q) /\ Parent(r) \in Path
      BY <1>1, <2>1, WithinParent
    <3>2. Parent(r) # <<>>
      <4>1. Len(q) \in Nat \ {0} /\ Len(<<>>) = 0
        BY SeqEmpty DEF Path
      <4> QED BY <3>1, <4>1, SMTT(30) DEF Within
    <3>3. Parent(r) \in DOMAIN t /\ t[Parent(r)].kind = "dir"
      BY <1>1, <3>2 DEF IsDir, Has
    <3>4. Good(Parent(r))
      BY <1>1, <1>3, <2>1, <3>1, <3>3
    <3> QED BY <3>3, <3>4
  <2>2. ASSUME NEW r \in DOMAIN t, Len(r) = l, Within(r, q)
        PROVE  Good(r)
    BY <2>1, <2>2
  <2> HIDE DEF Good
  <2>3. l \in 0 .. Len(p)
    BY <1>1, SMTT(30)
  <2> QED BY <2>2, <2>3
<1>4. Len(p) \in C
  <2> HIDE DEF C
  <2>1. Len(p) \in Nat
    BY <1>1
  <2>2. \A l \in 0 .. Len(p) : l \in C
    BY <1>2, <1>3, <2>1, Climb
  <2> QED BY <2>1, <2>2, SMTT(30)
<1> QED
  BY <1>4

\* Where no link is on the way, the kernel takes a path as it stands.
LEMMA RealIs ==
  ASSUME NEW S, NEW t, NEW p \in Seq(S), \A i \in 1 .. Len(p) : ~Has(t, SubSeq(p, 1, i), "link")
  PROVE  Real(t, p) = p
<1> DEFINE N == Len(p)
           E(h) == h = [i \in 0 .. Len(p) |->
                          IF i = 0 THEN <<>> ELSE Hop(t, Hop(t, Append(h[i - 1], p[i])))]
           at == CHOOSE h : E(h)
           f == [i \in 0 .. N |-> SubSeq(p, 1, i)]
<1>1. N \in Nat
  BY SeqIs
<1>2. ASSUME NEW i \in 1 .. N
      PROVE  SubSeq(p, 1, i) = Hop(t, Hop(t, Append(SubSeq(p, 1, i - 1), p[i])))
  <2>1. SubSeq(p, 1, i) = Append(SubSeq(p, 1, i - 1), p[i])
    BY PrefixNext
  <2> DEFINE u == SubSeq(p, 1, i)
  <2>2. ~Has(t, u, "link")
    OBVIOUS
  <2> HIDE DEF u
  <2>3. Hop(t, Hop(t, u)) = u
    BY <2>2 DEF Hop
  <2> QED BY <2>1, <2>3 DEF u
<1>3. SubSeq(p, 1, 0) = <<>> /\ SubSeq(p, 1, N) = p
  BY PrefixNext
<1>4. E(f)
  <2>1. ASSUME NEW i \in 0 .. N
        PROVE  f[i] = IF i = 0 THEN <<>> ELSE Hop(t, Hop(t, Append(f[i - 1], p[i])))
    <3>1. CASE i = 0
      BY <3>1, <1>3
    <3>2. CASE i # 0
      <4>1. i \in 1 .. N /\ i - 1 \in 0 .. N
        BY <3>2, <1>1, SMTT(30)
      <4>2. f[i] = SubSeq(p, 1, i) /\ f[i - 1] = SubSeq(p, 1, i - 1)
        BY <4>1
      <4> QED BY <4>1, <4>2, <1>2, <3>2
    <3> QED BY <3>1, <3>2
  <2>2. f = [i \in 0 .. N |-> IF i = 0 THEN <<>> ELSE Hop(t, Hop(t, Append(f[i - 1], p[i])))]
    BY <2>1
  <2> QED BY <2>2
<1>5. E(at)
  BY <1>4
<1>6. Real(t, p) = at[N]
  BY DEF Real
<1> DEFINE C == {i \in 0 .. N : at[i] = SubSeq(p, 1, i)}
<1> HIDE DEF at
<1>7. 0 \in C
  BY <1>1, <1>3, <1>5, SMTT(30)
<1>8. ASSUME NEW i \in 1 .. N, i - 1 \in C PROVE i \in C
  <2>1. at[i] = Hop(t, Hop(t, Append(at[i - 1], p[i])))
    BY <1>1, <1>5, SMTT(30)
  <2>2. at[i] = SubSeq(p, 1, i)
    BY <2>1, <1>2, <1>8
  <2> QED BY <2>2, SMTT(30)
<1>9. N \in C
  <2> HIDE DEF C, N
  <2>1. \A i \in 0 .. N : i \in C
    BY <1>1, <1>7, <1>8, Climb
  <2> QED BY <2>1, <1>1, SMTT(30)
<1> QED
  BY <1>3, <1>6, <1>9

\* A node is where its path says, if it is not a link; and the directory of a node is.
LEMMA RealOnDisk ==
  ASSUME NEW t, IsOnDisk(t)
  PROVE  /\ \A p \in DOMAIN t : t[p].kind # "link" => Real(t, p) = p
         /\ \A p \in DOMAIN t : Lstat(t, p) = p
         /\ Real(t, <<>>) = <<>>
<1>1. ASSUME NEW p \in DOMAIN t, t[p].kind # "link" PROVE Real(t, p) = p
  <2>1. p \in Seq(STRING) /\ p \in Path /\ Len(p) \in Nat
    BY SeqIs DEF IsOnDisk, IsTree, Path
  <2>2. ASSUME NEW i \in 1 .. Len(p) PROVE ~Has(t, SubSeq(p, 1, i), "link")
    <3> DEFINE u == SubSeq(p, 1, i)
    <3>1. i \in 0 .. Len(p) /\ i # 0
      BY <2>1, SMTT(30)
    <3>2. u \in Seq(STRING) /\ Len(u) = i /\ \A j \in 1 .. i : u[j] = p[j]
      BY <2>1, <3>1, PrefixFacts
    <3> HIDE DEF u
    <3>3. u \in Path \ {<<>>} /\ Len(u) <= Len(p) /\ \A j \in 1 .. Len(u) : p[j] = u[j]
      BY <2>1, <3>1, <3>2, SeqEmpty, SMTT(30) DEF Path
    <3>4. Within(p, u)
      BY <2>1, <3>3, WithinIs
    <3>5. u # p => t[u].kind = "dir"
      BY <3>3, <3>4, Ancestors
    <3>6. ~Has(t, u, "link")
      BY <1>1, <3>5 DEF Has
    <3> QED BY <3>6 DEF u
  <2> QED BY <2>1, <2>2, RealIs
<1>2. Real(t, <<>>) = <<>>
  <2>1. <<>> \in Seq(STRING) /\ Len(<<>>) = 0
    BY SeqEmpty
  <2>2. \A i \in 1 .. Len(<<>>) : ~Has(t, SubSeq(<<>>, 1, i), "link")
    BY <2>1, SMTT(30)
  <2> QED BY <2>1, <2>2, RealIs
<1>3. ASSUME NEW p \in DOMAIN t PROVE Lstat(t, p) = p
  <2>1. p \in Seq(STRING) \ {<<>>} /\ IsDir(t, Parent(p))
    BY DEF IsOnDisk, IsTree, Path
  <2>2. Real(t, Parent(p)) = Parent(p)
    BY <2>1, <1>1, <1>2 DEF IsDir, Has
  <2>3. Append(Parent(p), Base(p)) = p
    BY <2>1, JoinEnds
  <2> QED BY <2>2, <2>3 DEF Lstat
<1> QED
  BY <1>1, <1>2, <1>3

\* ReadDir lists each entry of the directory once, with its type, and all of them.
LEMMA ReadDirFacts ==
  ASSUME NEW t, IsOnDisk(t), NEW p \in Path
  PROVE  LET d == ReadDir(t, p)
             at(n) == Append(Real(t, p), n)
         IN /\ \A i \in DOMAIN d : \E n \in Name :
                 d[i].path = Append(p, n) /\ at(n) \in DOMAIN t /\ d[i].dir = Has(t, at(n), "dir")
            /\ \A i, j \in DOMAIN d : i # j => d[i].path # d[j].path
            /\ \A n \in Name : at(n) \in DOMAIN t => \E i \in DOMAIN d : d[i].path = Append(p, n)
<1> DEFINE lasts == {Base(q) : q \in DOMAIN t}
           names == {n \in lasts : Append(Real(t, p), n) \in DOMAIN t}
           item(n) == [path |-> Append(p, n), dir |-> Has(t, Append(Real(t, p), n), "dir")]
           order == CHOOSE o \in [1 .. Cardinality(names) -> names] : IsInjective(o)
           f == [q \in DOMAIN t |-> Base(q)]
           at(n) == Append(Real(t, p), n)
           d == ReadDir(t, p)
<1>1. \A q \in DOMAIN t : Base(q) \in Name
  BY Ends DEF IsOnDisk, IsTree
<1>2. IsFiniteSet(lasts)
  <2>1. f \in Surjection(DOMAIN t, lasts)
    BY DEF Surjection
  <2> HIDE DEF f, lasts
  <2> QED BY <2>1, FS_Surjection DEF IsOnDisk, IsTree
<1>3. names \in SUBSET lasts /\ names \subseteq Name
  BY <1>1
<1>4. IsFiniteSet(names)
  <2> HIDE DEF lasts, names
  <2> QED BY <1>2, <1>3, FS_Subset
<1> DEFINE K == Cardinality(names)
<1>5. K \in Nat /\ order \in [1 .. K -> names] /\ IsInjective(order)
  <2> HIDE DEF names
  <2>1. Cardinality(names) \in Nat /\ ExistsBijection(1 .. Cardinality(names), names)
    BY <1>4, FS_CardinalityType
  <2>2. PICK h : h \in Bijection(1 .. Cardinality(names), names)
    BY <2>1 DEF ExistsBijection
  <2>3. h \in [1 .. Cardinality(names) -> names] /\ IsInjective(h)
    BY <2>2 DEF Bijection, Injection
  <2>4. order \in [1 .. Cardinality(names) -> names] /\ IsInjective(order)
    BY <2>3
  <2> QED BY <2>1, <2>4
<1>6. order \in Surjection(1 .. K, names)
  <2> HIDE DEF names, order, K
  <2>1. order \in Injection(1 .. K, names)
    BY <1>5 DEF Injection
  <2>2. IsFiniteSet(1 .. K) /\ Cardinality(1 .. K) = K
    BY <1>5, FS_Interval, SMTT(30)
  <2>3. Cardinality(1 .. K) = Cardinality(names)
    BY <2>2 DEF K
  <2> QED BY <1>4, <2>1, <2>3, FS_Injection
<1>7. Len(order) = K
  <2> HIDE DEF names, order, K
  <2> QED BY <1>5, SMTT(30)
<1>8. d = [i \in 1 .. K |-> item(order[i])]
  <2>1. d = [i \in 1 .. Len(order) |-> item(order[i])]
    BY DEF ReadDir
  <2> HIDE DEF d, order, names, item, K
  <2> QED BY <2>1, <1>7
<1>9. \A n \in Name : at(n) \in DOMAIN t => n \in names
  <2> TAKE n \in Name
  <2> HAVE at(n) \in DOMAIN t
  <2>1. PICK q \in DOMAIN t : q = at(n)
    OBVIOUS
  <2>2. q \in Seq(Name) \ {<<>>}
    BY DEF IsOnDisk, IsTree
  <2>3. Base(q) = n
    <3>1. q = Append(Parent(q), Base(q)) /\ Parent(q) \in Seq(Name) /\ Base(q) \in Name
      BY <2>2, JoinEnds, Ends
    <3> QED BY <2>1, <3>1, SMTT(30)
  <2> QED BY <2>1, <2>3
<1> HIDE DEF d, order, names, K
<1>10. ASSUME NEW i \in DOMAIN d
       PROVE  /\ i \in 1 .. K /\ order[i] \in names /\ order[i] \in Name
              /\ d[i] = item(order[i])
  BY <1>3, <1>5, <1>8
<1>11. \A i \in DOMAIN d : \E n \in Name :
         d[i].path = Append(p, n) /\ at(n) \in DOMAIN t /\ d[i].dir = Has(t, at(n), "dir")
  <2> TAKE i \in DOMAIN d
  <2>1. order[i] \in Name /\ d[i] = item(order[i]) /\ at(order[i]) \in DOMAIN t
    BY <1>10 DEF names
  <2> QED BY <2>1, SMTT(30)
<1>12. ASSUME NEW i \in DOMAIN d, NEW j \in DOMAIN d, i # j PROVE d[i].path # d[j].path
  <2>1. order[i] # order[j]
    BY <1>5, <1>10, <1>12 DEF IsInjective
  <2>2. order[i] \in STRING /\ order[j] \in STRING
    BY <1>10 DEF Name
  <2>3. /\ Append(p, order[i])[Len(p) + 1] = order[i]
        /\ Append(p, order[j])[Len(p) + 1] = order[j]
    BY <2>2, SeqAppend, SMTT(30) DEF Path
  <2> QED BY <1>10, <2>1, <2>3, SMTT(30)
<1>13. ASSUME NEW n \in Name, at(n) \in DOMAIN t
       PROVE  \E i \in DOMAIN d : d[i].path = Append(p, n)
  <2>1. n \in names
    BY <1>9, <1>13
  <2>2. PICK i \in 1 .. K : order[i] = n
    BY <2>1, <1>6 DEF Surjection
  <2>3. i \in DOMAIN d /\ d[i] = item(n)
    BY <1>8, <2>2
  <2> QED BY <2>3, SMTT(30)
<1> QED
  BY <1>11, <1>12, <1>13 DEF d

\* Replacing or removing a node of a directory leaves what a disk can hold.
LEMMA EditsOnDisk ==
  ASSUME NEW t, IsOnDisk(t), NEW p \in Seq(Name) \ {<<>>}, IsDir(t, Parent(p))
  PROVE  /\ IsOnDisk(Cut(t, p))
         /\ \A n \in Node : IsOnDisk(Put(t, p, n))
<1> DEFINE c == Cut(t, p)
<1>1. /\ DOMAIN c = {q \in DOMAIN t : ~Within(q, p)}
      /\ \A q \in DOMAIN c : c[q] = t[q]
  BY DEF Cut, Restrict
<1>2. p \in Path \ {<<>>} /\ IsTree(t) /\ IsTree(c)
  BY NamesArePaths, CutIsTree DEF IsOnDisk
<1>3. ASSUME NEW q \in Path \ {<<>>}, IsDir(t, Parent(q)), q = p \/ ~Within(q, p)
      PROVE  IsDir(c, Parent(q))
  <2>1. ~Within(Parent(q), p)
    <3>1. CASE q = p
      <4>1. Len(Parent(p)) = Len(p) - 1 /\ Len(p) \in Nat
        BY <1>2, Ends, SeqIs DEF Path
      <4> QED BY <3>1, <4>1, SMTT(30) DEF Within
    <3>2. CASE ~Within(q, p)
      BY <3>2, <1>2, WithinParent
    <3> QED BY <1>3, <3>1, <3>2
  <2>2. CASE Parent(q) = <<>>
    BY <2>2 DEF IsDir
  <2>3. CASE Parent(q) # <<>>
    <3>1. Parent(q) \in DOMAIN t /\ t[Parent(q)].kind = "dir"
      BY <1>3, <2>3 DEF IsDir, Has
    <3>2. Parent(q) \in DOMAIN c
      BY <1>1, <2>1, <3>1
    <3> QED BY <1>1, <3>1, <3>2 DEF IsDir, Has
  <2> QED BY <2>2, <2>3
<1>4. ASSUME NEW q \in DOMAIN c PROVE q \in Seq(Name) /\ IsDir(c, Parent(q))
  <2>1. q \in DOMAIN t /\ ~Within(q, p)
    BY <1>1
  <2>2. q \in Path \ {<<>>} /\ q \in Seq(Name) /\ IsDir(t, Parent(q))
    BY <2>1 DEF IsOnDisk, IsTree
  <2> QED BY <1>3, <2>1, <2>2
<1>5. IsOnDisk(c)
  <2> HIDE DEF c
  <2> QED BY <1>2, <1>4 DEF IsOnDisk
<1>6. ASSUME NEW n \in Node PROVE IsOnDisk(Put(t, p, n))
  <2> DEFINE w == With(c, p, n)
  <2>1. DOMAIN w = DOMAIN c \union {p} /\ w[p] = n /\ \A q \in DOMAIN c : q # p => w[q] = c[q]
    <3> HIDE DEF c
    <3> QED BY DEF With
  <2>2. IsTree(w)
    BY <1>2, WithIsTree
  <2>3. Put(t, p, n) = w
    BY DEF Put
  <2>4. p \notin DOMAIN c
    BY <1>1, <1>2, WithinOrder
  <2> HIDE DEF c, w
  <2>5. \A r : IsDir(c, r) => IsDir(w, r)
    BY <2>1, <2>4 DEF IsDir, Has
  <2>6. ASSUME NEW q \in DOMAIN w PROVE q \in Seq(Name) /\ IsDir(w, Parent(q))
    <3>1. CASE q = p
      BY <3>1, <1>2, <1>3, <2>5
    <3>2. CASE q # p
      BY <3>2, <1>4, <2>1, <2>5
    <3> QED BY <3>1, <3>2
  <2>7. IsOnDisk(w)
    BY <2>2, <2>6 DEF IsOnDisk
  <2> QED BY <2>3, <2>7
<1> QED
  BY <1>5, <1>6 DEF c

\* What lies below an excluded path is excluded.
LEMMA ExcludedBelow ==
  ASSUME exclusions \in Seq(Path), NEW p \in Path, NEW q \in Path, Within(p, q), isExcluded(q)
  PROVE  isExcluded(p)
<1>1. PICK e \in Range(exclusions) :
        LET c == Relative(Clean(e))
        IN c # <<>> /\ ~Outside(c) /\ IF Len(c) = 1 THEN c[1] \in Range(q) ELSE Within(q, c)
  BY DEF isExcluded
<1> DEFINE c == Relative(Clean(e))
<1>2. c \in Path
  <2>1. e \in Path
    BY SeqIs, SeqElement, SMTT(30) DEF Range
  <2>2. Clean(e) \in Path
    BY <2>1, CleanIsPath
  <2> DEFINE r == Clean(e)
  <2> HIDE DEF r
  <2>3. r # <<>> => Tail(r) \in Path
    BY <2>2, SeqTail DEF Path, r
  <2>4. Relative(r) \in Path
    BY <2>2, <2>3 DEF Relative, IsAbs, r
  <2> QED BY <2>4 DEF r
<1>3. c # <<>> /\ ~Outside(c) /\ IF Len(c) = 1 THEN c[1] \in Range(q) ELSE Within(q, c)
  BY <1>1
<1> HIDE DEF c
<1>4. c[1] \in Range(q) => c[1] \in Range(p)
  <2>1. /\ DOMAIN p = 1 .. Len(p) /\ DOMAIN q = 1 .. Len(q) /\ Len(p) \in Nat /\ Len(q) \in Nat
    BY SeqIs DEF Path
  <2>2. Len(q) <= Len(p) /\ \A i \in 1 .. Len(q) : p[i] = q[i]
    BY WithinIs
  <2>3. \A i \in 1 .. Len(q) : i \in 1 .. Len(p)
    BY <2>1, <2>2, SMTT(30)
  <2> QED BY <2>1, <2>2, <2>3 DEF Range
<1>5. Within(q, c) => Within(p, c)
  BY <1>2, WithinOrder
<1>6. c # <<>> /\ ~Outside(c) /\ IF Len(c) = 1 THEN c[1] \in Range(p) ELSE Within(p, c)
  BY <1>3, <1>4, <1>5
<1> QED
  BY <1>6 DEF isExcluded, c

---------------------------------------------------------------------------
(* The order of the walk: what it has written and what it has still to      *)
(* visit never overlap.                                                    *)

Archived(p) == \E i \in DOMAIN archive : archive[i].name = p

\* The callback is between the header of the first entry and the next entry.
AtHead == wpc \in {"copy", "descend"}

\* The entries to visit: none is below another, and the directory of each is archived.
Pending ==
  /\ \A k \in DOMAIN todo :
       /\ todo[k].path \in Seq(Name)
       /\ Parent(todo[k].path) = <<>> \/ Archived(Parent(todo[k].path))
  /\ \A j, k \in DOMAIN todo : j # k => ~Within(todo[j].path, todo[k].path)

\* The entries written: no name comes twice, and directories come before what is in them.
Written ==
  /\ \A i \in DOMAIN archive :
       /\ archive[i].name \in Seq(Name) \ {<<>>}
       /\ archive[i].node.kind \in {"file", "dir", "link"}
       /\ archive[i].node.kind # "file" => archive[i].size = 0
       /\ \/ Parent(archive[i].name) = <<>>
          \/ \E j \in 1 .. i - 1 : archive[j].name = Parent(archive[i].name)
  /\ \A i, j \in DOMAIN archive : i # j => archive[i].name # archive[j].name

\* Nothing at or below an entry to visit is written yet, but for its own header.
Apart ==
  /\ \A i \in DOMAIN archive, k \in DOMAIN todo :
       Within(archive[i].name, todo[k].path) => AtHead /\ i = Len(archive) /\ k = 1
  /\ AtHead => archive # <<>> /\ archive[Len(archive)].name = todo[1].path
  /\ wpc = "copy" => archive[Len(archive)].node.kind = "file"
  /\ wpc = "start" => archive = <<>>
  /\ wpc \in {"start", "packed", "failed"} => todo = <<>>

Walking == IsOnDisk(src) /\ (Own => Pending /\ Written /\ Apart)

\* The two sequences of the walk.
LEMMA SeqFacts ==
  ASSUME Packing
  PROVE  /\ Len(todo) \in Nat /\ DOMAIN todo = 1 .. Len(todo)
         /\ \A k \in DOMAIN todo : todo[k].path \in Path \ {<<>>} /\ todo[k].dir \in BOOLEAN
         /\ Len(archive) \in Nat /\ DOMAIN archive = 1 .. Len(archive)
         /\ \A i \in DOMAIN archive : archive[i] \in Entries /\ archive[i].size \in Nat
                                      /\ archive[i].node \in Node /\ archive[i].name \in Path
         /\ todo # <<>> =>
              /\ 1 \in DOMAIN todo /\ Head(todo) = todo[1]
              /\ Tail(todo) \in Seq(Item) /\ Len(Tail(todo)) = Len(todo) - 1
              /\ DOMAIN Tail(todo) = 1 .. Len(todo) - 1
              /\ \A k \in DOMAIN Tail(todo) : k + 1 \in DOMAIN todo /\ Tail(todo)[k] = todo[k + 1]
         /\ archive # <<>> => Len(archive) \in DOMAIN archive
<1>0. todo \in Seq(Item) /\ archive \in Seq(Entries)
  BY DEF Packing
<1>1. Len(todo) \in Nat /\ DOMAIN todo = 1 .. Len(todo) /\ \A k \in DOMAIN todo : todo[k] \in Item
  BY <1>0, SeqIs, SeqElement
<1>2. /\ Len(archive) \in Nat /\ DOMAIN archive = 1 .. Len(archive)
      /\ \A i \in DOMAIN archive : archive[i] \in Entries
  BY <1>0, SeqIs, SeqElement
<1>3. ASSUME todo # <<>>
      PROVE  /\ 1 \in DOMAIN todo /\ Head(todo) = todo[1]
             /\ Tail(todo) \in Seq(Item) /\ Len(Tail(todo)) = Len(todo) - 1
             /\ DOMAIN Tail(todo) = 1 .. Len(todo) - 1
             /\ \A k \in DOMAIN Tail(todo) : k + 1 \in DOMAIN todo /\ Tail(todo)[k] = todo[k + 1]
  <2>1. Len(todo) \in Nat \ {0}
    BY <1>0, <1>3, SeqEmpty
  <2>2. /\ Tail(todo) \in Seq(Item) /\ Len(Tail(todo)) = Len(todo) - 1
        /\ \A i \in 1 .. Len(Tail(todo)) : Tail(todo)[i] = todo[i + 1]
    BY <1>0, <1>3, SeqTail
  <2>3. DOMAIN Tail(todo) = 1 .. Len(Tail(todo))
    BY <2>2, SeqIs
  <2>4. Head(todo) = todo[1]
    BY SMTT(30) DEF Head
  <2>5. 1 \in DOMAIN todo /\ \A k \in 1 .. Len(todo) - 1 : k + 1 \in DOMAIN todo
    BY <1>1, <2>1, SMTT(30)
  <2> QED BY <2>2, <2>3, <2>4, <2>5
<1>4. archive # <<>> => Len(archive) \in DOMAIN archive
  BY <1>0, <1>2, SeqEmpty, SMTT(30)
<1>5. \A k \in DOMAIN todo : todo[k].path \in Path \ {<<>>} /\ todo[k].dir \in BOOLEAN
  BY <1>1 DEF Item
<1>6. \A i \in DOMAIN archive : archive[i] \in Entries /\ archive[i].size \in Nat
                                      /\ archive[i].node \in Node /\ archive[i].name \in Path
  BY <1>2 DEF Entries
<1> QED
  BY <1>1, <1>2, <1>3, <1>4, <1>5, <1>6

\* A sequence with one more element.
LEMMA Appended ==
  ASSUME NEW S, NEW s \in Seq(S), NEW e
  PROVE  LET a == Append(s, e)
         IN /\ Len(a) = Len(s) + 1 /\ DOMAIN a = 1 .. Len(s) + 1 /\ a[Len(s) + 1] = e
            /\ \A i \in 1 .. Len(s) : a[i] = s[i]
<1> DEFINE T == S \union {e}
           a == Append(s, e)
<1>1. s \in Seq(T) /\ e \in T
  BY SeqWider
<1> HIDE DEF T
<1>2. /\ a \in Seq(T) /\ Len(a) = Len(s) + 1 /\ a[Len(s) + 1] = e
      /\ \A i \in 1 .. Len(s) : a[i] = s[i]
  BY <1>1, SeqAppend, SMTT(30)
<1>3. DOMAIN a = 1 .. Len(a)
  BY <1>2, SeqIs
<1> QED
  BY <1>2, <1>3

\* One sequence after another.
LEMMA Joined ==
  ASSUME NEW S, NEW d \in Seq(S), NEW u \in Seq(S)
  PROVE  LET v == d \o u
         IN /\ DOMAIN v = 1 .. Len(v) /\ Len(v) \in Nat /\ Len(d) \in Nat
            /\ \A k \in DOMAIN v :
                 \/ k <= Len(d) /\ k \in DOMAIN d /\ v[k] = d[k]
                 \/ k > Len(d) /\ k - Len(d) \in DOMAIN u /\ v[k] = u[k - Len(d)]
            /\ \A k \in DOMAIN d : k \in DOMAIN v /\ v[k] = d[k]
            /\ \A k \in DOMAIN u : Len(d) + k \in DOMAIN v /\ v[Len(d) + k] = u[k]
<1> DEFINE v == d \o u
           D == Len(d)
           U == Len(u)
<1>1. D \in Nat /\ U \in Nat /\ DOMAIN d = 1 .. D /\ DOMAIN u = 1 .. U
  BY SeqIs
<1>2. /\ v \in Seq(S) /\ Len(v) = D + U
      /\ \A i \in 1 .. D + U : v[i] = IF i <= D THEN d[i] ELSE u[i - D]
  BY SeqConcat
<1>3. DOMAIN v = 1 .. D + U
  BY <1>2, SeqIs
<1> HIDE DEF D, U, v
<1>4. ASSUME NEW k \in 1 .. D + U
      PROVE  \/ k <= D /\ k \in 1 .. D /\ v[k] = d[k]
             \/ k > D /\ k - D \in 1 .. U /\ v[k] = u[k - D]
  BY <1>1, <1>2, SMTT(30)
<1>5. ASSUME NEW k \in 1 .. D PROVE k \in 1 .. D + U /\ v[k] = d[k]
  BY <1>1, <1>2, SMTT(30)
<1>6. ASSUME NEW k \in 1 .. U PROVE D + k \in 1 .. D + U /\ v[D + k] = u[k]
  <2>1. D + k \in 1 .. D + U /\ ~(D + k <= D) /\ (D + k) - D = k
    BY <1>1, SMTT(30)
  <2> QED BY <1>2, <2>1
<1> QED
  BY <1>1, <1>2, <1>3, <1>4, <1>5, <1>6, SMTT(30) DEF D, U, v

\* The items of d are in directory p, and none is below another.
Children(d, p) ==
  /\ \A i \in DOMAIN d : /\ d[i].path \in Seq(Name) \ {<<>>} /\ Parent(d[i].path) = p
                         /\ d[i].path # p
  /\ \A i \in DOMAIN d : \A q \in Path :
       Within(d[i].path, q) => q = d[i].path \/ Within(p, q)
  /\ \A i \in DOMAIN d : \A q \in Path : Within(q, d[i].path) => Within(q, p)
  /\ \A i \in DOMAIN d : ~Within(p, d[i].path) /\ Within(d[i].path, p)
  /\ \A i, j \in DOMAIN d : i # j => ~Within(d[i].path, d[j].path)

\* What ReadDir lists are the children of the directory.
LEMMA ListingFacts ==
  ASSUME NEW t, IsOnDisk(t), NEW p \in Seq(Name)
  PROVE  Children(ReadDir(t, p), p)
<1> DEFINE d == ReadDir(t, p)
<1>0. p \in Path
  BY NamesArePaths
<1>1. /\ \A i \in DOMAIN d : \E n \in Name : d[i].path = Append(p, n)
      /\ \A i, j \in DOMAIN d : i # j => d[i].path # d[j].path
  BY <1>0, ReadDirFacts, SMTT(30)
<1> HIDE DEF d
<1>2. ASSUME NEW i \in DOMAIN d
      PROVE  /\ d[i].path \in Seq(Name) \ {<<>>} /\ d[i].path \in Path \ {<<>>}
             /\ Parent(d[i].path) = p /\ Len(d[i].path) = Len(p) + 1
  <2>1. PICK n \in Name : d[i].path = Append(p, n)
    BY <1>1
  <2>2. /\ Append(p, n) \in Seq(Name) \ {<<>>} /\ Parent(Append(p, n)) = p
        /\ Len(Append(p, n)) = Len(p) + 1
    BY ChildFacts
  <2> QED BY <2>1, <2>2, NamesArePaths
<1>3. Len(p) \in Nat
  BY SeqIs
<1>4. ASSUME NEW i \in DOMAIN d, NEW q \in Path, Within(d[i].path, q)
      PROVE  q = d[i].path \/ Within(p, q)
  BY <1>2, <1>4, WithinParent, SMTT(30)
<1>5. ASSUME NEW i \in DOMAIN d PROVE Within(d[i].path, p) /\ ~Within(p, d[i].path)
  <2>1. Within(d[i].path, p)
    BY <1>0, <1>2, WithinParent, WithinOrder, SMTT(30)
  <2>2. ~Within(p, d[i].path)
    BY <1>2, <1>3, SMTT(30) DEF Within
  <2> QED BY <2>1, <2>2
<1>6. ASSUME NEW i \in DOMAIN d, NEW q \in Path, Within(q, d[i].path) PROVE Within(q, p)
  BY <1>0, <1>2, <1>5, <1>6, WithinOrder, SMTT(30)
<1>7. ASSUME NEW i \in DOMAIN d, NEW j \in DOMAIN d, i # j, Within(d[i].path, d[j].path) PROVE FALSE
  <2>1. Len(d[i].path) <= Len(d[j].path)
    BY <1>2, <1>3, SMTT(30)
  <2>2. d[i].path = d[j].path
    BY <1>2, <1>7, <2>1, WithinSame
  <2> QED BY <1>1, <1>7, <2>2
<1>8. \A i \in DOMAIN d : d[i].path # p
  BY <1>2, <1>3, SMTT(30)
<1> QED
  BY <1>2, <1>4, <1>5, <1>6, <1>7, <1>8 DEF d, Children

\* The root of the walk.
LEMMA WalkingBegin ==
  ASSUME Packing, Walking, begin
  PROVE  Walking'
<1> DEFINE d == ReadDir(src, <<>>)
<1>1. /\ wpc = "start" /\ wpc' = "visit" /\ todo' = d
      /\ UNCHANGED <<exclusions, src, edits, archive>>
  BY DEF begin
<1>2. IsOnDisk(src) /\ archive = <<>>
  BY <1>1 DEF Walking, Own, Apart
<1>3. <<>> \in Seq(Name) /\ DOMAIN archive = {}
  <2>1. DOMAIN archive = 1 .. Len(archive) /\ Len(archive) = 0
    BY <1>2, SeqEmpty, SeqFacts
  <2> QED BY <2>1, SMTT(30)
<1>4. /\ \A i \in DOMAIN d : d[i].path \in Seq(Name) /\ Parent(d[i].path) = <<>>
      /\ \A i, j \in DOMAIN d : i # j => ~Within(d[i].path, d[j].path)
  BY <1>2, <1>3, ListingFacts DEF Children
<1> HIDE DEF d
<1>5. Pending'
  BY <1>1, <1>4 DEF Pending
<1>6. Written' /\ Apart'
  BY <1>1, <1>3 DEF Written, Apart, AtHead
<1> QED
  BY <1>1, <1>2, <1>5, <1>6 DEF Walking

\* A callback that skips its entry, or writes its header.
LEMMA WalkingVisit ==
  ASSUME Packing, Walking, visit
  PROVE  Walking'
<1> DEFINE e == Head(todo)
           n == src[Lstat(src, e.path)]
           ent == IF n.kind = "file" THEN Entry(e.path, File(<<>>), Len(n.data))
                                     ELSE Entry(e.path, n, 0)
           L == Len(archive)
<1>1. wpc = "visit" /\ todo # <<>> /\ UNCHANGED <<exclusions, src, edits>>
  BY DEF visit
<1>2. IsOnDisk(src) /\ Pending /\ Written /\ Apart
  BY <1>1 DEF Walking, Own
<1>3. /\ 1 \in DOMAIN todo /\ e = todo[1] /\ Len(todo) \in Nat
      /\ DOMAIN Tail(todo) = 1 .. Len(todo) - 1
      /\ \A k \in DOMAIN Tail(todo) : k + 1 \in DOMAIN todo /\ Tail(todo)[k] = todo[k + 1]
      /\ L \in Nat /\ DOMAIN archive = 1 .. L
      /\ \A k \in DOMAIN todo : todo[k].path \in Path \ {<<>>}
  BY <1>1, SeqFacts
<1>4. \A i \in DOMAIN archive, k \in DOMAIN todo : ~Within(archive[i].name, todo[k].path)
  BY <1>1, <1>2 DEF Apart, AtHead
<1>5. CASE todo' = Tail(todo) /\ UNCHANGED <<wpc, archive>>
  <2> DEFINE u == Tail(todo)
  <2> HIDE DEF u
  <2>1. /\ todo' = u /\ archive' = archive /\ wpc' = "visit"
        /\ DOMAIN u = 1 .. Len(todo) - 1
        /\ \A k \in DOMAIN u : k + 1 \in DOMAIN todo /\ u[k] = todo[k + 1]
    BY <1>1, <1>3, <1>5 DEF u
  <2>2. \A j, k \in DOMAIN u : j # k => j + 1 # k + 1
    BY <1>3, <2>1, SMTT(30)
  <2>3. Pending'
    BY <1>2, <2>1, <2>2, SMTT(30) DEF Pending, Archived
  <2>4. Written' 
    BY <1>2, <2>1, SMTT(30) DEF Written
  <2>5. Apart'
    BY <1>4, <2>1 DEF Apart, AtHead
  <2> QED BY <1>1, <1>2, <2>3, <2>4, <2>5 DEF Walking
<1>6. CASE /\ Lstat(src, e.path) \in DOMAIN src /\ n.kind # "other"
           /\ archive' = Append(archive, ent)
           /\ wpc' = IF n.kind = "file" THEN "copy" ELSE "descend"
           /\ UNCHANGED todo
  <2> DEFINE a == Append(archive, ent)
  <2>1. n \in Node /\ n.kind \in {"file", "dir", "link"}
    <3>1. n \in Node
      BY <1>2, <1>6 DEF IsOnDisk, IsTree
    <3> QED BY <1>6, <3>1, NodeFacts
  <2>2. /\ ent.name = e.path /\ ent.node.kind \in {"file", "dir", "link"}
        /\ ent.node.kind # "file" => ent.size = 0
        /\ ent.node.kind = n.kind
    <3> HIDE DEF n, e
    <3> QED BY <2>1 DEF Entry, File
  <2>3. /\ Len(a) = L + 1 /\ DOMAIN a = 1 .. L + 1 /\ a[L + 1] = ent
        /\ \A i \in 1 .. L : a[i] = archive[i]
    <3>1. archive \in Seq(Entries)
      BY DEF Packing
    <3> HIDE DEF ent
    <3> QED BY <3>1, Appended, SMTT(30)
  <2>4. archive' = a /\ todo' = todo /\ wpc' \in {"copy", "descend"}
        /\ (wpc' = "copy" => ent.node.kind = "file")
    BY <1>6, <2>2
  <2> HIDE DEF a, ent, n, L
  <2>5. e.path \in Seq(Name) \ {<<>>} /\ e.path \in Path
        /\ (Parent(e.path) = <<>> \/ Archived(Parent(e.path)))
    BY <1>2, <1>3 DEF Pending
  <2>6. ASSUME NEW p, Archived(p) PROVE \E i \in 1 .. L : a[i].name = p
    BY <1>3, <2>3, <2>6 DEF Archived
  <2>7. Pending'
    <3>1. \A p : Archived(p) => Archived(p)'
      BY <1>3, <2>3, <2>4, SMTT(30) DEF Archived
    <3> QED BY <1>2, <2>4, <3>1 DEF Pending
  <2>8. \A i \in 1 .. L : a[i].name # e.path
    <3>1. \A i \in 1 .. L : archive[i].name # e.path
      BY <1>3, <1>4, WithinOrder
    <3> QED BY <2>3, <3>1
  <2>9. Written'
    <3>1. ASSUME NEW i \in DOMAIN a
          PROVE  /\ a[i].name \in Seq(Name) \ {<<>>}
                 /\ a[i].node.kind \in {"file", "dir", "link"}
                 /\ a[i].node.kind # "file" => a[i].size = 0
                 /\ \/ Parent(a[i].name) = <<>>
                    \/ \E j \in 1 .. i - 1 : a[j].name = Parent(a[i].name)
      <4>1. CASE i = L + 1
        <5>1. a[i] = ent /\ 1 .. i - 1 = 1 .. L
          BY <1>3, <2>3, <4>1, SMTT(30)
        <5> QED BY <2>2, <2>5, <2>6, <5>1
      <4>2. CASE i \in 1 .. L
        <5>1. \A j \in 1 .. i - 1 : j \in 1 .. L
          BY <1>3, <4>2, SMTT(30)
        <5> QED BY <1>2, <1>3, <2>3, <4>2, <5>1, SMTT(30) DEF Written
      <4> QED BY <1>3, <2>3, <4>1, <4>2, SMTT(30)
    <3>2. ASSUME NEW i \in DOMAIN a, NEW j \in DOMAIN a, i # j PROVE a[i].name # a[j].name
      <4>1. CASE i \in 1 .. L /\ j \in 1 .. L
        BY <1>2, <1>3, <2>3, <3>2, <4>1, SMTT(30) DEF Written
      <4>2. CASE i = L + 1
        BY <1>3, <2>2, <2>3, <2>8, <3>2, <4>2, SMTT(30)
      <4>3. CASE j = L + 1
        BY <1>3, <2>2, <2>3, <2>8, <3>2, <4>3, SMTT(30)
      <4> QED BY <1>3, <2>3, <4>1, <4>2, <4>3, SMTT(30)
    <3> QED BY <2>4, <3>1, <3>2, SMTT(30) DEF Written
  <2>10. Apart'
    <3>1. ASSUME NEW i \in DOMAIN a, NEW k \in DOMAIN todo, Within(a[i].name, todo[k].path)
          PROVE  i = L + 1 /\ k = 1
      <4>1. i \notin 1 .. L
        BY <1>3, <1>4, <2>3, <3>1
      <4>2. i = L + 1
        BY <1>3, <2>3, <4>1, SMTT(30)
      <4>3. Within(todo[1].path, todo[k].path)
        BY <1>3, <2>2, <2>3, <3>1, <4>2
      <4> QED BY <1>2, <1>3, <4>2, <4>3 DEF Pending
    <3>2. a # <<>>
      BY <1>3, <2>3, SeqEmpty, SMTT(30)
    <3>3. a[Len(a)].name = todo[1].path /\ (wpc' = "copy" => a[Len(a)].node.kind = "file")
      BY <1>3, <2>2, <2>3, <2>4
    <3> QED BY <2>3, <2>4, <3>1, <3>2, <3>3 DEF Apart, AtHead
  <2> QED BY <1>1, <1>2, <2>7, <2>9, <2>10 DEF Walking
<1> QED
  BY <1>5, <1>6 DEF visit

\* The contents of a file.
LEMMA WalkingCopy ==
  ASSUME Packing, Walking, copy
  PROVE  Walking'
<1> DEFINE q == Real(src, Head(todo).path)
           L == Len(archive)
           a == [archive EXCEPT ![L].node = src[q]]
<1>1. /\ wpc = "copy" /\ Has(src, q, "file") /\ archive' = a /\ wpc' = "descend"
      /\ UNCHANGED <<exclusions, src, edits, todo>>
  BY DEF copy
<1>2. IsOnDisk(src) /\ Pending /\ Written /\ Apart
  BY <1>1 DEF Walking, Own
<1>3. L \in DOMAIN archive /\ L \in Nat /\ DOMAIN archive = 1 .. L
  BY <1>1, <1>2, SeqFacts DEF Apart, AtHead
<1>4. archive[L].node.kind = "file" /\ archive # <<>>
  BY <1>1, <1>2 DEF Apart, AtHead
<1>5. archive[L] \in Entries
  BY <1>3, SeqFacts
<1>6. /\ DOMAIN a = 1 .. L /\ Len(a) = L
      /\ \A i \in 1 .. L : a[i].name = archive[i].name /\ a[i].size = archive[i].size
      /\ \A i \in 1 .. L : i # L => a[i].node = archive[i].node
      /\ a[L].node = src[q]
  <2> HIDE DEF q, L
  <2>1. DOMAIN a = 1 .. L /\ \A i \in 1 .. L : i # L => a[i] = archive[i]
    BY <1>3
  <2>2. a[L] = [archive[L] EXCEPT !.node = src[q]]
    BY <1>3
  <2>3. a[L].name = archive[L].name /\ a[L].size = archive[L].size /\ a[L].node = src[q]
    BY <1>5, <2>2 DEF Entries
  <2>4. Len(a) = L
    BY <1>3, <2>1, SMTT(30)
  <2> QED BY <2>1, <2>3, <2>4
<1>7. a[L].node.kind = "file"
  BY <1>1, <1>6 DEF Has
<1> HIDE DEF a, q
<1>8. Pending'
  <2>1. \A p : Archived(p) => Archived(p)'
    BY <1>1, <1>3, <1>6 DEF Archived
  <2> QED BY <1>1, <1>2, <2>1 DEF Pending
<1>9. Written'
  <2>1. ASSUME NEW i \in 1 .. L
        PROVE  /\ a[i].name \in Seq(Name) \ {<<>>}
               /\ a[i].node.kind \in {"file", "dir", "link"}
               /\ a[i].node.kind # "file" => a[i].size = 0
               /\ \/ Parent(a[i].name) = <<>>
                  \/ \E j \in 1 .. i - 1 : a[j].name = Parent(a[i].name)
    <3>1. /\ archive[i].name \in Seq(Name) \ {<<>>}
          /\ archive[i].node.kind \in {"file", "dir", "link"}
          /\ archive[i].node.kind # "file" => archive[i].size = 0
          /\ \/ Parent(archive[i].name) = <<>>
             \/ \E j \in 1 .. i - 1 : archive[j].name = Parent(archive[i].name)
      BY <1>2, <1>3 DEF Written
    <3>2. \A j \in 1 .. i - 1 : j \in 1 .. L
      BY <1>3, SMTT(30)
    <3> QED BY <1>6, <1>7, <3>1, <3>2
  <2>2. \A i, j \in 1 .. L : i # j => a[i].name # a[j].name
    <3>1. \A i, j \in 1 .. L : i # j => archive[i].name # archive[j].name
      BY <1>2, <1>3 DEF Written
    <3> QED BY <1>6, <3>1
  <2> QED BY <1>1, <1>6, <2>1, <2>2 DEF Written
<1>10. Apart'
  <2>1. a # <<>>
    <3> HIDE DEF L
    <3>1. L \in DOMAIN a
      BY <1>3, <1>6
    <3>2. DOMAIN <<>> = {}
      BY SMTT(30)
    <3> QED BY <3>1, <3>2
  <2>2. \A i \in 1 .. L, k \in DOMAIN todo : Within(a[i].name, todo[k].path) => i = L /\ k = 1
    BY <1>2, <1>3, <1>6 DEF Apart
  <2>3. a[L].name = todo[1].path
    BY <1>1, <1>2, <1>3, <1>6 DEF Apart, AtHead
  <2> QED BY <1>1, <1>6, <2>1, <2>2, <2>3 DEF Apart, AtHead
<1> QED
  BY <1>1, <1>2, <1>8, <1>9, <1>10 DEF Walking

\* Into a directory, or on to the next entry.
LEMMA WalkingDescend ==
  ASSUME Packing, Walking, descend
  PROVE  Walking'
<1> DEFINE h == todo[1].path
           d == ReadDir(src, h)
           u == Tail(todo)
<1>1. /\ wpc = "descend" /\ wpc' = "visit" /\ UNCHANGED <<exclusions, src, edits, archive>>
  BY DEF descend
<1>2. IsOnDisk(src) /\ Pending /\ Written /\ Apart /\ todo # <<>>
  BY <1>1 DEF Walking, Own, Packing
<1>3. /\ 1 \in DOMAIN todo /\ Head(todo) = todo[1] /\ Len(todo) \in Nat
      /\ u \in Seq(Item) /\ Len(u) = Len(todo) - 1 /\ DOMAIN u = 1 .. Len(u)
      /\ \A k \in DOMAIN u : k + 1 \in DOMAIN todo /\ u[k] = todo[k + 1]
      /\ \A k \in DOMAIN todo : todo[k].path \in Path \ {<<>>}
      /\ \A i \in DOMAIN archive : archive[i].name \in Path
  BY <1>2, SeqFacts
<1>4. todo' = u \/ todo' = d \o u
  BY <1>3 DEF descend
<1>5. h \in Seq(Name) /\ h \in Path /\ archive[Len(archive)].name = h
      /\ Len(archive) \in DOMAIN archive
  BY <1>1, <1>2, <1>3, SeqFacts DEF Pending, Apart, AtHead
<1>6. Written'
  BY <1>1, <1>2, SMTT(30) DEF Written
<1>7. ASSUME NEW v, todo' = v, NEW k0 \in Nat,
             DOMAIN v = 1 .. Len(v), Len(v) \in Nat,
             \A k \in DOMAIN v : \/ k <= k0 /\ v[k].path \in Seq(Name) /\ Parent(v[k].path) = h
                                 \/ k > k0 /\ k - k0 \in DOMAIN u /\ v[k] = u[k - k0],
             \A j, k \in DOMAIN v : j # k => ~Within(v[j].path, v[k].path),
             \A i \in DOMAIN archive, k \in DOMAIN v : ~Within(archive[i].name, v[k].path)
      PROVE  Walking'
  <2>1. Pending'
    <3>1. ASSUME NEW k \in DOMAIN v
          PROVE  v[k].path \in Seq(Name) /\ (Parent(v[k].path) = <<>> \/ Archived(Parent(v[k].path)))
      <4>1. CASE k <= k0 /\ v[k].path \in Seq(Name) /\ Parent(v[k].path) = h
        BY <1>5, <4>1 DEF Archived
      <4>2. CASE k - k0 \in DOMAIN u /\ v[k] = u[k - k0]
        <5>1. (k - k0) + 1 \in DOMAIN todo /\ v[k] = todo[(k - k0) + 1]
          BY <1>3, <4>2
        <5> QED BY <1>2, <5>1 DEF Pending
      <4> QED BY <1>7, <4>1, <4>2
    <3> QED BY <1>1, <1>7, <3>1 DEF Pending, Archived
  <2>2. Apart'
    BY <1>1, <1>7 DEF Apart, AtHead
  <2> QED BY <1>1, <1>2, <1>6, <2>1, <2>2 DEF Walking
<1>8. /\ \A j, k \in DOMAIN u : j # k => ~Within(u[j].path, u[k].path)
      /\ \A k \in DOMAIN u : u[k].path \in Path /\ ~Within(u[k].path, h) /\ ~Within(h, u[k].path)
      /\ \A i \in DOMAIN archive, k \in DOMAIN u : ~Within(archive[i].name, u[k].path)
  <2>1. \A k \in DOMAIN u : k + 1 # 1
    BY <1>3, SMTT(30)
  <2>2. \A j, k \in DOMAIN u : j # k => j + 1 # k + 1
    BY <1>3, SMTT(30)
  <2> HIDE DEF u
  <2> QED BY <1>2, <1>3, <2>1, <2>2, SMTT(30) DEF Pending, Apart
<1>9. CASE todo' = u
  <2>1. /\ 0 \in Nat /\ Len(u) \in Nat
        /\ \A k \in DOMAIN u : k > 0 /\ k - 0 \in DOMAIN u /\ u[k] = u[k - 0]
    BY <1>2, <1>3, SeqEmpty, SMTT(30)
  <2> HIDE DEF u
  <2> QED BY <1>3, <1>7, <1>8, <1>9, <2>1
<1>10. CASE todo' = d \o u
  <2> DEFINE v == d \o u
  <2>1. /\ \A i \in DOMAIN d : d[i].path \in Seq(Name) \ {<<>>} /\ Parent(d[i].path) = h
        /\ \A i \in DOMAIN d : \A q \in Path :
             Within(d[i].path, q) => q = d[i].path \/ Within(h, q)
        /\ \A i \in DOMAIN d : \A q \in Path : Within(q, d[i].path) => Within(q, h)
        /\ \A i \in DOMAIN d : ~Within(h, d[i].path) /\ Within(d[i].path, h)
        /\ \A i, j \in DOMAIN d : i # j => ~Within(d[i].path, d[j].path)
    <3>1. Children(d, h)
      BY <1>2, <1>5, ListingFacts
    <3> QED BY <3>1 DEF Children
  <2>2. d \in Seq(Item) /\ Len(d) \in Nat /\ DOMAIN d = 1 .. Len(d)
    <3>1. d \in Seq(Item)
      BY <1>2, <1>5, ReadDirItems DEF IsOnDisk
    <3> QED BY <3>1, SeqIs
  <2>3. /\ DOMAIN v = 1 .. Len(v) /\ Len(v) \in Nat
        /\ \A k \in DOMAIN v :
             \/ k <= Len(d) /\ k \in DOMAIN d /\ v[k] = d[k]
             \/ k > Len(d) /\ k - Len(d) \in DOMAIN u /\ v[k] = u[k - Len(d)]
    BY <1>3, <2>2, Joined, SMTT(30)
  <2> HIDE DEF d, u, v, h
  <2>7. ASSUME NEW j \in DOMAIN v, NEW k \in DOMAIN v, j # k PROVE ~Within(v[j].path, v[k].path)
    <3>1. CASE j <= Len(d) /\ k <= Len(d)
      <4>1. j \in DOMAIN d /\ v[j] = d[j] /\ k \in DOMAIN d /\ v[k] = d[k]
        BY <2>2, <2>3, <3>1, SMTT(30)
      <4> QED BY <2>1, <2>7, <4>1
    <3>2. CASE j <= Len(d) /\ k > Len(d)
      <4>1. j \in DOMAIN d /\ v[j] = d[j] /\ k - Len(d) \in DOMAIN u /\ v[k] = u[k - Len(d)]
        BY <2>2, <2>3, <3>2, SMTT(30)
      <4> QED BY <1>8, <2>1, <4>1
    <3>3. CASE j > Len(d) /\ k <= Len(d)
      <4>1. k \in DOMAIN d /\ v[k] = d[k] /\ j - Len(d) \in DOMAIN u /\ v[j] = u[j - Len(d)]
        BY <2>2, <2>3, <3>3, SMTT(30)
      <4> QED BY <1>8, <2>1, <4>1
    <3>4. CASE j > Len(d) /\ k > Len(d)
      <4>1. /\ j - Len(d) \in DOMAIN u /\ v[j] = u[j - Len(d)]
            /\ k - Len(d) \in DOMAIN u /\ v[k] = u[k - Len(d)]
            /\ j - Len(d) # k - Len(d)
        BY <2>2, <2>3, <2>7, <3>4, SMTT(30)
      <4> QED BY <1>8, <4>1
    <3> QED BY <2>2, <2>3, <3>1, <3>2, <3>3, <3>4
  <2>8. ASSUME NEW i \in DOMAIN archive, NEW k \in DOMAIN v, Within(archive[i].name, v[k].path)
        PROVE  FALSE
    <3>1. CASE k <= Len(d) /\ k \in DOMAIN d /\ v[k] = d[k]
      <4>1. Within(archive[i].name, h)
        BY <1>3, <2>1, <2>8, <3>1
      <4>2. i = Len(archive)
        BY <1>2, <1>3, <4>1 DEF Apart, h
      <4> QED BY <1>5, <2>1, <2>8, <3>1, <4>2
    <3>2. CASE k - Len(d) \in DOMAIN u /\ v[k] = u[k - Len(d)]
      BY <1>8, <2>8, <3>2
    <3> QED BY <2>3, <3>1, <3>2
  <2>9. \A k \in DOMAIN v : \/ k <= Len(d) /\ v[k].path \in Seq(Name) /\ Parent(v[k].path) = h
                            \/ k > Len(d) /\ k - Len(d) \in DOMAIN u /\ v[k] = u[k - Len(d)]
    BY <2>1, <2>3
  <2>10. todo' = v
    BY <1>10, SMTT(30) DEF v
  <2> QED BY <1>7, <2>2, <2>3, <2>7, <2>8, <2>9, <2>10
<1> QED
  BY <1>4, <1>9, <1>10

\* The trees that the user's edits lead to.
LEMMA EditStays ==
  ASSUME IsOnDisk(src), edit
  PROVE  IsOnDisk(src')
<1>1. PICK p \in DOMAIN src \union {Append(q, n) : q \in {<<>>} \union DOMAIN src, n \in Names} :
        /\ IsDir(src, Parent(p))
        /\ (\E n \in Edits : src' = Put(src, p, n)) \/ src' = Cut(src, p)
  BY SMTT(30) DEF edit
<1>2. <<>> \in Seq(Name) /\ DOMAIN src \subseteq Seq(Name) \ {<<>>}
  BY SeqEmpty, SMTT(30) DEF IsOnDisk, IsTree
<1>3. p \in Seq(Name) \ {<<>>}
  <2>1. CASE p \in DOMAIN src
    BY <1>2, <2>1, SMTT(30)
  <2>2. CASE p \in {Append(q, n) : q \in {<<>>} \union DOMAIN src, n \in Names}
    <3>1. PICK q \in {<<>>} \union DOMAIN src, n \in Names : p = Append(q, n)
      BY <2>2, SMTT(30)
    <3>2. q \in Seq(Name)
      <4>1. CASE q = <<>>
        BY <1>2, <4>1, SMTT(30)
      <4>2. CASE q \in DOMAIN src
        BY <1>2, <4>2, SMTT(30)
      <4> QED BY <4>1, <4>2, SMTT(30)
    <3>3. n \in Name
      <4>1. Names \subseteq Name
        BY TreesAssumption, SMTT(30)
      <4> QED BY <4>1, SMTT(30)
    <3> QED BY <3>1, <3>2, <3>3, ChildFacts, SMTT(30)
  <2> QED BY <2>1, <2>2, SMTT(30)
<1>4. IsOnDisk(Cut(src, p)) /\ \A n \in Node : IsOnDisk(Put(src, p, n))
  BY <1>1, <1>3, EditsOnDisk, SMTT(30)
<1> QED
  BY <1>1, <1>4, TreesAssumption, SMTT(30)

\* No step of CreateArchive, and no edit during the walk, breaks this.
LEMMA WalkingStep ==
  ASSUME Packing, Walking, Pack
  PROVE  Walking'
<1>1. CASE fail
  <2>1. /\ wpc \in {"start", "visit", "copy", "descend"} /\ wpc' = "failed" /\ todo' = <<>>
        /\ UNCHANGED <<src, archive>>
    BY <1>1 DEF fail
  <2>2. IsOnDisk(src) /\ Written /\ DOMAIN <<>> = {}
    BY <2>1, SMTT(30) DEF Walking, Own
  <2>3. Pending' /\ Apart'
    BY <2>1, <2>2 DEF Pending, Apart, AtHead
  <2> QED BY <2>1, <2>2, <2>3 DEF Walking, Written
<1>2. CASE finish
  <2>1. wpc = "visit" /\ todo = <<>> /\ wpc' = "packed" /\ UNCHANGED <<src, todo, archive>>
    BY <1>2 DEF finish
  <2>2. IsOnDisk(src) /\ Written /\ DOMAIN <<>> = {}
    BY <2>1, SMTT(30) DEF Walking, Own
  <2>3. Pending' /\ Apart'
    BY <2>1, <2>2 DEF Pending, Apart, AtHead
  <2> QED BY <2>1, <2>2, <2>3 DEF Walking, Written
<1>3. CASE edit
  <2>1. wpc \in {"visit", "copy", "descend"} /\ UNCHANGED <<wpc, todo, archive>>
    BY <1>3, SMTT(30) DEF edit
  <2>2. IsOnDisk(src) /\ Pending /\ Written /\ Apart
    BY <2>1 DEF Walking, Own
  <2>3. IsOnDisk(src')
    BY <1>3, <2>2, EditStays
  <2>4. Pending' /\ Written' /\ Apart'
    BY <2>1, <2>2, SMTT(30) DEF Pending, Written, Apart, AtHead, Archived
  <2> QED BY <2>3, <2>4 DEF Walking, IsOnDisk, IsTree
<1> QED
  BY <1>1, <1>2, <1>3, WalkingBegin, WalkingVisit, WalkingCopy, WalkingDescend DEF Pack

---------------------------------------------------------------------------
(* CreateArchive leaves nothing out.                                       *)

\* The i-th entry is what the tree has at its name; the contents of the file that is
\* being copied are still to come.
Faithful(i) ==
  /\ archive[i].name \in DOMAIN src /\ ~isExcluded(archive[i].name)
  /\ IF wpc = "copy" /\ i = Len(archive) THEN src[archive[i].name].kind = "file"
                                         ELSE archive[i].node = src[archive[i].name]

Covered(p) ==
  isExcluded(p) \/ Archived(p) \/ \E k \in DOMAIN todo : Within(p, todo[k].path)

\* Nobody edits the tree: every node is excluded, archived or still ahead.
Complete ==
  Own /\ edits = 0 /\ wpc \in {"visit", "copy", "descend", "packed"} =>
    /\ \A k \in DOMAIN todo :
         todo[k].path \in DOMAIN src /\ todo[k].dir = (src[todo[k].path].kind = "dir")
    /\ \A i \in DOMAIN archive : Faithful(i)
    /\ \A p \in DOMAIN src : Covered(p)

\* The listing of a directory that is one covers what is below it.
LEMMA ListingCovers ==
  ASSUME NEW t, IsOnDisk(t), NEW h \in Path, IsDir(t, h)
  PROVE  LET d == ReadDir(t, h)
         IN /\ \A i \in DOMAIN d :
                 d[i].path \in DOMAIN t /\ d[i].dir = (t[d[i].path].kind = "dir")
            /\ \A p \in DOMAIN t : Within(p, h) /\ p # h => \E i \in DOMAIN d : Within(p, d[i].path)
<1> DEFINE d == ReadDir(t, h)
<1>1. Real(t, h) = h
  BY RealOnDisk DEF IsDir, Has
<1>2. /\ \A i \in DOMAIN d : \E n \in Name :
           d[i].path = Append(h, n) /\ Append(h, n) \in DOMAIN t
           /\ d[i].dir = Has(t, Append(h, n), "dir")
      /\ \A n \in Name : Append(h, n) \in DOMAIN t => \E i \in DOMAIN d : d[i].path = Append(h, n)
  BY <1>1, ReadDirFacts, SMTT(30)
<1> HIDE DEF d
<1>3. ASSUME NEW i \in DOMAIN d
      PROVE  d[i].path \in DOMAIN t /\ d[i].dir = (t[d[i].path].kind = "dir")
  BY <1>2 DEF Has
<1>4. ASSUME NEW p \in DOMAIN t, Within(p, h), p # h
      PROVE  \E i \in DOMAIN d : Within(p, d[i].path)
  <2>1. p \in Seq(Name) /\ p \in Path
    BY NamesArePaths DEF IsOnDisk
  <2>2. PICK n \in Name : Within(p, Append(h, n))
    BY <1>4, <2>1, BelowChild, NamesArePaths
  <2>3. Append(h, n) \in Path \ {<<>>}
    BY AppendIsPath, NamesArePaths
  <2>4. Append(h, n) \in DOMAIN t
    BY <2>2, <2>3, Ancestors
  <2> QED BY <1>2, <2>2, <2>4
<1> QED
  BY <1>3, <1>4 DEF d

\* No step of CreateArchive leaves anything out.
LEMMA CompleteStep ==
  ASSUME Packing, Walking, Complete, Pack
  PROVE  Complete'
<1>1. CASE fail
  BY <1>1 DEF fail, Complete
<1>2. CASE edit
  <2>1. edits' = edits + 1 /\ edits \in Nat
    BY <1>2, MaxEditsAssumption, SMTT(30) DEF edit, Packing
  <2> QED BY <2>1, SMTT(30) DEF Complete
<1>3. CASE begin
  <2> DEFINE d == ReadDir(src, <<>>)
  <2>1. /\ wpc = "start" /\ wpc' = "visit" /\ todo' = d
        /\ UNCHANGED <<exclusions, src, edits, archive>>
    BY <1>3 DEF begin
  <2>2. IsOnDisk(src) /\ archive = <<>> /\ DOMAIN <<>> = {}
    BY <2>1, SMTT(30) DEF Walking, Own, Apart
  <2>3. <<>> \in Path /\ IsDir(src, <<>>)
    BY SMTT(30) DEF Path, IsDir
  <2>4. /\ \A i \in DOMAIN d :
             d[i].path \in DOMAIN src /\ d[i].dir = (src[d[i].path].kind = "dir")
        /\ \A p \in DOMAIN src :
             Within(p, <<>>) /\ p # <<>> => \E i \in DOMAIN d : Within(p, d[i].path)
    BY <2>2, <2>3, ListingCovers
  <2> HIDE DEF d
  <2>5. ASSUME NEW p \in DOMAIN src PROVE Covered(p)'
    <3>1. p \in Path \ {<<>>}
      BY <2>2 DEF IsOnDisk, IsTree
    <3>2. Within(p, <<>>)
      <4>1. Len(<<>>) = 0 /\ Len(p) \in Nat
        BY <3>1, SeqEmpty, SeqIs DEF Path
      <4> QED BY <2>3, <3>1, <4>1, WithinIs, SMTT(30)
    <3> QED BY <2>1, <2>4, <3>1, <3>2 DEF Covered
  <2>6. \A i \in DOMAIN archive' : Faithful(i)'
    BY <2>1, <2>2
  <2> QED BY <2>1, <2>4, <2>5, <2>6 DEF Complete
<1>4. CASE finish
  <2>1. wpc = "visit" /\ wpc' = "packed" /\ UNCHANGED <<exclusions, src, edits, todo, archive>>
    BY <1>4 DEF finish
  <2> QED BY <2>1 DEF Complete, Own, Faithful, Covered, Archived, isExcluded
<1>5. CASE visit /\ edits = 0
  <2> DEFINE e == Head(todo)
             n == src[Lstat(src, e.path)]
             ent == IF n.kind = "file" THEN Entry(e.path, File(<<>>), Len(n.data))
                                       ELSE Entry(e.path, n, 0)
             L == Len(archive)
  <2>1. wpc = "visit" /\ todo # <<>> /\ UNCHANGED <<exclusions, src, edits>>
    BY <1>5 DEF visit
  <2>2. /\ \A k \in DOMAIN todo :
             todo[k].path \in DOMAIN src /\ todo[k].dir = (src[todo[k].path].kind = "dir")
        /\ \A i \in DOMAIN archive :
             /\ archive[i].name \in DOMAIN src /\ ~isExcluded(archive[i].name)
             /\ archive[i].node = src[archive[i].name]
        /\ \A p \in DOMAIN src : Covered(p)
    BY <1>5, <2>1 DEF Complete, Own, Faithful
  <2>3. /\ 1 \in DOMAIN todo /\ e = todo[1] /\ Len(todo) \in Nat /\ DOMAIN todo = 1 .. Len(todo)
        /\ DOMAIN Tail(todo) = 1 .. Len(todo) - 1
        /\ \A k \in DOMAIN Tail(todo) : k + 1 \in DOMAIN todo /\ Tail(todo)[k] = todo[k + 1]
        /\ L \in Nat /\ DOMAIN archive = 1 .. L
        /\ e.path \in Path
    BY <2>1, SeqFacts
  <2>4. IsOnDisk(src) /\ exclusions \in Seq(Path)
    BY DEF Walking, Packing
  <2>5. \A p : isExcluded(p)' <=> isExcluded(p)
    BY <2>1 DEF isExcluded
  <2>6. CASE isExcluded(e.path) /\ todo' = Tail(todo) /\ UNCHANGED <<wpc, archive>>
    <3>1. ASSUME NEW p \in DOMAIN src PROVE Covered(p)'
      <4>1. CASE isExcluded(p) \/ Archived(p)
        BY <2>5, <2>6, <4>1 DEF Covered, Archived
      <4>2. CASE \E k \in DOMAIN todo : Within(p, todo[k].path)
        <5>1. PICK k \in DOMAIN todo : Within(p, todo[k].path)
          BY <4>2
        <5>2. CASE k = 1
          <6>1. p \in Path
            BY <2>4 DEF IsOnDisk, IsTree
          <6>2. isExcluded(p)
            BY <2>3, <2>4, <2>6, <5>1, <5>2, <6>1, ExcludedBelow, SMTT(30)
          <6> QED BY <2>5, <6>2 DEF Covered
        <5>3. CASE k # 1
          <6>1. k - 1 \in DOMAIN Tail(todo) /\ (k - 1) + 1 = k
            BY <2>3, <5>3, SMTT(30)
          <6>2. Tail(todo)[k - 1] = todo[k]
            BY <2>3, <6>1
          <6>3. k - 1 \in DOMAIN todo' /\ Within(p, todo'[k - 1].path)
            BY <2>6, <5>1, <6>1, <6>2
          <6> QED BY <6>3 DEF Covered
        <5> QED BY <5>2, <5>3
      <4> QED BY <2>2, <4>1, <4>2 DEF Covered
    <3>2. \A k \in DOMAIN todo' :
            todo'[k].path \in DOMAIN src /\ todo'[k].dir = (src[todo'[k].path].kind = "dir")
      BY <2>2, <2>3, <2>6, SMTT(30)
    <3>3. \A i \in DOMAIN archive' : Faithful(i)'
      BY <2>1, <2>2, <2>5, <2>6 DEF Faithful
    <3> QED BY <2>1, <3>1, <3>2, <3>3 DEF Complete
  <2>7. CASE /\ ~isExcluded(e.path)
             /\ archive' = Append(archive, ent)
             /\ wpc' = IF n.kind = "file" THEN "copy" ELSE "descend"
             /\ UNCHANGED todo
    <3> DEFINE a == Append(archive, ent)
    <3>1. e.path \in DOMAIN src /\ Lstat(src, e.path) = e.path
      BY <2>2, <2>3, <2>4, RealOnDisk
    <3>2. n = src[e.path]
      BY <3>1
    <3>3. /\ ent.name = e.path /\ (n.kind # "file" => ent.node = n)
      <4> HIDE DEF n, e
      <4> QED BY DEF Entry
    <3>4. /\ Len(a) = L + 1 /\ DOMAIN a = 1 .. L + 1 /\ a[L + 1] = ent
          /\ \A i \in 1 .. L : a[i] = archive[i]
      <4>1. archive \in Seq(Entries)
        BY DEF Packing
      <4> HIDE DEF ent
      <4> QED BY <4>1, Appended, SMTT(30)
    <3>5. archive' = a /\ todo' = todo /\ (wpc' = "copy" <=> n.kind = "file")
      BY <2>7
    <3> HIDE DEF a, ent, n, L
    <3>6. \A p : Covered(p) => Covered(p)'
      <4>1. \A p : Archived(p) => Archived(p)'
        BY <2>3, <3>4, <3>5, SMTT(30) DEF Archived
      <4> QED BY <2>5, <3>5, <4>1 DEF Covered
    <3>7. ASSUME NEW i \in DOMAIN archive' PROVE Faithful(i)'
      <4>1. i \in 1 .. L + 1 /\ Len(archive') = L + 1 /\ L \in Nat
        BY <2>3, <3>4, <3>5
      <4>2. CASE i = L + 1
        <5>1. archive'[i].name = e.path /\ (n.kind # "file" => archive'[i].node = n)
          BY <3>3, <3>4, <3>5, <4>2
        <5> QED BY <2>1, <2>5, <2>7, <3>1, <3>2, <3>5, <4>1, <4>2, <5>1, SMTT(30) DEF Faithful
      <4>3. CASE i \in 1 .. L
        <5>1. archive'[i] = archive[i] /\ i # Len(archive') /\ i \in DOMAIN archive
          BY <2>3, <3>4, <3>5, <4>1, <4>3, SMTT(30)
        <5> QED BY <2>1, <2>2, <2>5, <5>1 DEF Faithful
      <4> QED BY <4>1, <4>2, <4>3, SMTT(30)
    <3> QED BY <2>1, <2>2, <3>5, <3>6, <3>7 DEF Complete
  <2> QED BY <1>5, <2>6, <2>7 DEF visit
<1>6. CASE copy /\ edits = 0
  <2> DEFINE h == todo[1].path
             q == Real(src, Head(todo).path)
             L == Len(archive)
             a == [archive EXCEPT ![L].node = src[q]]
  <2>1. /\ wpc = "copy" /\ Has(src, q, "file") /\ archive' = a /\ wpc' = "descend"
        /\ UNCHANGED <<exclusions, src, edits, todo>>
    BY <1>6 DEF copy
  <2>2. /\ \A k \in DOMAIN todo :
             todo[k].path \in DOMAIN src /\ todo[k].dir = (src[todo[k].path].kind = "dir")
        /\ \A i \in DOMAIN archive : Faithful(i)
        /\ \A p \in DOMAIN src : Covered(p)
    BY <1>6, <2>1 DEF Complete, Own
  <2>3. IsOnDisk(src) /\ archive # <<>> /\ archive[L].name = h /\ todo # <<>>
    BY <2>1 DEF Walking, Own, Apart, AtHead, Packing
  <2>4. /\ L \in DOMAIN archive /\ DOMAIN archive = 1 .. L /\ archive[L] \in Entries
        /\ Head(todo) = todo[1] /\ 1 \in DOMAIN todo
    BY <2>3, SeqFacts
  <2>5. q = h /\ h \in DOMAIN src
    <3>1. h \in DOMAIN src /\ src[h].kind = "file"
      BY <2>1, <2>2, <2>3, <2>4 DEF Faithful
    <3> QED BY <2>3, <2>4, <3>1, RealOnDisk
  <2> HIDE DEF q, h
  <2>6. /\ DOMAIN a = 1 .. L /\ \A i \in 1 .. L : i # L => a[i] = archive[i]
        /\ a[L].name = archive[L].name /\ a[L].node = src[h]
    <3> HIDE DEF L
    <3>1. DOMAIN a = 1 .. L /\ \A i \in 1 .. L : i # L => a[i] = archive[i]
      BY <2>4
    <3>2. a[L] = [archive[L] EXCEPT !.node = src[q]]
      BY <2>4
    <3> QED BY <2>4, <2>5, <3>1, <3>2 DEF Entries
  <2> HIDE DEF a
  <2>7. \A p : isExcluded(p)' <=> isExcluded(p)
    BY <2>1 DEF isExcluded
  <2>8. ASSUME NEW i \in DOMAIN archive' PROVE Faithful(i)'
    <3>1. i \in 1 .. L /\ Faithful(i)
      BY <2>1, <2>2, <2>4, <2>6
    <3>2. CASE i = L
      BY <2>1, <2>3, <2>5, <2>6, <2>7, <3>1, <3>2, SMTT(30) DEF Faithful
    <3>3. CASE i # L
      BY <2>1, <2>6, <2>7, <3>1, <3>3 DEF Faithful
    <3> QED BY <3>2, <3>3
  <2>9. \A p : Covered(p) => Covered(p)'
    <3>1. \A p : Archived(p) => Archived(p)'
      BY <2>1, <2>4, <2>6 DEF Archived
    <3> QED BY <2>1, <2>7, <3>1 DEF Covered
  <2> QED BY <2>1, <2>2, <2>8, <2>9 DEF Complete
<1>7. CASE descend /\ edits = 0
  <2> DEFINE h == todo[1].path
             d == ReadDir(src, h)
             u == Tail(todo)
  <2>1. wpc = "descend" /\ wpc' = "visit" /\ UNCHANGED <<exclusions, src, edits, archive>>
    BY <1>7 DEF descend
  <2>2. /\ \A k \in DOMAIN todo :
             todo[k].path \in DOMAIN src /\ todo[k].dir = (src[todo[k].path].kind = "dir")
        /\ \A i \in DOMAIN archive : Faithful(i)
        /\ \A p \in DOMAIN src : Covered(p)
    BY <1>7, <2>1 DEF Complete, Own
  <2>3. IsOnDisk(src) /\ archive # <<>> /\ archive[Len(archive)].name = h /\ todo # <<>>
    BY <2>1 DEF Walking, Own, Apart, AtHead, Packing
  <2>4. /\ Len(archive) \in DOMAIN archive
        /\ 1 \in DOMAIN todo /\ Head(todo) = todo[1] /\ Len(todo) \in Nat /\ DOMAIN todo = 1 .. Len(todo)
        /\ u \in Seq(Item) /\ Len(u) = Len(todo) - 1 /\ DOMAIN u = 1 .. Len(u)
        /\ \A k \in DOMAIN u : k + 1 \in DOMAIN todo /\ u[k] = todo[k + 1]
        /\ h \in Path \ {<<>>}
    BY <2>3, SeqFacts
  <2>5. h \in DOMAIN src /\ todo[1].dir = (src[h].kind = "dir")
    BY <2>2, <2>4
  <2>6. /\ src[h].kind = "dir" => todo' = d \o u
        /\ src[h].kind # "dir" => todo' = u
    BY <1>7, <2>4, <2>5 DEF descend
  <2>7. \A i \in DOMAIN archive' : Faithful(i)'
    BY <2>1, <2>2 DEF Faithful, isExcluded
  <2>8. ASSUME NEW v, todo' = v,
               \A k \in DOMAIN v :
                 v[k].path \in DOMAIN src /\ v[k].dir = (src[v[k].path].kind = "dir"),
               \A k \in DOMAIN u : \E j \in DOMAIN v : v[j] = u[k],
               \A p \in DOMAIN src :
                 Within(p, h) /\ p # h => \E j \in DOMAIN v : Within(p, v[j].path)
        PROVE  Complete'
    <3>1. ASSUME NEW p \in DOMAIN src PROVE Covered(p)'
      <4>1. CASE isExcluded(p) \/ Archived(p)
        BY <2>1, <4>1 DEF Covered, Archived, isExcluded
      <4>2. CASE \E k \in DOMAIN todo : Within(p, todo[k].path)
        <5>1. PICK k \in DOMAIN todo : Within(p, todo[k].path)
          BY <4>2
        <5>2. CASE k = 1 /\ p = h
          <6>1. Archived(p)'
            BY <2>1, <2>3, <2>4, <5>2 DEF Archived
          <6> QED BY <6>1 DEF Covered
        <5>3. CASE k = 1 /\ p # h
          <6>1. \E j \in DOMAIN v : Within(p, v[j].path)
            BY <2>8, <5>1, <5>3, SMTT(30)
          <6> QED BY <2>8, <6>1 DEF Covered
        <5>4. CASE k # 1
          <6>1. k - 1 \in DOMAIN u /\ (k - 1) + 1 = k
            BY <2>4, <5>4, SMTT(30)
          <6>2. u[k - 1] = todo[k]
            BY <2>4, <6>1
          <6>3. \E j \in DOMAIN v : Within(p, v[j].path)
            BY <2>8, <5>1, <6>1, <6>2, SMTT(30)
          <6> QED BY <2>8, <6>3 DEF Covered
        <5> QED BY <5>2, <5>3, <5>4
      <4> QED BY <2>2, <4>1, <4>2 DEF Covered
    <3> QED BY <2>1, <2>7, <2>8, <3>1 DEF Complete
  <2>9. \A k \in DOMAIN u :
          u[k].path \in DOMAIN src /\ u[k].dir = (src[u[k].path].kind = "dir")
    BY <2>2, <2>4, SMTT(30)
  <2>10. CASE src[h].kind # "dir"
    <3>1. ASSUME NEW p \in DOMAIN src, Within(p, h) PROVE p = h
      BY <2>3, <2>4, <2>10, <3>1, Ancestors
    <3> HIDE DEF u, h
    <3> QED BY <2>6, <2>8, <2>9, <2>10, <3>1
  <2>11. CASE src[h].kind = "dir"
    <3> DEFINE v == d \o u
    <3>1. /\ \A i \in DOMAIN d :
               d[i].path \in DOMAIN src /\ d[i].dir = (src[d[i].path].kind = "dir")
          /\ \A p \in DOMAIN src :
               Within(p, h) /\ p # h => \E i \in DOMAIN d : Within(p, d[i].path)
      BY <2>3, <2>4, <2>5, <2>11, ListingCovers DEF IsDir, Has
    <3>2. d \in Seq(Item) /\ Len(d) \in Nat /\ DOMAIN d = 1 .. Len(d)
      <4>1. d \in Seq(Item)
        BY <2>3, <2>4, ReadDirItems DEF IsOnDisk
      <4> QED BY <4>1, SeqIs
    <3>3. /\ \A k \in DOMAIN v :
               \/ k <= Len(d) /\ k \in DOMAIN d /\ v[k] = d[k]
               \/ k > Len(d) /\ k - Len(d) \in DOMAIN u /\ v[k] = u[k - Len(d)]
          /\ \A k \in DOMAIN d : k \in DOMAIN v /\ v[k] = d[k]
          /\ \A k \in DOMAIN u : Len(d) + k \in DOMAIN v /\ v[Len(d) + k] = u[k]
      <4>1. d \in Seq(Item) /\ u \in Seq(Item)
        BY <2>4, <3>2
      <4> HIDE DEF d, u
      <4> QED BY <4>1, Joined, SMTT(30)
    <3> HIDE DEF d, u, v, h
    <3>4. \A k \in DOMAIN u : \E j \in DOMAIN v : v[j] = u[k]
      BY <3>3
    <3>6. \A k \in DOMAIN v :
            v[k].path \in DOMAIN src /\ v[k].dir = (src[v[k].path].kind = "dir")
      BY <2>9, <3>1, <3>3, SMTT(30)
    <3>9. \A p \in DOMAIN src :
            Within(p, h) /\ p # h => \E j \in DOMAIN v : Within(p, v[j].path)
      BY <3>1, <3>3
    <3>10. todo' = v
      BY <2>6, <2>11 DEF v
    <3> QED BY <2>8, <3>4, <3>6, <3>9, <3>10
  <2> QED BY <2>10, <2>11
<1>8. CASE edits # 0 /\ (visit \/ copy \/ descend)
  <2>1. edits' = edits
    BY <1>8 DEF visit, copy, descend
  <2> QED BY <1>8, <2>1 DEF Complete
<1> QED
  BY <1>1, <1>2, <1>3, <1>4, <1>5, <1>6, <1>7, <1>8, SMTT(30) DEF Pack
===========================================================================
