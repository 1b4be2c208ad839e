------------------------------ MODULE FileTree ----------------------------
(***************************************************************************)
(* Paths and trees of files.  A path is the sequence of its components,    *)
(* "/" first if it is absolute; a tree maps the paths below its root to    *)
(* nodes; the contents of a file are a sequence of blocks.                 *)
(***************************************************************************)
EXTENDS Naturals, Sequences, FiniteSets, Functions

Path == Seq(STRING)

File(d) == [kind |-> "file", data |-> d]
Dir     == [kind |-> "dir"]
Link(p) == [kind |-> "link", to |-> p]
Other   == [kind |-> "other"]     \* a socket, a device, a FIFO

Node == [kind : {"file"}, data : Seq(Nat)] \union [kind : {"link"}, to : Path]
        \union [kind : {"dir", "other"}]

IsTree(t) ==
  /\ IsFiniteSet(DOMAIN t) /\ DOMAIN t \subseteq Path \ {<<>>}
  /\ \A p \in DOMAIN t : t[p] \in Node

---------------------------------------------------------------------------
(* Paths.                                                                  *)

\* filepath.Base and filepath.Dir, of a path that is not empty.
Base(p)   == p[Len(p)]
Parent(p) == SubSeq(p, 1, Len(p) - 1)

\* The paths on the way from the root to p.
Parents(p) == {SubSeq(p, 1, n) : n \in 1 .. Len(p) - 1}

\* p is q or lies below it.
Within(p, q) == Len(q) <= Len(p) /\ SubSeq(p, 1, Len(q)) = q

PathStep(at, c) ==
  CASE c = "." -> at
    [] c = ".." /\ at = <<"/">> -> at
    [] c = ".." /\ at \notin {<<>>, <<"/">>} /\ Base(at) # ".." -> Parent(at)
    [] OTHER -> Append(at, c)

\* path.Clean; "." is the empty sequence.
Clean(p) ==
  LET at[i \in 0 .. Len(p)] == IF i = 0 THEN <<>> ELSE PathStep(at[i - 1], p[i])
  IN at[Len(p)]

IsAbs(p)   == p # <<>> /\ Head(p) = "/"
Outside(p) == p # <<>> /\ Head(p) = ".."

\* A clean path without its leading "/".
Relative(p) == IF IsAbs(p) THEN Tail(p) ELSE p

---------------------------------------------------------------------------
(* Trees.                                                                  *)

Has(t, p, kind) == p \in DOMAIN t /\ t[p].kind = kind
IsDir(t, p)     == p = <<>> \/ Has(t, p, "dir")

\* What a file system can hold: ordinary names, and nothing that is not in a directory.
Name        == STRING \ {".", "..", "/"}
IsOnDisk(t) ==
  IsTree(t) /\ \A p \in DOMAIN t : p \in Seq(Name) /\ IsDir(t, Parent(p))

Cut(t, p)       == Restrict(t, {q \in DOMAIN t : ~Within(q, p)})
With(t, p, n)   == [q \in DOMAIN t \union {p} |-> IF q = p THEN n ELSE t[q]]
Put(t, p, n)    == With(Cut(t, p), p, n)

\* MkdirAll of the parents of p.
WithParents(t, p) == [q \in DOMAIN t \union Parents(p) |-> IF q \in DOMAIN t THEN t[q] ELSE Dir]

\* What the kernel makes of a path: links are followed, up to two in a row.  A link that
\* leads above the tree finds nothing of it, not even by the name of its root.
Hop(t, p)   == IF Has(t, p, "link") THEN Clean(Parent(p) \o t[p].to) ELSE p
Real(t, p)  ==
  LET at[i \in 0 .. Len(p)] == IF i = 0 THEN <<>> ELSE Hop(t, Hop(t, Append(at[i - 1], p[i])))
  IN at[Len(p)]
Lstat(t, p) == Append(Real(t, Parent(p)), Base(p))

\* os.ReadDir(p): the entries in one fixed order, each with its type at this time.
ReadDir(t, p) ==
  LET names == {n \in {Base(q) : q \in DOMAIN t} : Append(Real(t, p), n) \in DOMAIN t}
      item(n) == [path |-> Append(p, n), dir |-> Has(t, Append(Real(t, p), n), "dir")]
      order == CHOOSE f \in [1 .. Cardinality(names) -> names] : IsInjective(f)
  IN [i \in 1 .. Len(order) |-> item(order[i])]

Bytes(t) ==
  FoldFunction(+, 0, [p \in DOMAIN t |-> IF t[p].kind = "file" THEN Len(t[p].data) ELSE 0])
===========================================================================
