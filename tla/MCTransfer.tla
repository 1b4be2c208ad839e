----------------------------- MODULE MCTransfer ---------------------------
(* An instance of Transfer for TLC.                                        *)
EXTENDS Transfer, SequencesExt

A == <<"a">>
B == <<"b">>
X == <<"x">>
AB == <<"a", "b">>

f1 == File(<<1>>)
f2 == File(<<2, 2>>)

\* Trees with a nested file, a file that an exclusion hits in the middle of a
\* directory, a link up, a link out of the tree, a special file, and an empty one.
MCTrees ==
  { <<>>,
    (A :> Dir) @@ (AB :> f1) @@ (B :> f1),
    (A :> f1) @@ (X :> f2) @@ (B :> Dir) @@ (<<"b", "x">> :> f1) @@ (<<"b", "a">> :> f2),
    (A :> Dir) @@ (AB :> Link(<<"..", "b">>)) @@ (B :> f2),
    (A :> Link(<<"..", "b">>)) @@ (B :> f1),
    (A :> Dir) @@ (<<"a", "x">> :> Other) }

MCEdits == {f1, f2, Dir, Link(B)}

\* Small archives in any order: repeated and unclean names, missing parents, files and
\* links where a later entry expects a directory, links by the name of the destination.
MCEntries ==
  {Entry(p, f1, 1) : p \in {A, B, AB, <<"a", "..", "b">>}}
  \union {Entry(p, f2, 2) : p \in {A, AB}}
  \union {Entry(p, Dir, 0) : p \in {A, AB, <<".">>}}
  \union {Entry(p, Link(B), 0) : p \in {A, AB}}
  \union {Entry(A, Link(<<"..", "w", "b">>), 0), Entry(A, Link(<<"..", "..", "w">>), 0)}
  \union {Entry(<<"..", "a">>, f1, 1), Entry(B, Other, 0)}

\* Archives that go over MaxFiles, with a file and with a directory that is there already.
MCLong ==
  {<<Entry(AB, f1, 1), Entry(B, f1, 1), Entry(X, Dir, 0), Entry(<<"x", "a">>, f1, 1), e>> :
     e \in {Entry(A, Dir, 0), Entry(<<"x", "b">>, f1, 1)}}

MCDestination == <<"/", "w">>

MCForeign == BoundedSeq(MCEntries, 3) \union MCLong

Opt(name, p) == [name |-> name, path |-> p]

MCOptionLists ==
  { <<>>,
    <<Opt("--exclude", A)>>,
    <<Opt("--exclude", AB), Opt("--artifact", AB)>>,
    <<Opt("--no-default-excludes", <<>>), Opt("--artifact", AB), Opt("--artifact", B)>>,
    <<Opt("--artifact", X), Opt("--artifact", <<"/", "b">>)>>,
    <<Opt("--artifact", <<"..", "b">>)>>,
    <<Opt("--malformed", <<>>)>> }

MCDefaultExclusions == <<X>>

MCJobNodes == {f1, f2, Dir, Link(<<"b">>)}
===========================================================================
