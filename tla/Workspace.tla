----------------------------- MODULE Workspace ----------------------------
(***************************************************************************)
(* Packaging and unpacking a working tree (internal/workspace): the steps  *)
(* of CreateArchive on the client, while the user may go on editing the    *)
(* tree, and the steps of Extract on the worker, on an archive that        *)
(* CreateArchive or another program wrote.                                 *)
(***************************************************************************)
EXTENDS FileTree

CONSTANTS
  Names,      \* components of the paths of the user's tree
  Trees,      \* trees the user may start from
  Edits,      \* nodes the user may put somewhere during the walk
  MaxEdits,   \* bound on the edits during the walk
  Foreign,    \* archives written by other programs
  destination,         \* Extract's argument, an absolute path
  MaxFiles, MaxBytes   \* workspace.Limits

ASSUME LimitsAssumption == MaxFiles \in Nat \ {0} /\ MaxBytes \in Nat \ {0}
ASSUME DestinationAssumption == IsAbs(destination) /\ Clean(destination) = destination
ASSUME MaxEditsAssumption == MaxEdits \in Nat

Entry(p, n, size) == [name |-> p, node |-> n, size |-> size]
Entries == [name : Path, node : Node, size : Nat]

\* The header of a file announces as many blocks as follow it.
IsWhole(e) == e.node.kind = "file" => Len(e.node.data) = e.size

ASSUME TreesAssumption ==
  Names \subseteq Name /\ Edits \subseteq Node /\ \A t \in Trees : IsOnDisk(t)
ASSUME ForeignAssumption ==
  Foreign \subseteq Seq(Entries) /\ \A a \in Foreign : \A i \in DOMAIN a : IsWhole(a[i])

VARIABLES
  exclusions, \* CreateArchive's argument, a sequence of paths
  src,        \* the user's tree
  edits,      \* how often it was edited during the walk
  wpc,        \* CreateArchive: "start", "visit", "copy", "descend", "packed", "failed"
  todo,       \* WalkDir's entries to visit, with the type that ReadDir saw
  archive,    \* the entries written: name, node, and the size in the header
  tmp,        \* whether the temporary archive file exists
  epc,        \* Extract: "idle", "next", "body", "ok", "refused", "failed"
  idx,        \* the entry it reads
  seen,       \* the clean names it has met
  files, bytes,  \* stats.Files and stats.UncompressedBytes
  dest        \* the tree below the destination directory

packVars    == <<exclusions, src, edits, wpc, todo, archive, tmp>>
extractVars == <<epc, idx, seen, files, bytes, dest>>

---------------------------------------------------------------------------
(* Checks on paths.                                                        *)

\* An exclusion of one component matches any component, a longer one a prefix.
isExcluded(p) ==
  \E e \in Range(exclusions) :
    LET c == Relative(Clean(e))
    IN /\ c # <<>> /\ ~Outside(c)
       /\ IF Len(c) = 1 THEN c[1] \in Range(p) ELSE Within(p, c)

safeArchivePath(p) ==
  /\ p # <<>> /\ ~IsAbs(p)
  /\ Clean(p) # <<>> /\ ~Outside(Clean(p))

\* The target of a link at p, taken from the text of the paths alone: it may leave the
\* destination if it comes back to it by its name.
validateSymlink(p, to) ==
  /\ to # <<>> /\ ~IsAbs(to)
  /\ Within(Clean(destination \o Parent(p) \o to), destination)

---------------------------------------------------------------------------
(* CreateArchive.                                                          *)

Init ==
  /\ exclusions = <<>> /\ edits = 0 /\ todo = <<>> /\ tmp = FALSE
  /\ \/ src \in Trees /\ archive = <<>> /\ wpc = "start"
     \/ src = <<>> /\ archive \in Foreign /\ wpc = "foreign"
  /\ epc = "idle" /\ idx = 1 /\ seen = {} /\ files = 0 /\ bytes = 0
  /\ dest = <<>>

\* An error from any call, or the end of the context; the deferred Remove.
fail ==
  /\ wpc \in {"start", "visit", "copy", "descend"}
  /\ wpc' = "failed" /\ tmp' = FALSE /\ todo' = <<>>
  /\ UNCHANGED <<exclusions, src, edits, archive, extractVars>>

\* CreateTemp, and the root of the walk.
begin ==
  /\ wpc = "start"
  /\ wpc' = "visit" /\ tmp' = TRUE /\ todo' = ReadDir(src, <<>>)
  /\ UNCHANGED <<exclusions, src, edits, archive, extractVars>>

\* The file before this entry was shorter than its header says: WriteHeader and Close
\* of the tar writer fail.
Short == archive # <<>> /\ LET e == archive[Len(archive)]
                           IN e.node.kind = "file" /\ Len(e.node.data) < e.size

visitSkippingSiblings ==
  /\ wpc = "visit" /\ todo # <<>>
  /\ LET e == Head(todo)
         q == Lstat(src, e.path)
         n == src[q]
     IN \/ /\ isExcluded(e.path)
           /\ todo' = SelectSeq(Tail(todo), LAMBDA f : ~e.dir => Parent(f.path) # Parent(e.path))
           /\ UNCHANGED <<wpc, archive>>
        \/ /\ ~isExcluded(e.path)
           /\ q \in DOMAIN src /\ n.kind # "other" /\ ~Short
           /\ archive' = Append(archive,
                IF n.kind = "file" THEN Entry(e.path, File(<<>>), Len(n.data))
                                   ELSE Entry(e.path, n, 0))
           /\ wpc' = IF n.kind = "file" THEN "copy" ELSE "descend"
           /\ UNCHANGED todo
  /\ UNCHANGED <<exclusions, src, edits, tmp, extractVars>>

\* The callback up to the header.  The entry is looked at again; it may have changed
\* since ReadDir.  Where it may not go on, fail is the only step left.
visit ==
  /\ wpc = "visit" /\ todo # <<>>
  /\ LET e == Head(todo)
         q == Lstat(src, e.path)
         n == src[q]
     IN \/ /\ isExcluded(e.path)       \* SkipDir, or nil for what is not a directory
           /\ todo' = Tail(todo)
           /\ UNCHANGED <<wpc, archive>>
        \/ /\ ~isExcluded(e.path)
           /\ q \in DOMAIN src /\ n.kind # "other" /\ ~Short
           /\ archive' = Append(archive,
                IF n.kind = "file" THEN Entry(e.path, File(<<>>), Len(n.data))
                                   ELSE Entry(e.path, n, 0))
           /\ wpc' = IF n.kind = "file" THEN "copy" ELSE "descend"
           /\ UNCHANGED todo
  /\ UNCHANGED <<exclusions, src, edits, tmp, extractVars>>

\* Open and io.Copy; the tar writer takes no more than the header announced.
copy ==
  /\ wpc = "copy"
  /\ LET q == Real(src, Head(todo).path)
     IN /\ Has(src, q, "file") /\ Len(src[q].data) <= archive[Len(archive)].size
        /\ archive' = [archive EXCEPT ![Len(archive)].node = src[q]]
  /\ wpc' = "descend"
  /\ UNCHANGED <<exclusions, src, edits, todo, tmp, extractVars>>

\* WalkDir goes into what ReadDir saw as a directory.
descend ==
  /\ wpc = "descend"
  /\ LET e == Head(todo)
     IN IF e.dir
        THEN /\ IsDir(src, Real(src, e.path))
             /\ todo' = ReadDir(src, e.path) \o Tail(todo)
        ELSE todo' = Tail(todo)
  /\ wpc' = "visit"
  /\ UNCHANGED <<exclusions, src, edits, archive, tmp, extractVars>>

finish ==
  /\ wpc = "visit" /\ todo = <<>> /\ ~Short
  /\ wpc' = "packed"
  /\ UNCHANGED <<exclusions, src, edits, todo, archive, tmp, extractVars>>

\* The user creates, replaces or removes a node while the tree is being packed.
edit ==
  /\ wpc \in {"visit", "copy", "descend"} /\ edits < MaxEdits
  /\ edits' = edits + 1
  /\ \E p \in DOMAIN src \union {Append(q, n) : q \in {<<>>} \union DOMAIN src, n \in Names} :
       /\ IsDir(src, Parent(p))
       /\ \/ \E n \in Edits : src' = Put(src, p, n)
          \/ p \in DOMAIN src /\ src' = Cut(src, p)
       /\ src' # src
  /\ UNCHANGED <<exclusions, wpc, todo, archive, tmp, extractVars>>

Pack == fail \/ begin \/ visit \/ copy \/ descend \/ finish \/ edit

---------------------------------------------------------------------------
(* Extract.                                                                *)

\* The destination is the empty directory the handler has just made.
open ==
  /\ epc = "idle"
  /\ epc' = "next"
  /\ UNCHANGED <<packVars, idx, seen, files, bytes, dest>>

ensureSomeParents(t, p) ==
  \A q \in Parents(p) : q \in DOMAIN t => t[q].kind # "file"

\* Every parent that exists is a real directory; the others are created.
ensureSafeParents(t, p) ==
  \A q \in Parents(p) : q \in DOMAIN t => t[q].kind = "dir"

exceedsSizeAlone(e) == e.size > MaxBytes

exceedsSize(e) == e.size > MaxBytes - bytes

\* The kinds Extract creates, each with its condition.
creatable(t, p, n) ==
  \/ n.kind = "dir"                    \* Mkdir, where an existing one is fine
  \/ n.kind = "file" /\ p \notin DOMAIN t
  \/ n.kind = "link" /\ p \notin DOMAIN t /\ validateSymlink(p, n.to)

\* One turn of the loop, up to the body of a file: accepted, refused before anything
\* is created, or refused after the parents have been.
next ==
  /\ epc = "next" /\ idx <= Len(archive)
  /\ LET e == archive[idx]
         p == Clean(e.name)
         t == WithParents(dest, p)
     IN \/ /\ ~safeArchivePath(e.name) \/ p \in seen
           /\ epc' = "refused"
           /\ UNCHANGED <<idx, seen, files, dest>>
        \/ /\ safeArchivePath(e.name) /\ p \notin seen
           /\ seen' = seen \union {p} /\ files' = files + 1
           /\ IF files + 1 > MaxFiles \/ exceedsSize(e) \/ ~ensureSafeParents(dest, p)
              THEN epc' = "refused" /\ UNCHANGED <<idx, dest>>
              ELSE IF ~creatable(t, p, e.node)
              THEN epc' = "refused" /\ dest' = t /\ UNCHANGED idx
              ELSE IF e.node.kind = "file"
              THEN epc' = "body" /\ dest' = With(t, p, File(<<>>)) /\ UNCHANGED idx
              ELSE /\ epc' = "next" /\ idx' = idx + 1
                   /\ dest' = IF p \in DOMAIN t THEN t ELSE With(t, p, e.node)
  /\ UNCHANGED <<packVars, bytes>>

\* CopyN: the whole body, or a part of it and then an error.
body ==
  /\ epc = "body"
  /\ LET e == archive[idx]
     IN \E n \in 0 .. e.size :
          /\ dest' = [dest EXCEPT ![Clean(e.name)] = File(SubSeq(e.node.data, 1, n))]
          /\ \/ /\ n = e.size
                /\ epc' = "next" /\ idx' = idx + 1 /\ bytes' = bytes + n
             \/ epc' = "failed" /\ UNCHANGED <<idx, bytes>>
  /\ UNCHANGED <<packVars, seen, files>>

\* After the last entry: the checks that nothing follows.
end ==
  /\ epc = "next" /\ idx > Len(archive)
  /\ epc' = "ok"
  /\ UNCHANGED <<packVars, idx, seen, files, bytes, dest>>

\* The upload breaks off, its context ends, or a call fails.
breakOff ==
  /\ epc = "next"
  /\ epc' = "failed"
  /\ UNCHANGED <<packVars, idx, seen, files, bytes, dest>>

Extract == next \/ body \/ end \/ breakOff

---------------------------------------------------------------------------
(* Properties                                                              *)

\* The archive was written by CreateArchive.
Own == wpc # "foreign"

\* Whatever the order of the entries of an archive, whatever they repeat or leave out,
\* everything Extract creates lies in directories it created itself: never below a
\* link or a file.
TreeIsReal == \A p \in DOMAIN dest : IsDir(dest, Parent(p))

\* "bounded archive extraction": not even an extraction that breaks off in the middle
\* of a file has written more bytes, or more files and links, than the limits allow
\* (directories that entries imply are not counted); and the statistics of a success,
\* from which the VM's disk is sized, are those of the tree.
WithinLimits ==
  /\ Bytes(dest) <= MaxBytes
  /\ Cardinality({p \in DOMAIN dest : dest[p].kind # "dir"}) <= MaxFiles
  /\ epc = "ok" => bytes = Bytes(dest) /\ files = Cardinality(DOMAIN dest \intersect seen)

Packed(t) == Restrict(t, {p \in DOMAIN t : ~isExcluded(p)})

\* What CreateArchive packs of a tree nobody edits is what Extract restores, the
\* exclusions apart.  And Extract never refuses an archive of CreateArchive for its
\* structure, only for a limit, a link that points out of the tree, or because what
\* ReadDir saw as a directory was something else when it was packed.
RestoresTree ==
  Own =>
    /\ epc = "ok" /\ edits = 0 =>
         dest = Packed(src) /\ files = Cardinality(DOMAIN dest)
    /\ epc = "refused" =>
         \/ Len(archive) > MaxFiles
         \/ FoldFunction(+, 0, [i \in DOMAIN archive |-> archive[i].size]) > MaxBytes
         \/ \E e \in Range(archive) :
              e.node.kind = "link" /\ ~validateSymlink(e.name, e.node.to)
         \/ edits > 0 /\ \E e, f \in Range(archive) :
              e.node.kind # "dir" /\ f.name # e.name /\ Within(f.name, e.name)
===========================================================================
