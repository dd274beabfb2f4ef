------------------------------- MODULE Manifest -------------------------------
(***************************************************************************)
(* swarmfs/mantaray, swarmfs/_listing.py and the commit of                 *)
(* swarmfs/commit.py: the trie a manifest is, how a commit patches it and  *)
(* its root index, and how it is looked up and listed.                     *)
(*                                                                         *)
(* A persisted node is content-addressed, so it stands here for its own    *)
(* reference.  A path is a sequence of bytes.  A reference of content is a *)
(* record of what it holds: a version of a file, or an index.              *)
(***************************************************************************)
EXTENDS Integers, Sequences, FiniteSets, SequencesExt

CONSTANTS
    Path,        \* paths the application writes, none of them under Reserved
    Removable,   \* those of them it removes
    Slash,       \* the byte "/"
    Reserved,    \* RESERVED_DIR
    IndexName,   \* INDEX_PATH is this name in Reserved
    PrefixMax,   \* PREFIX_MAX_SIZE
    Versions,    \* bound: contents a file may have
    MaxBatch,    \* bound: paths in one commit
    Adopts       \* whether index=True may meet a manifest that has files and no index

Byte == UNION {ToSet(p) : p \in Path} \union ToSet(Reserved) \union {Slash, IndexName}

ASSUME PathAssumption ==
    /\ Path \subseteq Seq(Int) \ {<<>>} /\ Removable \subseteq Path /\ Byte \subseteq Int
    /\ \A p \in Path : p # Reserved /\ ~IsPrefix(Reserved \o <<Slash>>, p)
ASSUME BoundAssumption == PrefixMax \in Nat \ {0} /\ Versions \in Nat \ {0} /\ MaxBatch \in Nat

IndexPath == Reserved \o <<Slash, IndexName>>

NoEntry == [none |-> TRUE]
Directory == [directory |-> TRUE]
FileRef(p, n) == [file |-> p, version |-> n]
IndexRef(entries) == [index |-> entries]

VARIABLES
    trie,    \* the root node of the latest manifest, as it was saved
    asked,   \* history: the files the commits were asked to leave
    owed     \* history: references of the trie that no commit has handed to commit_root

vars == <<trie, asked, owed>>

(***************************************************************************)
(* Nodes.  "typed" stands for NT_VALUE and the metadata: serialized with   *)
(* the fork that leads to a node and not with the node.  "mem" is a fork   *)
(* with its child in memory.                                               *)
(***************************************************************************)
Fresh == [entry |-> NoEntry, typed |-> FALSE, forks |-> <<>>]

IsEdge(node) == DOMAIN node.forks # {}

WithFork(node, fork) ==
    [node EXCEPT !.forks = [b \in DOMAIN @ \union {Head(fork.prefix)} |->
                               IF b = Head(fork.prefix) THEN fork ELSE @[b]]]

WithoutFork(node, byte) == [node EXCEPT !.forks = [b \in DOMAIN @ \ {byte} |-> @[b]]]

ForkTo(prefix, child) == [prefix |-> prefix, typed |-> FALSE, mem |-> TRUE, node |-> child]

After(p, n) == SubSeq(p, n + 1, Len(p))

\* Mutant: forgets that a node's type is not in the node.
ResolveUntyped(fork) == fork.node

\* The child of a fork as a private node: the fork's record seeds its type.
ResolveForWrite(fork) == IF fork.mem THEN fork.node ELSE [fork.node EXCEPT !.typed = fork.typed]

\* A reader's resolution: the child as unmarshal gives it, which knows no type.
Resolve(fork) == [fork EXCEPT !.mem = TRUE]

\* The child below a common prefix of n bytes: the child itself, or a new
\* node the edge is split at.
Below(fork, n) ==
    IF n = Len(fork.prefix)
    THEN ResolveForWrite(fork)
    ELSE WithFork(Fresh, [fork EXCEPT !.prefix = After(@, n)])

RECURSIVE Add(_, _, _)
Add(node, path, entry) ==
    IF path = <<>>
    THEN [node EXCEPT !.entry = entry, !.typed = TRUE]
    ELSE IF Head(path) \notin DOMAIN node.forks
    THEN LET prefix == SubSeq(path, 1, IF Len(path) > PrefixMax THEN PrefixMax ELSE Len(path))
         IN  WithFork(node, ForkTo(prefix, Add(Fresh, After(path, Len(prefix)), entry)))
    ELSE LET fork   == node.forks[Head(path)]
             prefix == LongestCommonPrefix({fork.prefix, path})
         IN  WithFork(node, ForkTo(prefix, Add(Below(fork, Len(prefix)), After(path, Len(prefix)), entry)))

\* Whether remove finds the path; it raises FileNotFoundError otherwise.
RECURSIVE CanRemove(_, _)
CanRemove(node, path) ==
    /\ Head(path) \in DOMAIN node.forks
    /\ LET fork == node.forks[Head(path)]
       IN  \/ path = fork.prefix
           \/ IsStrictPrefix(fork.prefix, path) /\ CanRemove(fork.node, After(path, Len(fork.prefix)))

\* Mutant: prunes nothing, as bee does.
DeadAsInBee(node) == FALSE

Dead(node) == ~IsEdge(node) /\ node.entry = NoEntry

RECURSIVE RemovePath(_, _)
RemovePath(node, path) ==
    LET fork  == node.forks[Head(path)]
        child == RemovePath(ResolveForWrite(fork), After(path, Len(fork.prefix)))
    IN  IF path = fork.prefix \/ Dead(child)
        THEN WithoutFork(node, Head(path))
        ELSE WithFork(node, [fork EXCEPT !.node = child, !.mem = TRUE])

\* Save recurses into the forks with a child in memory and takes their
\* records from the child; a node read back knows its type no more.
RECURSIVE Saved(_)
Saved(node) ==
    LET Written(f) == IF f.mem THEN [f EXCEPT !.typed = f.node.typed, !.mem = FALSE, !.node = Saved(@)] ELSE f
    IN  [node EXCEPT !.typed = FALSE, !.forks = [b \in DOMAIN @ |-> Written(@[b])]]

\* Mutant: journals the new root node alone.
SavedRefsOfRoot(node) == {Saved(node)}

\* node_refs: what save hands to the saver.
RECURSIVE SavedRefs(_)
SavedRefs(node) ==
    {Saved(node)} \union
    UNION {SavedRefs(node.forks[b].node) : b \in {c \in DOMAIN node.forks : node.forks[c].mem}}

(***************************************************************************)
(* Lookups and listings.                                                   *)
(***************************************************************************)
\* The fork a path ends at or within, and what is left of its prefix.
RECURSIVE Locate(_, _)
Locate(node, needle) ==
    IF Head(needle) \notin DOMAIN node.forks THEN {}
    ELSE LET fork == node.forks[Head(needle)]
         IN  IF IsPrefix(needle, fork.prefix)
             THEN {[fork |-> fork, leftover |-> After(fork.prefix, Len(needle))]}
             ELSE IF IsPrefix(fork.prefix, needle) /\ IsEdge(fork.node)
             THEN Locate(fork.node, After(needle, Len(fork.prefix)))
             ELSE {}

HasFile(fork) == fork.typed /\ fork.node.entry # NoEntry

Entry(path, ref) == [path |-> path, ref |-> ref]

RECURSIVE IterFork(_, _)
IterFork(fork, acc) ==
    (IF HasFile(fork) THEN {Entry(acc, fork.node.entry)} ELSE {}) \union
    UNION {IterFork(f, acc \o f.prefix) : f \in Range(fork.node.forks)}

IterFiles(node, prefix) ==
    IF prefix = <<>>
    THEN UNION {IterFork(f, f.prefix) : f \in Range(node.forks)}
    ELSE UNION {IterFork(l.fork, l.leftover) : l \in Locate(node, prefix)}

\* Mutant: asks for a directory first.
StatOfEdgeFirst(fork) ==
    IF IsEdge(fork.node) THEN {Directory} ELSE IF HasFile(fork) THEN {fork.node.entry} ELSE {}

StatOf(fork) ==
    IF HasFile(fork) THEN {fork.node.entry}
    ELSE IF IsEdge(fork.node) THEN {Directory} ELSE {}

\* What there is at a path: a reference, "directory", or nothing.
Stat(node, path) ==
    UNION {IF l.leftover = <<>> THEN StatOf(l.fork)
           ELSE IF Head(l.leftover) = Slash THEN {Directory} ELSE {} : l \in Locate(node, path)}

UpToSlash(path) == SubSeq(path, 1, (CHOOSE i \in DOMAIN path : path[i] = Slash /\ \A j \in 1..(i - 1) : path[j] # Slash) - 1)

\* The children of a directory: those with a reference, and "directory".
RECURSIVE Process(_, _)
Process(fork, acc) ==
    IF Slash \in ToSet(acc)
    THEN {Entry(UpToSlash(acc), Directory)} \ {Entry(<<>>, Directory)}
    ELSE (IF HasFile(fork) THEN {Entry(acc, fork.node.entry)} ELSE {}) \union
         UNION {Process(f, acc \o f.prefix) : f \in Range(fork.node.forks)}

Level(node) == UNION {Process(f, f.prefix) : f \in Range(node.forks)}

\* A set of the one listing; empty where there is no such directory.
ListDirectory(node, dir) ==
    IF dir = <<>> THEN {Level(node)}
    ELSE {IF l.leftover # <<>> THEN Process(l.fork, l.leftover) ELSE Level(l.fork.node) :
             l \in {k \in Locate(node, dir \o <<Slash>>) : k.leftover # <<>> \/ IsEdge(k.fork.node)}}

(***************************************************************************)
(* The same answers from an index's entries.                               *)
(***************************************************************************)
IndexFind(entries, prefix) == {Entry(After(e.path, Len(prefix)), e.ref) : e \in {d \in entries : IsPrefix(prefix, d.path)}}

IndexStat(entries, path) ==
    LET hits == {e \in entries : e.path = path}
    IN  IF hits # {} THEN {e.ref : e \in hits}
        ELSE IF IndexFind(entries, path \o <<Slash>>) # {} THEN {Directory} ELSE {}

IndexList(entries, dir) ==
    LET found == IndexFind(entries, IF dir = <<>> THEN <<>> ELSE dir \o <<Slash>>)
    IN  IF found = {} /\ dir # <<>> THEN {}
        ELSE {{IF Slash \in ToSet(e.path) THEN Entry(UpToSlash(e.path), Directory) ELSE e :
                  e \in {d \in found : d.path # <<>>}}}

(***************************************************************************)
(* Commits.                                                                *)
(***************************************************************************)
\* _find_index: the index's reference, and the entries it holds.
FindIndex(node) ==
    {l.fork.node.entry : l \in {k \in Locate(node, IndexPath) : k.leftover = <<>>}} \ {NoEntry}

IndexEntries(node) == UNION {r.index : r \in FindIndex(node)}

\* Looking the index up resolves forks of the tree that is to be patched.
RECURSIVE Probed(_, _)
Probed(node, needle) ==
    IF needle = <<>> \/ Head(needle) \notin DOMAIN node.forks THEN node
    ELSE LET fork == Resolve(node.forks[Head(needle)])
         IN  IF needle = fork.prefix \/ (IsPrefix(fork.prefix, needle) /\ IsEdge(fork.node))
             THEN WithFork(node, [fork EXCEPT !.node = Probed(@, After(needle, Len(fork.prefix)))])
             ELSE node

\* So does the walk that derives the entries of a manifest without an index.
RECURSIVE Walked(_)
Walked(node) ==
    [node EXCEPT !.forks = [b \in DOMAIN @ |-> [Resolve(@[b]) EXCEPT !.node = Walked(@)]]]

Adopting(node) == IndexEntries(node) = {}

Looked(node, indexed) ==
    IF indexed /\ Adopting(node) THEN Walked(Probed(node, IndexPath)) ELSE Probed(node, IndexPath)

Content(node) == {e \in IterFiles(node, <<>>) : e.path # IndexPath}

NewEntries(node, writes, removes) ==
    {e \in IF Adopting(node) THEN Content(node) ELSE IndexEntries(node) :
        e.path \notin removes \union {w.path : w \in writes}} \union writes

\* The order removes are sorted in.
Before(p, q) ==
    \/ IsStrictPrefix(p, q)
    \/ \E i \in DOMAIN p \intersect DOMAIN q : SubSeq(p, 1, i - 1) = SubSeq(q, 1, i - 1) /\ p[i] < q[i]

RECURSIVE CanRemoveAll(_, _)
CanRemoveAll(node, paths) ==
    paths # <<>> =>
        CanRemove(node, Head(paths)) /\ CanRemoveAll(RemovePath(node, Head(paths)), Tail(paths))

\* Mutant: leaves the index of another engine where it is.
GoesAlone(node, removes, indexed) == SetToSortSeq(removes, Before)

\* An engine that keeps no index removes one it finds.
Goes(node, removes, indexed) ==
    SetToSortSeq(removes \union IF ~indexed /\ FindIndex(node) # {} THEN {IndexPath} ELSE {}, Before)

AddEntry(node, e) == Add(node, e.path, e.ref)

Patched(node, writes, removes, indexed) ==
    LET added == FoldLeft(AddEntry, FoldLeft(RemovePath, Looked(node, indexed), Goes(node, removes, indexed)), writes)
    IN  IF indexed THEN Add(added, IndexPath, IndexRef(NewEntries(node, ToSet(writes), removes))) ELSE added

\* What a local-first commit journals with its root: the files and the index
\* it has put, and the nodes it has saved.
Blobs(node, writes, removes, indexed) ==
    {e.ref : e \in ToSet(writes)} \union
    (IF indexed THEN {IndexRef(NewEntries(node, ToSet(writes), removes))} ELSE {}) \union
    SavedRefs(Patched(node, writes, removes, indexed))

RECURSIVE NodesOf(_)
NodesOf(node) == {node} \union UNION {NodesOf(f.node) : f \in Range(node.forks)}

RefsOf(node) == (NodesOf(node) \union {n.entry : n \in NodesOf(node)}) \ {NoEntry}

UpTo(n, S) == UNION {kSubset(k, S) : k \in 0..n}

\* What _rm_file has found to be a file, in the trie or in an index at hand.
Removals == {p \in Removable : (Stat(trie, p) \union IndexStat(IndexEntries(trie), p)) \ {Directory} # {}}

\* The dictionary of staged writes: entries in the order they were staged in.
Writes == UNION {SetToSeqs({Entry(p, FileRef(p, n[p])) : p \in DOMAIN n}) :
                    n \in UNION {[P -> 1..Versions] : P \in UpTo(MaxBatch, Path)}}

Init == trie = Fresh /\ asked = {} /\ owed = {}

\* A commit; where remove raises, nothing changes.
Commit(writes, removes, indexed) ==
    /\ Len(writes) + Cardinality(removes) \in 1..MaxBatch
    /\ \A i \in DOMAIN writes : writes[i].path \notin removes
    /\ indexed /\ Adopting(trie) => Adopts \/ Content(trie) = {}
    /\ CanRemoveAll(trie, Goes(trie, removes, indexed))
    /\ trie' = Saved(Patched(trie, writes, removes, indexed))
    /\ asked' = {e \in asked : e.path \notin removes /\ \A i \in DOMAIN writes : e.path # writes[i].path} \union ToSet(writes)
    /\ owed' = (RefsOf(trie') \ (RefsOf(trie) \ owed)) \ Blobs(trie, writes, removes, indexed)

Next == \E writes \in Writes, removes \in UpTo(MaxBatch, Removals), indexed \in BOOLEAN : Commit(writes, removes, indexed)

Spec == Init /\ [][Next]_vars

(***************************************************************************)
(* Properties.                                                             *)
(***************************************************************************)
\* A saved trie can be serialized and has no dead ends: a fork is filed
\* under its first byte, its prefix fits the record, and every branch leads
\* to a file (add, remove and save of mantaray/build.py).
WellFormed(node) ==
    \A b \in DOMAIN node.forks :
        LET f == node.forks[b]
        IN  /\ Head(f.prefix) = b /\ Len(f.prefix) \in 1..PrefixMax
            /\ IsEdge(f.node) \/ f.node.entry # NoEntry
            /\ ~f.mem /\ ~f.node.typed
TrieOK == \A n \in NodesOf(trie) : WellFormed(n)

\* Commits do to the files what they were asked, and nothing to any other
\* file: adding splits, chains and moves edges and removing prunes them, and
\* neither loses an entry or its type, whatever the history of the trie (add,
\* remove and save of mantaray/build.py, _find_index of commit.py).
FilesAsAsked == Content(trie) = asked

\* An index that is there lists the files that are there, though it is kept
\* up without looking at the trie, by engines that keep one and engines that
\* do not (_index_entries and commit of commit.py).
IndexAndTrieAgree == FindIndex(trie) # {} => IndexEntries(trie) = Content(trie)

Dirs == UNION {{SubSeq(p, 1, i - 1) : i \in {j \in DOMAIN p : p[j] = Slash}} : p \in Path}

Places == UNION {Prefixes(p) : p \in Path} \ {<<>>}

\* Walks that prune, and lookups that stop within an edge, find what the list
\* of all files says: the children of every directory, the files below every
\* prefix, and every file by its path (list_directory, iter_files and locate
\* of mantaray/walk.py, stat of _listing.py).
ListingsAgree ==
    /\ \A d \in Dirs \union {<<>>} : ListDirectory(trie, d) = IndexList(IterFiles(trie, <<>>), d)
    /\ \A p \in Places : /\ IterFiles(trie, p) = IndexFind(IterFiles(trie, <<>>), p)
                         /\ IndexStat(IterFiles(trie, <<>>), p) \subseteq Stat(trie, p)

\* Every blob a manifest refers to was journaled by the commit that made it,
\* or by an ancestor: none is left that no root would have pushed (commit of
\* LocalFirstCommitEngine, which lists the nodes save has written).
NothingOwed == owed = {}

\* stat says of every path what the list of all files says, and so an index
\* would.  It does not: an edge that ends at no "/" is a directory to it.
StatsAgree == \A p \in Places : Stat(trie, p) = IndexStat(Content(trie), p)
===============================================================================
