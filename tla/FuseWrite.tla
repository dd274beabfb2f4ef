------------------------------- MODULE FuseWrite -------------------------------
(***************************************************************************)
(* swarmfs/fuse.py, WritableSwarmFUSEr: the writable mount.  Its tables     *)
(* hold what the manifest cannot: files in flight and empty directories.   *)
(* Under them is the file system of core.py, with its staging and its      *)
(* commits, which may be refused.                                          *)
(*                                                                         *)
(* The mount runs one operation at a time.  Above it are the kernel and    *)
(* libfuse: they look a path up before they act on it, flush at every      *)
(* close of a handle, release once, and turn the removal of an open file   *)
(* into a rename to a hidden name.                                         *)
(***************************************************************************)
EXTENDS Integers, Sequences, FiniteSets

CONSTANTS
    Top, Folder,  \* the mounted directory, and the directories one may make in it
    Name, Path,   \* names of files, and the paths in use
    Handle, Data, \* handles, and what a write adds to a file
    Nothing, Removed,
    Faults,       \* what may happen, out of FaultNames
    MaxLength     \* bound: the length of a file

FaultNames == {
    "refuses",   \* the commit of a file is refused
    "halts",     \* the commit of a rename or of a removal is refused
    "inflight",  \* a committed file is renamed while it is in flight
    "open",      \* a committed file or its directory is renamed while a handle is bound to it
    "shadows",   \* a file is renamed onto one whose commit was refused
    "folders"}   \* a directory is renamed or removed while tables and manifest both know it

\* What a file may hold.
Content == UNION {[1..n -> Data] : n \in 0..MaxLength}

ASSUME NamesAssumption == Top \notin Folder /\ Nothing # Removed /\ Content \intersect {Nothing, Removed} = {}
\* A name in use in one of the folders may be used in any: files move with theirs.
ASSUME PathAssumption ==
    /\ Path \subseteq ({Top} \union Folder) \X Name /\ Nothing \notin Path
    /\ \A p \in Path, d \in Folder : p[1] \in Folder => <<d, p[2]>> \in Path
ASSUME FaultsAssumption == Faults \subseteq FaultNames /\ MaxLength \in Nat \ {0}

VARIABLES
    files,    \* the head's files
    staged,   \* the lineage's staged writes and removals
    intrans,  \* _intrans of the file system
    pending,  \* _pending: the buffers
    dirty, created,  \* _dirty and _created
    dirs,     \* _dirs
    handle,   \* the kernel's handles, by what it calls their files; "bound": _handles has them, under a path
    want,     \* history: what was written, as the callers were told
    saved     \* history: files closed with success and not touched since

fsVars == <<files, staged, intrans>>
tableVars == <<pending, dirty, created>>
vars == <<files, staged, intrans, pending, dirty, created, dirs, handle, want, saved>>

Maybe == Content \union {Nothing}

Closed == [kind |-> "closed", path |-> Nothing, name |-> Nothing, writes |-> FALSE]

\* The tables, the manifest and the handles hold what they are for, and what
\* the tables say is unsaved has its buffer: _commit always finds it (fuse.py
\* 281-285 and 323-327).
FuseTypeOK ==
    /\ files \in [Path -> Maybe] /\ staged \in [Path -> Maybe \union {Removed}] /\ intrans \in BOOLEAN
    /\ pending \in [Path -> Maybe] /\ dirty \subseteq Path /\ created \subseteq Path
    /\ \A p \in dirty \union created : pending[p] # Nothing
    /\ dirs \subseteq Folder
    /\ handle \in [Handle -> {Closed} \union [kind : {"bound", "cached"}, path : Path, name : Path, writes : BOOLEAN]]
    /\ want \in [Path -> Maybe] /\ saved \subseteq Path

Nowhere == [p \in Path |-> Nothing]

Init ==
    /\ \E p \in Path, bytes \in [1..1 -> Data] : files \in {Nowhere, [Nowhere EXCEPT ![p] = bytes]}
    /\ staged = Nowhere /\ intrans = FALSE
    /\ pending = Nowhere /\ dirty = {} /\ created = {} /\ dirs = {}
    /\ handle = [h \in Handle |-> Closed] /\ want = files /\ saved = {}

(***************************************************************************)
(* The file system: what it shows, and its writes.                         *)
(***************************************************************************)
\* Mutant of Overlaid: a removal is shown as if it were a file.
OverlaidRaw(stage) == [p \in Path |-> IF stage[p] = Nothing THEN files[p] ELSE stage[p]]

\* The head's files under what is staged.
Overlaid(stage) == [p \in Path |-> CASE stage[p] = Nothing -> files[p]
                                     [] stage[p] = Removed -> Nothing
                                     [] OTHER -> stage[p]]

FsSees(p) == Overlaid(staged)[p]

Within(d) == {p \in Path : p[1] = d}

FsIsDir(d) == \E p \in Within(d) : FsSees(p) # Nothing

\* Mutant of FsStages: the commit is left to whoever commits next.
FsStagesOnly(stage) == staged' = stage /\ UNCHANGED <<files, intrans>>

\* Staged, and committed with all that is, unless a transaction is on.
FsStages(stage) ==
    /\ IF intrans THEN staged' = stage /\ UNCHANGED files
                  ELSE files' = Overlaid(stage) /\ staged' = Nowhere
    /\ UNCHANGED intrans

\* A refused commit leaves its writes staged (_commit_root).
FsRefuses(stage) == ~intrans /\ staged' = stage /\ UNCHANGED <<files, intrans>>

\* A transaction of its own; refused, it stays on (SwarmTransaction.complete).
FsTransacts(stage) == files' = Overlaid(stage) /\ staged' = Nowhere /\ intrans' = FALSE
FsHalts(stage) == "halts" \in Faults /\ staged' = stage /\ intrans' = TRUE /\ UNCHANGED files

\* Staging with p removed: a removal where the head has the file.
Without(stage, p) == [stage EXCEPT ![p] = IF files[p] = Nothing THEN Nothing ELSE Removed]

(***************************************************************************)
(* The tables.                                                             *)
(***************************************************************************)
InFlight(p) == pending[p] # Nothing

\* getattr and readdir: what the mount shows.
Seen(p) == IF InFlight(p) THEN pending[p] ELSE FsSees(p)

Listed(d) == {p[2] : p \in {q \in Within(d) : FsSees(q) # Nothing \/ InFlight(q)}}

DirSeen(d) == d = Top \/ d \in dirs \/ FsIsDir(d) \/ \E p \in Within(d) : InFlight(p)

IsOpen(p) == \E h \in Handle : handle[h].name = p

Bound(p) == {h \in Handle : handle[h].kind = "bound" /\ handle[h].path = p}

Opens(h, p, kind, writes) ==
    /\ handle[h] = Closed
    /\ handle' = [handle EXCEPT ![h] = [kind |-> kind, path |-> p, name |-> p, writes |-> writes]]

\* Mutant of Materialized: what the file held is not read.
MaterializedAnew(p) == IF InFlight(p) THEN pending[p] ELSE <<>>

\* _materialize: the buffer, or what the file system has.
Materialized(p) == IF Seen(p) = Nothing THEN <<>> ELSE Seen(p)

\* Mutant of Unsaved: a file created and never written to is not committed.
UnsavedWritten(p, written, made) == p \in written

Unsaved(p, written, made) == p \in written \union made

Kept(p, buffer) == [pending EXCEPT ![p] = buffer]

\* _commit of a buffer, dirty and created being as given.
Saves(p, buffer, written, made) ==
    /\ dirty' = written \ {p} /\ created' = made \ {p}
    /\ pending' = [pending EXCEPT ![p] = Nothing]
    /\ IF Unsaved(p, written, made)
       THEN FsStages([staged EXCEPT ![p] = buffer]) /\ dirs' = dirs \ {p[1]}
       ELSE UNCHANGED <<fsVars, dirs>>

SaveRefused(p, buffer, written, made) ==
    /\ "refuses" \in Faults /\ Unsaved(p, written, made)
    /\ FsRefuses([staged EXCEPT ![p] = buffer])
    /\ pending' = Kept(p, buffer) /\ dirty' = written \union {p} /\ created' = made \ {p}
    /\ UNCHANGED dirs

(***************************************************************************)
(* Files.                                                                  *)
(***************************************************************************)
Creates(h, p) ==
    /\ Seen(p) = Nothing /\ DirSeen(p[1])
    /\ Opens(h, p, "bound", TRUE)
    /\ pending' = [pending EXCEPT ![p] = <<>>] /\ created' = created \union {p}
    /\ want' = [want EXCEPT ![p] = <<>>] /\ saved' = saved \ {p}
    /\ UNCHANGED <<fsVars, dirty, dirs>>

OpensToRead(h, p) ==
    /\ Seen(p) # Nothing
    /\ Opens(h, p, IF InFlight(p) THEN "bound" ELSE "cached", FALSE)
    /\ UNCHANGED <<fsVars, tableVars, dirs, want, saved>>

OpensToWrite(h, p) ==
    /\ Seen(p) # Nothing
    /\ Opens(h, p, "bound", TRUE)
    /\ pending' = [pending EXCEPT ![p] = Materialized(p)]
    /\ UNCHANGED <<fsVars, dirty, created, dirs, want, saved>>

OpensTruncating(h, p) ==
    /\ Seen(p) # Nothing
    /\ Opens(h, p, "bound", TRUE)
    /\ pending' = [pending EXCEPT ![p] = <<>>] /\ dirty' = dirty \union {p}
    /\ want' = [want EXCEPT ![p] = <<>>] /\ saved' = saved \ {p}
    /\ UNCHANGED <<fsVars, created, dirs>>

\* To the file the caller has open, by the path _handles has for it.
Writes(h, bytes) ==
    LET p == handle[h].path
        name == handle[h].name
    IN  /\ handle[h].writes /\ Len(Materialized(p)) < MaxLength /\ Len(want[name]) < MaxLength
        /\ pending' = [pending EXCEPT ![p] = Append(Materialized(p), bytes)]
        /\ dirty' = dirty \union {p}
        /\ want' = [want EXCEPT ![name] = Append(@, bytes)] /\ saved' = saved \ {name}
        /\ UNCHANGED <<fsVars, created, dirs, handle>>

\* Of a file with an open handle to its buffer, or of a closed one, which is
\* committed at once.
Truncates(p) ==
    /\ Seen(p) # Nothing
    /\ want' = [want EXCEPT ![p] = <<>>] /\ saved' = saved \ {p}
    /\ \/ /\ Bound(p) # {} \/ (\E h \in Handle : handle[h].writes /\ handle[h].name = p)
          /\ pending' = [pending EXCEPT ![p] = <<>>] /\ dirty' = dirty \union {p}
          /\ UNCHANGED <<fsVars, created, dirs>>
       \/ /\ Bound(p) = {}
          /\ Saves(p, <<>>, dirty \union {p}, created) \/ SaveRefused(p, <<>>, dirty \union {p}, created)
    /\ UNCHANGED handle

\* close, of one descriptor of a handle, or fsync: its caller takes the file it
\* has open for saved.
Flushes(h) ==
    LET p == handle[h].path
    IN  /\ handle[h].kind = "bound"
        /\ IF p \in dirty
           THEN \/ Saves(p, pending[p], dirty, created \ {p}) /\ saved' = saved \union {handle[h].name}
                \/ SaveRefused(p, pending[p], dirty, created \ {p}) /\ UNCHANGED saved
           ELSE UNCHANGED <<fsVars, tableVars, dirs, saved>>
        /\ UNCHANGED <<handle, want>>

Releases(h) ==
    LET p == handle[h].path
    IN  /\ handle[h] # Closed
        /\ handle' = [handle EXCEPT ![h] = Closed]
        /\ IF handle[h].kind = "bound" /\ InFlight(p) /\ Bound(p) = {h}
           THEN Saves(p, pending[p], dirty, created) \/ SaveRefused(p, pending[p], dirty, created)
           ELSE UNCHANGED <<fsVars, tableVars, dirs>>
        /\ UNCHANGED <<want, saved>>

\* Of a file that no handle has open; its buffer, left by a refused commit, goes
\* first, and with it what _handles has under the path.
Unlinks(p) ==
    LET gone == Without(staged, p)
        commits == gone[p] = Removed
    IN  /\ Seen(p) # Nothing /\ ~IsOpen(p)
        /\ pending' = [pending EXCEPT ![p] = Nothing]
        /\ dirty' = dirty \ {p} /\ created' = created \ {p} /\ saved' = saved \ {p}
        /\ \/ /\ IF FsSees(p) # Nothing /\ commits THEN FsStages(gone)
                 ELSE staged' = gone /\ UNCHANGED <<files, intrans>>
              /\ want' = [want EXCEPT ![p] = Nothing]
           \/ FsSees(p) # Nothing /\ commits /\ "halts" \in Faults /\ FsRefuses(gone) /\ UNCHANGED want
        /\ handle' = [h \in Handle |-> IF InFlight(p) /\ h \in Bound(p)
                                      THEN [handle[h] EXCEPT !.kind = "cached", !.path = handle[h].name]
                                      ELSE handle[h]]
        /\ UNCHANGED dirs

(***************************************************************************)
(* Renames.                                                                *)
(***************************************************************************)
Carried(set, p, q) == IF p \in set THEN (set \ {p}) \union {q} ELSE set

\* The kernel calls open files by their new names; _handles is left as it is, and
\* a handle it does not have goes by the kernel's name.
Follow(to) ==
    handle' = [h \in Handle |->
        CASE handle[h].kind = "closed" -> handle[h]
          [] handle[h].kind = "cached" -> [handle[h] EXCEPT !.name = to[@], !.path = to[@]]
          [] handle[h].kind = "bound" -> [handle[h] EXCEPT !.name = to[@]]]

\* _handles takes the new name, as the kernel does.
Rebinds(p, q) ==
    handle' = [h \in Handle |-> [handle[h] EXCEPT !.path = IF @ = p THEN q ELSE @, !.name = IF @ = p THEN q ELSE @]]

Told(p, q) == want' = [want EXCEPT ![q] = want[p], ![p] = Nothing] /\ saved' = saved \ {p, q}

\* A file in flight: its buffer and its handles change their name, nothing else.
RenamesInFlight(p, q) ==
    /\ InFlight(p) /\ (FsSees(p) = Nothing \/ "inflight" \in Faults)
    /\ pending' = [pending EXCEPT ![q] = pending[p], ![p] = Nothing]
    /\ dirty' = Carried(dirty, p, q) /\ created' = Carried(created, p, q)
    /\ Rebinds(p, q) /\ Told(p, q)
    /\ UNCHANGED <<fsVars, dirs>>

\* Any other file, in a transaction.
RenamesCommitted(p, q) ==
    LET moved == [Without(staged, p) EXCEPT ![q] = FsSees(p)]
    IN  /\ ~InFlight(p) /\ (~InFlight(q) \/ "shadows" \in Faults)
        /\ Bound(p) = {} \/ "open" \in Faults
        /\ \/ FsTransacts(moved) /\ Told(p, q) /\ Follow([r \in Path |-> IF r = p THEN q ELSE r])
           \/ FsHalts(moved) /\ UNCHANGED <<want, saved, handle>>
        /\ UNCHANGED <<tableVars, dirs>>

Renames(p, q) ==
    /\ p # q /\ Seen(p) # Nothing /\ DirSeen(q[1]) /\ ~IsOpen(q)
    /\ RenamesInFlight(p, q) \/ RenamesCommitted(p, q)

Twin(p, d, e) == CASE p[1] = d -> <<e, p[2]>> [] p[1] = e -> <<d, p[2]>> [] OTHER -> p

\* A directory known to the tables, or to the tables' files in flight only.
Straddles(d) == (d \in dirs /\ FsIsDir(d)) \/ \E p \in Within(d) : InFlight(p)

\* One the tables made changes its name in them; any other has its files moved.
RenamesDir(d, e) ==
    LET here == {p \in Within(d) : FsSees(p) # Nothing}
        moved == [p \in Path |-> IF p \in here THEN Without(staged, p)[p]
                                 ELSE IF Twin(p, d, e) \in here /\ p[1] = e THEN FsSees(Twin(p, d, e))
                                 ELSE staged[p]]
        told == [p \in Path |-> CASE p[1] = d -> Nothing [] p[1] = e -> want[Twin(p, d, e)] [] OTHER -> want[p]]
    IN  /\ d # e /\ DirSeen(d) /\ ~DirSeen(e) /\ (Straddles(d) => "folders" \in Faults)
        /\ (\A p \in Within(d) : Bound(p) = {}) \/ "open" \in Faults
        /\ \/ /\ \/ d \in dirs /\ dirs' = (dirs \ {d}) \union {e} /\ UNCHANGED fsVars
                 \/ d \notin dirs /\ FsIsDir(d) /\ FsTransacts(moved) /\ UNCHANGED dirs
              /\ want' = told /\ Follow([p \in Path |-> IF p[1] = d THEN Twin(p, d, e) ELSE p])
           \/ d \notin dirs /\ FsIsDir(d) /\ FsHalts(moved) /\ UNCHANGED <<dirs, want, handle>>
        /\ saved' = saved \ (Within(d) \union Within(e))
        /\ UNCHANGED tableVars

(***************************************************************************)
(* Directories.                                                            *)
(***************************************************************************)
Mkdir(d) ==
    /\ ~DirSeen(d) /\ dirs' = dirs \union {d}
    /\ UNCHANGED <<fsVars, tableVars, handle, want, saved>>

\* One the tables made is asked of the tables alone; any other is not empty.
Rmdir(d) ==
    /\ d \in dirs /\ \A p \in Within(d) : ~InFlight(p)
    /\ Straddles(d) => "folders" \in Faults
    /\ dirs' = dirs \ {d}
    /\ want' = [p \in Path |-> IF p[1] = d THEN Nothing ELSE want[p]]
    /\ saved' = saved \ Within(d)
    /\ UNCHANGED <<fsVars, tableVars, handle>>

Next ==
    \/ \E h \in Handle, p \in Path : Creates(h, p) \/ OpensToRead(h, p) \/ OpensToWrite(h, p) \/ OpensTruncating(h, p)
    \/ \E h \in Handle : (\E bytes \in Data : Writes(h, bytes)) \/ Flushes(h) \/ Releases(h)
    \/ \E p \in Path : Truncates(p) \/ Unlinks(p) \/ \E q \in Path : Renames(p, q)
    \/ \E d \in Folder : Mkdir(d) \/ Rmdir(d) \/ \E e \in Folder : RenamesDir(d, e)

Spec == Init /\ [][Next]_vars

(***************************************************************************)
(* Properties.                                                             *)
(***************************************************************************)
\* The mount shows, under every name, what was last written, and lists
\* exactly the names that have something (getattr, readdir, fuse.py 355-385).
SeenAsWanted ==
    /\ \A p \in Path : Seen(p) = want[p]
    /\ \A d \in {Top} \union Folder : Listed(d) = {p[2] : p \in {q \in Within(d) : want[q] # Nothing}}

\* A close that succeeded left the file committed, and it stays so until it is
\* touched, whatever is refused later (fuse.py 461-466).
SavedMeansCommitted == \A p \in saved : files[p] = want[p]

\* A closed file is committed, or its buffer waits for a retry (fuse.py 336-340
\* and 629).
ClosedIsCommitted == \A p \in Path : IsOpen(p) \/ files[p] = want[p] \/ (p \in dirty /\ pending[p] = want[p])

(***************************************************************************)
(* What the documentation says and the code does not keep.                 *)
(***************************************************************************)
\* Reads of an in-flight file come from its buffer (fuse.py 275): an open
\* handle always has something to read from.
ReadsAnswer == \A h \in Handle : handle[h].kind = "bound" => InFlight(handle[h].path)
===============================================================================
