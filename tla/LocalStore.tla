------------------------------ MODULE LocalStore ------------------------------
(***************************************************************************)
(* swarmfs/localstore.py: one LocalStore over one store directory.  Every  *)
(* public method runs under the store's mutex, so a method is one action;  *)
(* the two that drop the mutex for the network or for hashing (get/        *)
(* get_many, scrub) are split where they drop it.                          *)
(*                                                                         *)
(* The journal is fsynced before its event is applied, so its fold (rung,  *)
(* parent, blobs, latest, ttl, pins) is the same after a restart; a blob   *)
(* file is durable only once _sync_blobs flushed its bytes and its         *)
(* directory entry.  A blob is a model value: its bytes are right          *)
(* ("written", "flushed", "durable") or do not hash to its name ("torn").  *)
(*                                                                         *)
(* What the callers owe the store is a guard of the action and marked as   *)
(* such: commit_root lists everything the new root reaches and its parent  *)
(* does not (commit.py), rebase_root lists all the root reaches, and       *)
(* mark_confirmed follows the verification of the root's blobs (the lag    *)
(* rule; Syncer shows that the worker keeps it).                           *)
(***************************************************************************)
EXTENDS Integers, FiniteSets, FiniteSetsExt

CONSTANTS
    Root, NoRoot,   \* root references; None
    Blob,           \* blob references
    Reach,          \* Reach[r]: the blobs a reader of root r may ask for
    Structure,      \* the blobs that are index structure, the rest is payload
    Foreign,        \* blobs on Swarm through somebody else, before we start
    Size, MaxBytes, \* bytes of a blob; the byte budget
    PinName,        \* names of working-set pins
    Durability,     \* the constructor's fsync policy: "commit" or "blob"
    PowerFails,     \* whether the machine may lose power
    Tears,          \* whether that can leave garbage under a blob's name, as
                    \* _sync_blobs fears, or the file system orders a rename
                    \* after the bytes it names
    Collects        \* whether the application calls gc_orphans

ASSUME RootAssumption == NoRoot \notin Root
ASSUME ReachAssumption == Reach \in [Root -> SUBSET Blob]
ASSUME ForeignAssumption == Foreign \subseteq Blob
ASSUME SizeAssumption == Size \in [Blob -> Nat \ {0}] /\ MaxBytes \in Nat
ASSUME ModeAssumption ==
    /\ Durability \in {"commit", "blob"}
    /\ PowerFails \in BOOLEAN /\ Tears \in BOOLEAN /\ Collects \in BOOLEAN

VARIABLES
    \* the fold of the journal
    rung,      \* rung[r]: "none" (not in the fold) or its place on the ladder
    parent,    \* parent[r]: the root it was committed on, or NoRoot
    blobs,     \* blobs[r]: the blobs its event lists
    latest,    \* the most recently committed root, or NoRoot
    expiring,  \* confirmed roots whose batch lives less than min_evict_ttl
    pins,      \* pins[n]: the blobs held under the name n
    listed,    \* every blob an event ever listed (_session_listed: a replay
               \* of the journal refills it)
    \* the disk
    disk,      \* disk[b]: the state of the blob's file
    \* the session
    written,   \* blobs written since the store was opened
    synced,    \* blobs the session takes for durable
    healing,   \* evicted blobs a get or get_many is fetching
    batched,   \* whether that is a get_many, which settles the budget last
    suspect,   \* the file scrub has just hashed and found torn, if any
    \* the network
    swarm      \* the blobs Swarm can return

journalVars == <<rung, parent, blobs, latest, expiring, pins, listed>>
sessionVars == <<written, synced, healing, batched, suspect>>
vars == <<journalVars, disk, sessionVars, swarm>>

(***************************************************************************)
(* The fold and the files, as the code asks about them.                    *)
(***************************************************************************)
Fold == {r \in Root : rung[r] # "none"}

Listed == UNION {blobs[r] : r \in Fold}

Local == {b \in Blob : disk[b] # "absent"}

Good == {b \in Blob : disk[b] \in {"written", "flushed", "durable"}}

Pinned == UNION {pins[n] : n \in PinName}

\* Mutant of Evictable: it trusts the push.
EvictableOncePushed ==
    {b \in Blob \ Pinned :
        \E r \in Fold : b \in blobs[r] /\ rung[r] \in {"pushed", "confirmed"} /\ r \notin expiring}

\* The journal proves Swarm holds b, and will for a while: some listing root
\* is confirmed under a batch that is not about to expire; no pin holds b.
Evictable ==
    {b \in Blob \ Pinned :
        \E r \in Fold : b \in blobs[r] /\ rung[r] = "confirmed" /\ r \notin expiring}

\* network_confirmed walks from r to its oldest ancestor: the least set that
\* holds r and, with a root, its parent.
Ancestry(r) ==
    {a \in Root : \A S \in SUBSET Root :
        (r \in S /\ \A x \in S : parent[x] \in S \union {NoRoot}) => a \in S}

NetworkConfirmed(r) == \A a \in Ancestry(r) : rung[a] = "confirmed"

Available == Good \union swarm

(***************************************************************************)
(* Eviction.  evict(n) takes payload before structure, least recently used *)
(* first within each (any order here), and stops once n bytes are free.    *)
(***************************************************************************)
Bytes(S) == MapThenSumSet(LAMBDA b : Size[b], S)

Victims(candidates, n) ==
    {V \in SUBSET candidates :
        /\ V \cap Structure # {} => candidates \ Structure \subseteq V
        /\ Bytes(V) >= n \/ V = candidates
        /\ V # {} => \E last \in V :
              /\ Bytes(V \ {last}) < n
              /\ V \cap Structure # {} => last \in Structure}

Unlink(d, V) == [b \in Blob |-> IF b \in V THEN "absent" ELSE d[b]]

\* _enforce_budget, when the method has left the files as d: what is over the
\* budget is evicted as far as the journal after the method's event allows.
EnforceBudget(d) ==
    LET local == {b \in Blob : d[b] # "absent"}
    IN  \E V \in Victims(local \cap Evictable', Bytes(local) - MaxBytes) :
            disk' = Unlink(d, V)

(***************************************************************************)
(* Writing blobs and making them durable.                                  *)
(***************************************************************************)
\* _write_blob: bytes to a temporary file, renamed into place.  Under "blob"
\* the bytes are fsynced first; the directory entry never is.
WriteBlob(b) == [disk EXCEPT ![b] = IF Durability = "blob" THEN "flushed" ELSE "written"]

SessionWrites(b) ==
    /\ written' = written \union {b}
    /\ synced' = IF Durability = "blob" THEN synced \union {b} ELSE synced

\* Mutant of Unsynced: a file from an earlier session is taken for durable.
UnsyncedThisSession(refs) == (refs \cap written) \ (synced \union Listed)

\* _sync_blobs passes over what it has synced before and what a root of the
\* fold lists; of the rest, a file from an earlier session is hashed first.
Unsynced(refs) == refs \ (synced \union Listed)

TornOrphans(refs) == {b \in Unsynced(refs) \ written : disk[b] = "torn"}

SyncBlobs(refs) ==
    /\ TornOrphans(refs) = {}
    /\ disk' = [b \in Blob |-> IF b \in Unsynced(refs) /\ b \in Good THEN "durable" ELSE disk[b]]
    /\ synced' = synced \union refs

\* A torn orphan makes it drop that file and raise.  The files before it in
\* the list are fsynced and taken for durable; their directories, which are
\* flushed after the loop, are not.
SyncBlobsRaises(refs) ==
    \E torn \in TornOrphans(refs), before \in SUBSET (refs \ TornOrphans(refs)) :
        /\ disk' = [b \in Blob |->
                      IF b = torn THEN "absent"
                      ELSE IF b \in before \cap Unsynced(refs) /\ disk[b] = "written"
                           THEN "flushed" ELSE disk[b]]
        /\ synced' = synced \union before
        /\ UNCHANGED <<journalVars, written, healing, batched, suspect, swarm>>

Init ==
    /\ rung = [r \in Root |-> "none"]
    /\ parent = [r \in Root |-> NoRoot]
    /\ blobs = [r \in Root |-> {}]
    /\ latest = NoRoot
    /\ expiring = {}
    /\ pins = [n \in PinName |-> {}]
    /\ listed = {}
    /\ disk = [b \in Blob |-> "absent"]
    /\ written = {} /\ synced = {}
    /\ healing = {} /\ batched = FALSE
    /\ suspect = {}
    /\ swarm = Foreign

(***************************************************************************)
(* The application's calls.                                                *)
(***************************************************************************)
\* put: a blob that has a file, whatever is in it, is not written again.
Put(b) ==
    /\ disk[b] = "absent"
    /\ UNCHANGED <<journalVars, healing, batched, suspect, swarm>>
    /\ SessionWrites(b)
    /\ EnforceBudget(WriteBlob(b))

\* Caller: what r reaches and neither p's tree nor somebody else provides.
Owed(r, p) == Reach[r] \ (Foreign \union IF p = NoRoot THEN {} ELSE Reach[p])

CommitAllowed(r, p, refs) ==
    /\ r \notin Fold
    /\ p \in Fold \union {NoRoot}
    /\ refs \subseteq Local
    /\ Owed(r, p) \subseteq refs /\ refs \subseteq Reach[r]

CommitRoot(r, p, refs) ==
    /\ CommitAllowed(r, p, refs)
    /\ SyncBlobs(refs)
    /\ rung' = [rung EXCEPT ![r] = "committed"]
    /\ parent' = [parent EXCEPT ![r] = p]
    /\ blobs' = [blobs EXCEPT ![r] = refs]
    /\ latest' = r
    /\ listed' = listed \union refs
    /\ UNCHANGED <<expiring, pins, written, healing, batched, suspect, swarm>>

CommitRootRaises(r, p, refs) == CommitAllowed(r, p, refs) /\ SyncBlobsRaises(refs)

\* Caller: the full reachable set of r.
RebaseAllowed(r, refs) ==
    /\ r \in Fold
    /\ Owed(r, NoRoot) \subseteq refs /\ refs \subseteq Reach[r]
    /\ \A b \in refs \ Local :
          \E l \in Fold : b \in blobs[l] /\ rung[l] = "confirmed"

\* The rebased event leaves r alone in the fold, with the rung it had and no
\* parent.  Mutants: r starts over, r keeps its parent, the others lose their
\* entry and not only their value.
RungsOfTipAnew(r) == [x \in Root |-> IF x = r THEN "committed" ELSE "none"]

RungsOfTip(r) == [x \in Root |-> IF x = r THEN rung[r] ELSE "none"]

ParentsOfTipKept(r) == [x \in Root |-> IF x = r THEN parent[r] ELSE NoRoot]

ParentsOfTipOnly(r) == [x \in {r} |-> NoRoot]

ParentsOfTip(r) == [x \in Root |-> NoRoot]

\* rebase_root
RebaseRoot(r, refs) ==
    /\ RebaseAllowed(r, refs)
    /\ SyncBlobs(refs \cap Local)
    /\ rung' = RungsOfTip(r)
    /\ parent' = ParentsOfTip(r)
    /\ blobs' = [x \in Root |-> IF x = r THEN refs ELSE {}]
    /\ latest' = r
    /\ expiring' = expiring \cap {r}
    /\ listed' = listed \union refs
    /\ UNCHANGED <<pins, written, healing, batched, suspect, swarm>>

RebaseRootRaises(r, refs) == RebaseAllowed(r, refs) /\ SyncBlobsRaises(refs \cap Local)

\* gc_orphans spares what was written this session and no event ever listed.
\* Mutant: it forgets the pins.
OrphansDespitePins == Local \ (Listed \union (written \ listed))

Orphans == Local \ (Listed \union Pinned \union (written \ listed))

GcOrphans ==
    /\ Collects
    /\ disk' = Unlink(disk, Orphans)
    /\ UNCHANGED <<journalVars, sessionVars, swarm>>

Pin(n, refs) ==
    /\ pins' = [pins EXCEPT ![n] = refs]
    /\ UNCHANGED <<rung, parent, blobs, latest, expiring, listed, disk, sessionVars, swarm>>

Unpin(n) == pins[n] # {} /\ Pin(n, {})

Evict(n) ==
    /\ \E V \in Victims(Local \cap Evictable, n) : disk' = Unlink(disk, V)
    /\ UNCHANGED <<journalVars, sessionVars, swarm>>

(***************************************************************************)
(* Reads.  A local file is served as it is.  An evicted blob is fetched    *)
(* with the mutex free, checked against its name, and written under the    *)
(* mutex if no file came in between.                                       *)
(***************************************************************************)
ReadLocal(b) == disk[b]

Get(b) ==
    /\ healing = {} /\ ~batched
    /\ b \in Listed \ Local
    /\ healing' = {b}
    /\ UNCHANGED <<journalVars, disk, written, synced, batched, suspect, swarm>>

GetMany(refs) ==
    /\ healing = {} /\ ~batched
    /\ refs # {} /\ refs \subseteq Listed \ Local
    /\ healing' = refs /\ batched' = TRUE
    /\ UNCHANGED <<journalVars, disk, written, synced, suspect, swarm>>

Heal(b) ==
    /\ b \in healing \cap swarm
    /\ healing' = healing \ {b}
    /\ UNCHANGED <<journalVars, batched, suspect, swarm>>
    /\ IF b \in Local
       THEN UNCHANGED <<disk, written, synced>>
       ELSE /\ SessionWrites(b)
            /\ IF batched THEN disk' = WriteBlob(b) ELSE EnforceBudget(WriteBlob(b))

GetManyReturns ==
    /\ batched /\ healing = {}
    /\ batched' = FALSE
    /\ UNCHANGED <<journalVars, written, synced, healing, suspect, swarm>>
    /\ EnforceBudget(disk)

\* The endpoint fails or serves wrong bytes: the read raises.
HealRaises ==
    /\ healing # {}
    /\ healing' = {} /\ batched' = FALSE
    /\ UNCHANGED <<journalVars, disk, written, synced, suspect, swarm>>

\* scrub hashes a file with the mutex free, then takes it and drops the file
\* if the blob is evictable by now, whatever the file has become.
\* Mutant of ScrubDrops: it drops what it found torn without asking again.
ScrubReads(b) ==
    /\ suspect = {} /\ disk[b] = "torn"
    /\ suspect' = {b}
    /\ UNCHANGED <<journalVars, disk, written, synced, healing, batched, swarm>>

ScrubDropsUnasked(b) ==
    /\ b \in suspect
    /\ suspect' = {}
    /\ disk' = Unlink(disk, {b})
    /\ UNCHANGED <<journalVars, written, synced, healing, batched, swarm>>

ScrubDrops(b) ==
    /\ b \in suspect
    /\ suspect' = {}
    /\ disk' = Unlink(disk, {b} \cap Evictable)
    /\ UNCHANGED <<journalVars, written, synced, healing, batched, swarm>>

(***************************************************************************)
(* The worker's calls.                                                     *)
(***************************************************************************)
\* The event is applied only upwards.  Mutant: it is applied to any root.
PushedAppliesAnyway(r) == r \in Fold

PushedApplies(r) == rung[r] = "committed"

MarkPushed(r) ==
    /\ PushedApplies(r)
    /\ rung' = [rung EXCEPT ![r] = "pushed"]
    /\ UNCHANGED <<parent, blobs, latest, expiring, pins, listed, disk, sessionVars, swarm>>

\* Mutant of ParentConfirmed: it is enough that the parent is known.
ParentKnown(r) == parent[r] # NoRoot => parent[r] \in Fold

ParentConfirmed(r) == parent[r] # NoRoot => rung[parent[r]] = "confirmed"

\* mark_confirmed; low: the batch has less than min_evict_ttl to live when the
\* event is recorded.
RecordConfirmed(r, low) ==
    /\ r \in Fold
    /\ ParentConfirmed(r)
    /\ rung' = [rung EXCEPT ![r] = "confirmed"]
    /\ expiring' = IF low THEN expiring \union {r} ELSE expiring \ {r}
    /\ UNCHANGED <<parent, blobs, latest, pins, listed, sessionVars, swarm>>
    /\ EnforceBudget(disk)

\* Caller: the blobs of r were verified.
MarkConfirmed(r, low) == blobs[r] \subseteq swarm /\ RecordConfirmed(r, low)

(***************************************************************************)
(* The network, the clock, and the end of the process.                     *)
(***************************************************************************)
\* A blob that was pushed while an event listed it arrives, whatever became
\* of its root and its file since; only bytes that hash to b are pushed as b.
Deliver(b) ==
    /\ b \in listed \ swarm
    /\ swarm' = swarm \union {b}
    /\ UNCHANGED <<journalVars, disk, sessionVars>>

BatchRunsLow(r) ==
    /\ rung[r] = "confirmed" /\ r \notin expiring
    /\ expiring' = expiring \union {r}
    /\ UNCHANGED <<rung, parent, blobs, latest, pins, listed, disk, sessionVars, swarm>>

NewSession ==
    /\ written' = {} /\ synced' = {}
    /\ healing' = {} /\ batched' = FALSE
    /\ suspect' = {}
    /\ UNCHANGED <<journalVars, swarm>>

\* The process ends, cleanly or not, and the store is opened again: the
\* journal is replayed and blobs/ is scanned.
Restart == NewSession /\ UNCHANGED disk

\* The page cache is lost: an unflushed directory entry may be gone, where
\* the file system allows it unflushed bytes may survive as garbage under the
\* right name, and what survives is durable.
PowerLoss ==
    /\ PowerFails
    /\ NewSession
    /\ \E gone \in SUBSET {b \in Blob : disk[b] \in {"written", "flushed"}},
          torn \in SUBSET {b \in Blob : Tears /\ disk[b] = "written"} :
            disk' = [b \in Blob |->
                       IF b \in gone THEN "absent"
                       ELSE IF b \in torn THEN "torn"
                       ELSE IF b \in Good THEN "durable" ELSE disk[b]]

(***************************************************************************)
(* The specification.                                                      *)
(***************************************************************************)
Application ==
    \/ \E b \in Blob : Put(b) \/ Get(b) \/ Heal(b) \/ ScrubReads(b) \/ ScrubDrops(b)
    \/ \E r \in Root, p \in Root \union {NoRoot}, refs \in SUBSET Blob :
          CommitRoot(r, p, refs) \/ CommitRootRaises(r, p, refs)
    \/ \E r \in Root, refs \in SUBSET Blob :
          RebaseRoot(r, refs) \/ RebaseRootRaises(r, refs)
    \/ \E refs \in SUBSET Blob : GetMany(refs)
    \/ GetManyReturns \/ HealRaises
    \/ GcOrphans
    \/ \E n \in PinName : Unpin(n) \/ \E refs \in SUBSET Blob : Pin(n, refs)
    \/ \E n \in 1..Bytes(Blob) : Evict(n)

Worker ==
    \E r \in Root : MarkPushed(r) \/ \E low \in BOOLEAN : MarkConfirmed(r, low)

Environment ==
    \/ \E b \in Blob : Deliver(b)
    \/ \E r \in Root : BatchRunsLow(r)
    \/ Restart \/ PowerLoss

Next == Application \/ Worker \/ Environment

Spec == Init /\ [][Next]_vars

(***************************************************************************)
(* Properties.                                                             *)
(***************************************************************************)
\* Every variable holds a value of its kind (localstore.py:150-239).
TypeOK ==
    /\ rung \in [Root -> {"none", "committed", "pushed", "confirmed"}]
    /\ parent \in [Root -> Root \union {NoRoot}]
    /\ blobs \in [Root -> SUBSET Blob]
    /\ latest \in Root \union {NoRoot}
    /\ expiring \subseteq Root
    /\ pins \in [PinName -> SUBSET Blob]
    /\ listed \subseteq Blob
    /\ disk \in [Blob -> {"absent", "torn", "written", "flushed", "durable"}]
    /\ written \subseteq Blob /\ synced \subseteq Blob
    /\ healing \subseteq Blob /\ batched \in BOOLEAN
    /\ suspect \subseteq Blob
    /\ swarm \subseteq Blob

\* The store never loses a commit: whatever a root of the fold reaches can be
\* read from this disk or from Swarm, after any mix of evictions, squashes,
\* garbage collections, heals, scrubs and restarts; and the root the
\* application will open at is one of them (localstore.py:850-869, 777-836).
NoLoss ==
    /\ \A r \in Fold : Reach[r] \subseteq Available
    /\ latest \in Fold \union {NoRoot}

\* network_confirmed (localstore.py:671-680) never over-claims, and the rung
\* of the root alone already tells it: a confirmed root's whole ancestry is
\* confirmed, and its whole tree, with what only its ancestors' events list,
\* is on Swarm - also after a squash dropped those ancestors.
ConfirmedTreeOnSwarm ==
    \A r \in Fold : rung[r] = "confirmed" =>
        NetworkConfirmed(r) /\ Reach[r] \subseteq swarm

\* The walks along parents, which run under the mutex, end
\* (localstore.py:675-680, 742-748): no set of roots is closed under parent,
\* and no root's parent left the fold.
LineageEnds ==
    /\ \A S \in (SUBSET Fold) \ {{}} : \E r \in S : parent[r] \notin S
    /\ \A r \in Fold : parent[r] \in Fold \union {NoRoot}

\* No step but a power loss takes the only copy of a committed blob: not an
\* eviction, a collection, a commit that fails over a torn orphan, nor a
\* scrub that acts on what it saw before it took the mutex
\* (localstore.py:469-478, 826-835, 850-869, 980-987).
OnlyCopyKept ==
    [][PowerLoss \/ \A b \in (Listed \cap Good) \ swarm : b \in Good']_vars

\* A blob under a pin keeps its file through everything but a power loss,
\* a torn orphan included in a commit, and the pin's own removal
\* (localstore.py:838-847).
PinsHold ==
    [][\A b \in Pinned \cap Good : b \in Good']_vars

\* A root that stays in the fold never steps down the ladder, a squash onto
\* it and a restart included (localstore.py:363-364, 376).
RungsClimb ==
    [][\A r \in Root : /\ rung[r] = "confirmed" => rung'[r] \in {"confirmed", "none"}
                       /\ rung[r] = "pushed" => rung'[r] # "committed"]_vars

\* What the application sees of the store is the ladder of Ladder.tla.
Promise ==
    [r \in Root |-> IF r \notin Fold THEN "none"
                    ELSE IF ~ Reach[r] \subseteq Available THEN "lost"
                    ELSE IF NetworkConfirmed(r) /\ Reach[r] \subseteq swarm
                    THEN "network" ELSE "kept"]

L == INSTANCE Ladder WITH promise <- Promise

ImplementsLadder == L!Spec

\* "'committed' always means durable on local disk" (localstore.py:164-165):
\* until Swarm has it, a blob that an event lists has its bytes and its
\* directory entry on the medium.
CommittedMeansDurable == \A b \in Listed \ swarm : disk[b] = "durable"

\* "A blob file whose content does not hash to its name is corrupt and MUST
\* be treated as absent" (docs/localstore-format.md:53-54).
ReadsAreVerified == \A b \in Listed : ReadLocal(b) # "torn"

(***************************************************************************)
(* The inductive invariant behind NoLoss, ConfirmedTreeOnSwarm and         *)
(* LineageEnds.                                                            *)
(***************************************************************************)
\* The lineage: a root's event and its parent's tree make up its tree.
LineageInv ==
    /\ latest \in Fold \union {NoRoot}
    /\ \A r \in Fold :
          /\ parent[r] \in Fold \union {NoRoot}
          /\ Owed(r, parent[r]) \subseteq blobs[r]
          /\ blobs[r] \subseteq Reach[r]
          /\ Reach[r] \subseteq Listed \union Foreign
    /\ \A S \in (SUBSET Fold) \ {{}} : \E r \in S : parent[r] \notin S

\* The lag rule, composed over the ancestry.
ConfirmedInv ==
    /\ Foreign \subseteq swarm
    /\ \A r \in Fold : rung[r] = "confirmed" => ParentConfirmed(r) /\ Reach[r] \subseteq swarm

\* Under power losses the barrier can be relied on only where nothing
\* deletes a file the session takes for durable, or claims one that is not.
BarrierHolds == PowerFails => Durability = "commit" /\ ~Tears /\ ~Collects

DiskInv ==
    /\ \A b \in Blob : disk[b] # "torn"
    /\ \A b \in Listed \ swarm : b \in Good /\ (PowerFails => disk[b] = "durable")
    /\ PowerFails => \A b \in synced \ swarm : disk[b] = "durable"

IndInv == TypeOK /\ LineageInv /\ ConfirmedInv /\ (BarrierHolds => DiskInv)
===============================================================================
