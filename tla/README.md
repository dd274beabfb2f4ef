# swarmfs in TLA+

swarmfs is an fsspec file system over Ethereum Swarm. A write becomes a commit: changed files and the
manifest trie that names them are uploaded, and a new root reference comes out. In local-first mode a
commit goes to a store on the local disk, and a background worker moves it up a ladder: *committed*
(durable here), *pushed* (a Bee node accepted it), *confirmed* (Swarm can serve it). This directory models
the parts of that machinery that are hard to test, checks them with TLC on small instances, and proves with
TLAPS, for instances of any size, what the ladder promises and that the worker keeps it, and what the writing
side, feeds, the mount, batches and chunks rest on.

Paths below are relative to the repository; line numbers refer to `swarmfs/*.py` there.

## Inventory

| component | state | operations | interacts through | hard parts | what makes it correct |
|---|---|---|---|---|---|
| local store, `localstore.py` | journal (append-only, folded: roots, parents, rungs, blobs, pins, batches), blob files, the session's sets `_session_written`, `_session_synced`, `_session_listed` | put, commit_root, rebase_root, mark_pushed, mark_confirmed, pin, unpin, evict, get, get_many, scrub, gc_orphans, wait_for, opening | one mutex, journal listeners, the fetcher callback | power loss between rename, fsync and append; the mutex is dropped for the network and for hashing; eviction by what the journal proves; squashes that drop roots | nothing committed is lost; "committed" is durable; "confirmed" is true of the whole tree; pins hold; walks along parents end |
| sync worker, `localsync.py` | `_urgent`, `_wake`, `_stop`, `repaired`, back-off | start, stop, sync, the loop: due, push round, confirm round, repair | reads and marks the store, posts to the node, asks the node or a witness | a list of roots grows stale while the application commits and squashes; failed requests; blobs the node takes for delivered and Swarm has not | the rungs it marks are true; everything is confirmed in the end; sync() returns |
| commit engines, `commit.py` | none between commits | commit: upload, edit the trie, index, save, journal | mantaray, client, store, stamps | partial failure; the index must describe the trie | the new root is the old one without the removed and with the written files |
| file system, `core.py` | `_staged`, `_staged_rm`, `_root_map`, `_origin`, `dircache`, `_intrans`, the commit lock | pipe, put, rm, cp, ls, info, find, transactions, commit_all, discard, upload, link, put_blob | coroutines of one event loop, a commit engine, `_after_commit` | every await lets another caller in; a failed commit restores; content addressing makes lineages meet | nothing staged is lost; commits extend one lineage; readers see their writes |
| feed file system, `feedfs.py` | `_feed_state`, `_feed_pending`, `_feed_times`, `_feed_identity` | resolve, adopt, pin, publish | journal listener on the worker's thread, lookups that lag | publication rides the ladder; pending only in memory | the feed never points at what Swarm cannot serve; every committed head is published |
| feed lookup, `feeds.py` | none | latest, at, update | chunks of the node | binary search at its ends | `at` finds the newest update not after the time |
| mantaray, `mantaray/` | a trie, partly loaded | add, remove, locate, iterate, list, save | loader, saver | edge splits, pruning, prefixes of 30 bytes | the trie is the map from paths to entries |
| listing index, `_listing.py` | per root cache | stat, list_dir, walk | index file in the manifest | the index against the trie | both backends answer alike |
| stamps, `stamps.py` | cached choice of a batch | resolve, buy, topup, dilute, plans | the node, the chain's delay | confirmation by polling | an operation is reported done when it is |
| FUSE mount, `fuse.py` | `_pending`, `_dirty`, `_created`, `_handles`, `_dirs` | create, open, read, write, flush, release, rename, unlink, truncate | kernel threads, one commit per release | renames and unlinks of files in flight; refused commits | nothing written is lost, and files are where they were renamed to |
| splitter and reader, `splitter.py`, `join.py` | a cache keyed by content | split, read a range, iterate | fetcher callback | span arithmetic; a fanout the reader is not told; the last subtree of any height | a range read out of a tree is that range of the content |
| BMT, access control, signatures, HTTP client, dask writer, command line | none worth a model | | | | |

`PROJECT.json` lists the same parts with their status and every hazard with the properties that watch it.

## The modules

- `Ladder.tla` is the abstract specification: a root is promised nothing, *kept* (readable from disk or
  Swarm) or *network* (verified on Swarm), climbs and never falls; only a squash drops roots.
- `LocalStore.tla` models `LocalStore`. Every public method holds the mutex, so it is one action; `get`,
  `get_many` and `scrub` drop it and are split there (`Get`/`GetMany`, `Heal`, `GetManyReturns`, `HealRaises`;
  `ScrubReads`, `ScrubDrops`). The journal is represented by its fold, since an event is fsynced before it is
  applied; `Restart` keeps the fold and the files and loses the session's sets. A file is absent, torn,
  written, flushed or durable; `PowerLoss` takes away what no fsync reached. What callers owe is a guard:
  `commit_root` is called with every blob the parent does not already reach (as `commit.py` does), and
  `mark_confirmed` only for what is on Swarm. The instance `L` maps the store to `Ladder` (`Promise`).
- `Syncer.tla` extends `LocalStore` with the worker, at the grain of one request or one call to the store per
  step, an application that commits, squashes, collects, calls `sync()`, stops and reopens between any two of
  them, and a node that delivers, fails or loses. `todo` is the list `roots_below` returned, each entry with
  the blobs its root had then. It does not take over the guard of `mark_confirmed`: `Marks` confirms what the
  worker's own checks let through, and `ImplementsLocalStore` says that this is no more than the guard allows.
- `Staging.tla` models the writing side of one `SwarmFileSystem`: tasks of one event loop, cut where the code
  awaits. A manifest is the mapping from paths to values it stands for, and is its own root, as content
  addressing has it; the trie's shape is left out. (A trie that lost a file may differ from one that never had
  it, so the program may have two roots for one mapping; for overwritten files it has one.)
- `Manifest.tla` is that shape: `add`, `remove`, `save`, `locate`, both listings and `stat` of `mantaray/` and
  `_listing.py` as operators on nodes, and one action, `Commit`, for what `commit.py` does with them - look for
  the index, patch the trie, write the index, save, hand the new blobs to `commit_root`. A node is its own
  reference; whether a fork's child is in memory, and that a node's type travels with the fork and not with the
  node, are kept, because the code's mistakes would be there.
- `FeedPublish.tla` models instances of `SwarmFeedFileSystem` on one feed: lookups that lag (`LooksUp`,
  `Refreshes`), commits (`Commits` to `Records`), and publication, right away or from the ladder's listener
  (`Confirms` to `Clears`), each cut where the code awaits or changes threads. `settled` says how much of the
  feed every lookup finds. `At` is the bisection of `FeedOps.at`. The store is reduced to which roots are
  committed and confirmed, and to its mutex.
- `FuseWrite.tla` models the writable mount, one action per kernel operation, over a file system whose commits
  may be refused. The kernel is external: it looks up before it acts, flushes at each close and releases once.
- `Stamps.tla` models `StampManager`: choosing a batch for an upload, and purchase, topup and dilution as a
  read, a transaction and a poll, with blocks, other prices and a node that reports late in between. Chain,
  wallet and node are external. `Chunks.tla` extends it: splitting content into a tree of chunks, with or
  without parity, the reader that takes ranges out of it, and how many chunks are stamped.
- `MC*.tla` give the constants their small values.
- `LocalStoreProofs.tla`, `SyncerProofs.tla`, `FeedProofs.tla`, `StagingProofs.tla`, `FuseProofs.tla`,
  `StampsProofs.tla` and `ChunksProofs.tla` hold the theorems; `Recursion.tla` the lemmas on recursive functions
  that four of them need.

`map` in `PROJECT.json` ties every definition to its lines. An operator placed directly before a definition
and called its mutant is that definition with a plausible bug; the `mutants` list pairs it with the property
that must then fail.

## The runs

The bounds are small sets and the counters named `Max...`.

| run | instance | shows |
|---|---|---|
| `local_store` | 2 roots that share one of 2 blobs, one named pin, budget 1, collection (105,412 states) | `TypeOK`, `NoLoss`, `ConfirmedTreeOnSwarm`, `LineageEnds`, `PinsHold`, `RungsClimb`: no mix of puts, commits, squashes, evictions, heals, collections, pins and restarts loses a committed blob or a pinned file, takes a root down the ladder or closes the ancestry into a cycle |
| `local_store_power` | 2 roots, 2 blobs, power losses, `durability="commit"`, no collection (24,288) | `CommittedMeansDurable`, and `ImplementsLadder`: across crashes the store is the ladder |
| `local_store_torn` | 2 roots, 2 blobs, one of them also from elsewhere, power losses that leave garbage (228,623) | `OnlyCopyKept`: only the power loss itself takes an only copy |
| `syncer` | 2 roots, 2 blobs, 3 calls, 1 failure or lost blob (296,558) | `SyncTypeOK`, `PushedMeansAccepted`, `ImplementsLocalStore`: the worker marks nothing that is not yet true |
| `syncer_liveness` | the same, 2 calls, with fairness (49,343) | `EverythingConfirmed`, `SyncEnds` |
| `staging` | 2 writers, 2 paths, 2 values, 5 calls, failing commits, transactions (41,158) | `NothingStagedIsLost`, `OneLineage` |
| `staging_alone` | 1 caller, 2 paths, 2 values, 6 calls, removals and listings too (273,838) | `NothingStagedIsLost`, `RemovalsApply`, `ListingsFresh` |
| `manifest` | 5 paths that are prefixes of one another or longer than the 3 bytes an edge holds, none of which begins with the index's dot; commits of up to 2 writes and removals, with an index and without (1,098) | `TrieOK`, `FilesAsAsked`, `IndexAndTrieAgree`, `ListingsAgree`, `NothingOwed` |
| `feed` | 1 writer, local-first or not, 1 reader, 2 roots, failed publications, restarts, with fairness (30,846) | `FeedTypeOK`, `ServedOnly`, `AtInForce`, `IndicesFresh`, `NeverRolledBack`, `FollowsFeed` |
| `feed_mutex` | 1 writer whose loop asks the store during a publication | ends in the violation of `LoopServesListener` |
| `fuse` | 2 directories of one name, 2 handles, files of up to 2 writes, refused commits; of committed files only those are renamed that no handle in `_handles` is bound to (100,433) | `FuseTypeOK`, `SeenAsWanted`, `SavedMeansCommitted`, `ClosedIsCommitted` |
| `stamps` | 1 batch, 1 caller, 2 prices, 3 blocks, 2 transactions, a ledger that reloads, a wallet of 24 (1,308,532); content of up to 26 bytes in chunks of 2 with 4 references | `AnswersTrue`, `PlansKept`, `NothingRefused`, `UploadsOutlive`, `SizesExact`, `RangesRead` |

Why the bounds are enough to be of use: two roots are a parent and its child or two that share content, and can
be committed, dropped and committed again in either order; a budget below the size of one root means that the
store is always over it; two paths and two values let commits return to an earlier manifest; three calls let a
commit and a squash interrupt one round of the worker. The manifest's space is small because its paths are:
each of them was chosen to split, chain or prune an edge of another. Two commits let a publication be overtaken;
three roots and three commits pass as well, in 881,000 states. Content of 26 bytes is 13 leaves, a tree of
three levels whose last subtree has every height. Blocks are of two seconds, and of the times asked for
1 second is below the chain's minimum, so that the padding decides what is bought, and 5 seconds are above it and no
whole number of blocks; the wallet pays for one purchase and not for every topup after it; five addresses in two buckets fill one of them past every depth that is bought. Where a run leaves something out that would break the property - removals beside a second
writer, a root recommitted while the worker lists it, a directory renamed while files in it are in flight, a
committed file renamed under an open handle, a second caller of the stamp manager - the table below has the configuration that shows it.

Deadlock is checked for `LocalStore` and `FuseWrite`. `Syncer`, `FeedPublish` and `Stamps` stop once their
calls are used up and everything is settled, `Staging` when its calls are used up or the event loop hangs, and
`Manifest` has no end to reach; their runs say so.

## Known disagreements

Each shows one statement of the repository that the code does not keep. `FeedMutex` is a run (`findings` in
`PROJECT.json` quotes the line); the others are kept as configurations that are run by hand,
`tlc -config <name>.cfg <MC module>`, and end in the violation that the table describes.

Local store and worker (`MCLocalStore`, `MCSyncer`):

| configuration | statement | what happens |
|---|---|---|
| `DurableGc` | "'committed' always means durable on local disk" (`localstore.py:164-165`) | a collected blob that is put again is still taken for durable. With `Collects = FALSE, Tears = TRUE`: a barrier that failed half way leaves blobs marked durable without their directory entry. With `Collects = FALSE, Durability = "blob"`: that mode never syncs a directory |
| `ReadsVerified` | a file that does not hash to its name is treated as absent (`docs/localstore-format.md:53-54`) | a local read does not hash |
| `Recommitted` | "every ladder event is appended to the journal only after the fact it records is true" (`localsync.py:9-10`) | see below |
| `StrandedWitness` | a blob the network cannot retrieve is repaired (`localsync.py:28`) | with a witness its fetch raises before the repair |
| `StrandedWitness` with `SPECIFICATION SyncSpec`, `Witness = FALSE`, `INVARIANT SyncFiresAtOnce` in place of its property | `sync()` fires immediately (`localsync.py:40-41`) | the flag is cleared after a stale look at the store |

`Recommitted` came out of the proof of `ImplementsLocalStore`, which does not go through without it. r1 is
committed, and the worker lists it with its blobs. r2 is committed on r1, squashed to the bottom, which drops
r1, and r1 is committed again on r2: its event lists none of what r2 reaches. The worker goes by
its older entry, and its mark lands on the new r1, while r2 is not pushed. Its confirm round lists r1 with the
blobs of the new event. A squash onto r1 makes its event the whole tree; the short entry is verified and r1 is
marked confirmed,
although only the node has one of its blobs; and the store may evict it. Nothing in `mark_pushed` or
`mark_confirmed` (`localstore.py:641-669`) compares the event with the one the worker went by. The constant
`Recommits` rules exactly this out: an application that arrives again at a root the worker still has on its
list. Up to three calls the switch makes no difference, and the run passes with it set; five are needed.

File system (`MCStaging`):

| configuration | statement | what happens |
|---|---|---|
| `HeadCycle` | "guard against identity/cyclic entries" (`core.py:406-407`) | A, B, A closes a cycle the head lookup never leaves |
| `TransactionFlag` | "Outside a transaction every write operation commits immediately" (`core.py:11-12`) | a commit that raises at the end leaves the flag set |
| `LineageFusion` | "separate fresh lineages don't collide" (`tests/test_write_fs.py:129`) | equal content joins them |
| `FailedCommit` | "a failed commit … must not lose staged data" (`core.py:748`) | the restored write overrides a removal staged since |
| `PoisonedRemoval` | concurrent writers extend one lineage (`core.py:731-733`) | a removal staged twice fails every later commit |
| `StaleListing` | "reads through the original URL keep seeing the latest committed state" (`core.py:14-15`) | a listing is cached after the invalidation it should have met |

`NothingStagedIsLost` holds for writers alone and for one caller with removals. With two callers and removals
it does not: besides `FailedCommit`, an `rm` that waits for its lookup while a commit takes the file's staged
write only touches the dictionary the commit already has. Where a head lookup does not end the properties of
`Staging` say nothing: no call returns any more.

Manifests (`MCManifest`):

| configuration | statement | what happens |
|---|---|---|
| `IndexAdoption` | turning the index on later "covers the files that were already there" (`tests/test_index.py:111-113`) | the walk that adopts them loads every fork's child without its type, and the commit saves them all again: each file that it does not itself write is in the new index and no longer a file in the trie (`FilesAsAsked` fails too) |
| `RemovedPrefix` | "Remove the entry at `path` (with any subtree below it)" (`mantaray/build.py:146`) | removing "a" takes "ab" along, which is not below it |
| `ForkedDirectory` | a path that ends within an edge is a directory "iff the edge continues with a separator" (`_listing.py:85`) | one that ends where an edge ends is a directory whatever follows |
| `DottedName` | looking for the index reads the manifest | a file whose name is a prefix of the index's loses its type to the lookup, and is gone once it is saved |

Feeds (`MCFeedPublish`):

| configuration | statement | what happens |
|---|---|---|
| `FeedMutex` | listeners are "called on the mutating thread with the lock released" (`localstore.py:320-321`) | `mark_confirmed` holds the reentrant lock around them; the listener waits for the loop and the loop for the lock |
| `FeedLost` | without the local counter a second update at an index "would be dropped" (`feedfs.py:189-193`) | it is dropped after an update whose answer was lost, and with `Faults = {"hurries"}` after a restart before the feed has spread |
| `FeedUnpublished` | the listener "publishes the newest confirmed head" (`feedfs.py:257-258`) | a head that is confirmed before it is recorded as pending is published by no one |
| `FeedRevert` | other writers' updates become visible within the TTL (`feedfs.py:15-17`) | a reader that has been at a root before never goes back to it. With `Modes = {TRUE}, Faults = {"regresses"}, MaxCommits = 2`: nor does one that was sent back by a lookup that knew less |
| `FeedTime` | the time of the update a key "currently resolves to" (`feedfs.py:84-85`) | it is the time of the last lookup's answer, adopted or not |
| `FeedTwoWriters` | a lookup's answer does not replace what the instance has since committed (`feedfs.py:143-145`) | with two writers it does: the answer under way is another's root |

FUSE (`MCFuseWrite`):

| configuration | statement | what happens |
|---|---|---|
| `FuseReads` | "Reads of an in-flight file come from its buffer" (`fuse.py:275`) | a handle opened to write that was flushed, at the close of a duplicate or through another handle, has no buffer any more and never had a reader: a read fails |
| `FuseInFlight` | a rename moves the file under its new name (`fuse.py:272-273`) | the buffer of a committed file is left under the old name. With `Faults = {"halts"}`, `{"folders"}` or `{"refuses", "shadows"}`: a refused commit, a directory known to both tables and manifest, or a target with a refused buffer has the same effect |
| `FuseInFlight` with `Faults = {"open"}`, `MaxLength = 2` | the same | a committed file, or its directory, is renamed while a flushed handle is still open. An in-flight file's handles are rebound (`fuse.py:510`), a committed one's are not (530-532, and 517-529): the next write goes by `_handles` (438) to a buffer under the removed name. The renamed file misses it, and a close that reports success commits the removed name anew; `SavedMeansCommitted` and `ClosedIsCommitted` fail as well |

Stamps (`MCStamps`):

| configuration | statement | what happens |
|---|---|---|
| `StampsRetried` | `topup` returns once the node has applied it (`stamps.py:720-724`) | after a call that ran out of time, the first topup's effect answers for the second. With `Faults = {"moves"}`: so does a fall of the price |
| `Stamps` with `Caller <- TwoCallers`, `Faults = {}`, `MaxTx = 3`, `INVARIANT NothingRefused` | the wallet is asked first (`stamps.py:670-672`) | two callers are both told there is enough. `AnswersTrue` fails with two callers too |
| `Stamps` with `Faults = {"guesses"}`, `INVARIANT UploadsOutlive` | no mid-write 402: the stamp is validated before anything is uploaded (`stamps.py:3-4`) | a batch whose time the node does not know yet passes the minimum |

## Fairness

`FairSpec` of `Syncer` assumes: the worker's thread keeps running (`WF` on its next step; the waits have
timeouts, so a sleeping worker wakes); time passes, so that a debounce or staleness deadline comes (`SF` on
`ComesDue`, because the worker looks again and again and each look alone may find it not yet due); the node
pushes each blob it holds and has not lost (`WF` on `Arrives`); and a blocked `sync()` sees its condition
(`WF` on `SyncReturns`, which waits on the store's condition variable). Failures and calls are bounded, which
stands for "eventually no more of them"; no fairness is assumed of the application or of `stop()`.

`FairSpec` of `FeedPublish` assumes that updates spread over Swarm (`Propagates`), that whoever reads the feed
reads on (`LooksUp`, `Refreshes`: every access past the TTL looks it up), that coroutines and the listener's
thread go on with what they began, and that the worker confirms what is committed (`Confirms`, which is
`EverythingConfirmed` of `Syncer`). Nothing is assumed of commits, of faults, or of restarts.

## The proofs

`LocalStoreProofs.tla` proves, for every set of roots, blobs and pins, every reachability, size and budget
(assumptions `RootAssumption`, `ReachAssumption`, `ForeignAssumption`, `SizeAssumption`, `ModeAssumption`):

- `Typing`: `Spec => []TypeOK`.
- `ConfirmedTree`: `Spec => []ConfirmedTreeOnSwarm`, the lag rule, in every mode, power losses and torn files
  included.
- `WalksEnd`: `Spec => []LineageEnds`.
- `NothingLost`: `Spec => []NoLoss`, assuming `BarrierHolds`: where the power may fail, `durability` is
  "commit", the file system orders a rename after its bytes, and the application does not collect; and
  `CommittedDurable`: `Spec => []CommittedMeansDurable` under power losses and the same assumption. The three
  forms of `DurableGc` show what happens without each of the three.
- `Inductive`: the invariant they rest on.

`NoLoss` is not inductive. That an evicted blob is on Swarm follows from a confirmed root that lists it, but a
root's tree is spread over its ancestors' events: `LineageInv` says that a root's event and its parent's tree
make up its tree, that parents never leave the fold, and that every closed set of roots has a way out (so
there is no cycle). `ConfirmedInv` says that a confirmed root has a confirmed parent and its tree on Swarm;
from that and `LineageInv` the whole ancestry is confirmed (`ConfirmedAncestry`, by applying the definition of
the ancestry, the least set closed under parent, to the set of confirmed ancestors, which takes no
induction). `DiskInv` says that what is listed and not on Swarm has a good file, durable where that matters,
and that what the session takes for durable is. The lineage and the lag rule change only when an event is
appended, and are proved over those five actions alone, without the disk; the disk is proved over all of them.

The same module proves from that invariant what steps may not do:

- `Climbing`: `Spec => RungsClimb`, and `OnlyCopies`: `Spec => OnlyCopyKept`, both in every mode.
- `PinnedStays`: `Spec => PinsHold`, assuming that the power does not fail.
- `LadderImplemented`: `Spec => ImplementsLadder`, assuming `BarrierHolds`. Under the invariant a root's rung
  alone decides its promise (`PromiseIsRung`), so the refinement is a statement about rungs: they climb one at
  a time, appear at the first, and leave only with a squash, which takes no promise from the root it keeps.

`SyncerProofs.tla` proves of the worker beside its application, for a finite set of roots, any number of calls
and failures, with a witness or without, and assuming `~Recommits`:

- `SyncTyping`: `SyncSpec => []SyncTypeOK`.
- `PushedIsTrue`: `SyncSpec => []PushedMeansAccepted`.
- `StoreImplemented`: `SyncSpec => ImplementsLocalStore`: every step of the composition is a step of
  `LocalStore` or leaves it alone. With it, what is proved of the store holds of the store the worker drives.

The worker marks a root by the entry it listed, which holds one event's blobs and not the root's tree. `SyncInv`
says why that is enough: what a listed root reaches is in its own entry, or already accepted (on Swarm, in the
confirm round), or reached by a root before it on the list (`Covered`). When the list is made this needs the
parent to be before its child; `roots_below` sorts by depth, and a parent is shallower because the ancestry is
acyclic (`ParentShallower`, from `LineageInv`). While the list is walked it is kept because only heads leave the
list, and they are accepted or on Swarm by then. `ParentsFirst` says that no root is pushed before its parent,
so that the confirm round, which lists pushed roots only, has the parents on its list or confirmed. A squash
keeps what a root reaches and shortens its ancestry, so a stale entry is still covered; committing a listed root
again changes its parent, and is where `Recommits` comes in.

`FeedProofs.tla` proves for any writers, readers, roots, faults and bounds `FeedTyping`
(`Spec => []FeedTypeOK`) and `FeedServed` (`Spec => []ServedOnly`). `ServedOnly` is not inductive: an update is
appended some steps after the listener found its root confirmed. `FeedInv` adds that a publication under way is
of a root that is confirmed (`PublishesServed`), that it is of a root at all (`WorksOnRoots`), and that lookups
answer with updates the feed has (`AnswersExist`).

`IndicesUsedOnce` (`Spec => IndicesFresh`) and `HeadsStay` (`Spec => NeverRolledBack`) are of one writer beside any
readers, under `CalmFaults`: answers to publications are not lost, and a restart waits until the feed has spread.
Lookups may lag and fall back, publications may fail, and a commit may arrive at a root of an earlier session.
The invariant behind both is `OwnInv`: until its first lookup the instance has nothing under way and that lookup
finds the whole feed (`StartsOver`); from then on it counts every update and posts the next one (`CountsAll`), and
knows for its own every update that a lookup may still find (`KnowsItsOwn`), so that `_refresh_feed` sets a late
answer aside. The assumptions are needed: `FeedLost.cfg` and `FeedTwoWriters.cfg` show what happens without them.

`PinsResolve` (`Spec => []AtInForce`) is about `FeedOps.at`: for any feed, times and latest index known to the node,
the bisection ends at the newest update not after the time asked for. The loop is a recursive function on
intervals. That there is such a function is `RecursionDefines` in `Recursion.tla` (a step that looks only at
arguments of a smaller size has a fixed point), and what it returns is proved by `SetInduction` on the
interval's length: the library's induction theorems take a predicate, these take the set where it holds. The
invariant added to `FeedInv` is that updates are posted in the order of their times (`TimesGrow`).

`StagingProofs.tla` proves of any paths and values, any number of callers and calls, failing commits and transactions:

- `CommitsInLine`: `Spec => []OneLineage`.
- `NothingIsLost`: `Spec => []NothingStagedIsLost`, and the step property `FailuresLoseNothing`.
- `RemovalsStand`: `Spec => []RemovalsApply`, and `ListingsStayFresh`: `Spec => []ListingsFresh`.
- `StagingInvariant`: the invariant they rest on.

The assumption is `Calm`: one manifest was opened, and where files are removed or listed there is one caller.
These are the instances of the two runs; beyond them the properties fail, as `LineageFusion`, `FailedCommit`,
`PoisonedRemoval` and `StaleListing` show. The base of the proof is `_resolve_head`, a loop over a map of roots.
`Ordered` says that, as long as lookups end, the handles of the lineage are an injective sequence along which the map leads,
one to the next, and that the map sends the last to itself. From it a lookup from any of them ends at the last
(`SetInduction` again, with no more steps than there are handles), and a commit either appends a root, or returns
to an earlier one and closes the cycle of `HeadCycle`, after which no lookup ends, or changes nothing.
`EngineOnHead` says that the commit at the engine works on that head, and that nobody else removes meanwhile;
`RemovalsAreThere` that a staged removal is of a file that the head has and nobody writes; `OverlaysCurrent`
that what `rm` and `ls` took before they waited is still what there is. `NothingStagedIsLost` is then one
equation, what is pending is what was asked for, that every step keeps: a failed commit, because what it puts
back is overridden by what was staged since.

`FuseProofs.tla` proves for any directories, names, handles, bytes and lengths, and for the only fault that the mount
copes with, refused commits (`OnlyRefusals`; `FuseInFlight` and its variants show each of the others fail). So they say
nothing of a mount on which a committed file is renamed under an open handle (the fault "open"), where they are false:

- `FuseTyping`: `Spec => []FuseTypeOK`.
- `MountShows`: `Spec => []SeenAsWanted`.
- `SavedStays`: `Spec => []SavedMeansCommitted`, and `ClosedSaved`: `Spec => []ClosedIsCommitted`.

The four need one another. What a name shows is its buffer or, without one, the manifest (`ShownAsWritten`); so a
buffer may go only if it is what the manifest has. `CleanBuffers` says that of one without a mark, `UnboundWait`
that one to which no handle is bound has a mark, and `StagedWaits` that what a refused commit left staged is a
write of a marked file, so that the next commit of any file brings in nothing that the mount does not show.
`SavedAreClean` ties the files whose close succeeded to the marks.

`StampsProofs.tla` proves for any batches, prices, depths and targets:

- `StampTyping`, types and that a purchase under way is of a batch nobody has, for any callers and faults.
- `UploadsAreOutlived`: `Spec => []UploadsOutlive`, for any callers and any faults but a node that guesses.
- `AnswersAreTrue`: `Spec => []AnswersTrue`, and `PlansAreKept`: `Spec => []PlansKept`, assuming `OneBuyer`: one
  caller at a time, who waits for his transaction, and no fault but a ledger that reloads. `PlansKept` has two parts:
  `PlansReach`, that a plan's `total_ttl_secs`, which counts the whole blocks it pays for, is no less than what was
  asked for, and `PlansLast`, that the batch lasts that long once the transaction is applied.
- `PlansAreTaken`: `Spec => []NothingRefused`, assuming `OneBuyer` and `PaddingCovers`: a plan's padding is
  worth more than a move of the price between any two of `Prices`.
- `StampsInvariant`: the invariant behind the last three.

A time is a balance divided by a price and rounded down, so the invariants keep promises as products: `Covers` says
that a balance pays, at the price, for a time counted from a block. It is kept by a block, which drains what it
counts, and it yields the quoted time at the end (`PaidFor`; for an upload `Outlasts`). `AnswersTrue` rests
on `NoEarlySign`: as long as a topup is not applied, neither the ledger nor the time left is above what the
call read, and a reload only takes a ledger down. `NothingRefused` rests on `WalletSuffices`: between the question
and the transaction nobody else spends. That a purchase costs no more than the wallet has is the node's own check before
it answers (`Sells`), as is the least depth it sells; `buy` has neither. `SizesAreExact` uses the least depth
(`DepthsSuffice`, a lemma) and so rests on the node's rule as the comment of `MIN_DEPTH` states it. The assumptions are needed: `StampsRetried` and the rows below it show
two callers, a call that gives up, a price that falls and a guessing node. `PaddingCovers` is what the code's padding
is for (`stamps.py` 488-491): the chain compares a purchase with the minimum at the price of its block.

`ChunksProofs.tla` proves for content of any size, chunks of any payload, groups of any width and any redundancy
tables that leave two data references (`ChunkAssumption`, `ShapeAssumption`):

- `EveryRangeRead`: `EveryRangeMatches`, and with it `RangesAreRead`: `Spec => []RangesRead`.
- `EveryChunkIsCounted`: `EveryChunkCounted`, and `SizesAreExact`: `Spec => []SizesExact`.

Splitter, reader and estimate are recursions, so what each of them computes is proved in two parts: that there is
such a function (`RecursionDefines`, with the size that goes down: the length of the last row, the rank of a chunk,
the chunks of a level, the depth still missing) and, by `SetInduction`, what it returns. The splitter's rows are even
(`RowsEven`): there is a unit such that every entry of a row but the last spans it exactly, although a promoted
chunk comes from a row further down. The unit grows by the width from row to row (`ParentsEven`), and that is what
the reader finds in the first child of a chunk (`EntrySpans`), without being told the width or the level. So the
place it computes for a child is the place of the entry (`Placed`, `Cuts`), and going up the rows
(`TreeInduction`) every range of every entry is read as the concatenation of its parts. `Delivers` is what is
carried along: the bytes of the range, or a read that raised where the endpoint answered falsely. The count goes
the other way, from the leaves up: each row has a slot for each of its chunks and their parity (`ChunksSlotted`),
and what the estimate adds for a row is no less than its slots (`SlotsSum`), promoted chunks counted again.
`DepthFound` says that `depth_for_addresses`, which goes deeper one by one, ends, at the first depth that fits:
2^n is the number of sets of n things, which gives that it grows and that it exceeds n (`Powers`).

Model-checked only: the properties of `Manifest` (`TrieOK`, `FilesAsAsked`, `IndexAndTrieAgree`, `ListingsAgree`,
`NothingOwed`), whose operators recurse over tries with `RECURSIVE` definitions, which is out of the prover's reach;
and the liveness properties `EverythingConfirmed`, `SyncEnds` and `FollowsFeed`, since fairness is.

## Not modelled

Unlinking is durable at once, although a crash may bring a file back; the entries of the journal's and the
format file's own directory are taken for durable. A torn tail of the journal is cut off by replay and is not
a state of its own. Recency decides only the order of eviction and is left open: any order. The sampling of a
quarter of a large root's blobs is left out; a sample is the whole root. With `confirm_sample=0` the worker checks no
blob before it marks a root confirmed (`localsync.py:412-418`): what is shown of confirmations does not hold there. `min_free_bytes` is a second budget of
the same kind. `wait_for` of one root is `SyncReturns` of all of them. `MemoryCacheStore` has no ladder and keeps
nothing.

In `Staging`, buffers of open files, uploads, links, encryption and access control are left out, and so are the
reading paths (`cat`, `find`): they stage nothing. A failed commit gives back what it took, as if every staged write
could be read again. A local-first commit closes its spooled files (`commit.py:445-446`) before `commit_root` (454) can
raise, so a write of `put_file`, of an upload or of an open file whose commit fails there is staged again but closed,
and every retry of that lineage fails; `NothingStagedIsLost` counts it as staged. In `Manifest`, obfuscation keys,
metadata and the byte format are left out: two nodes differ when their content does. Whether a node is an edge is read
off its forks, where the code keeps a bit that `add` sets and `remove` leaves set (`build.py` 115, 142, 166): a node
without forks that has the bit is walked and found to have none. In `FeedPublish`, instances pinned at a root or a time
are left out but for the search; they look nothing up again. In `FuseWrite`, the mount's own threads
(`threads=True`) and the read-only mount, which has no tables, are left out. In `Stamps`, `overflow_risk` and
`suggest_depth` are estimates in floating point; `stamped_chunks` counts a promoted chunk on each level and is
checked as the upper bound it is; the shape of encrypted uploads, half as many references to a node
(`_group_shape`, 114-118), is left out. `amount_to_ttl` divides in floating point (283) and may lose a second to its
rounding; the model divides exactly. Hashing, signatures, access control and the HTTP client compute or transport
and keep no state of their own: a hash is taken to be injective, a signature to be its owner's.

## What could come next

A commit's blobs: `CommitAllowed` of `LocalStore` takes for granted that a commit lists all that its parent does not
reach. `commit.py` lists the blobs it created, with the root it worked on as parent only if the store still has that
root (449-453): after a squash has dropped it the event has no parent and still lists only what this commit created, and what the
dropped root listed and the new one reaches may be in no event. `LocalFirst.tla`, which would compose `Staging`'s commits with `LocalStore`'s `commit_root`, so that the guard
on what a commit lists is discharged as `ImplementsLocalStore` discharges that of `mark_confirmed` (`NothingOwed`
of `Manifest` checks it of one commit alone); `adopt_blobs` and the journal's torn tail.
