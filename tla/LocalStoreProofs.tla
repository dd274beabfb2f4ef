--------------------------- MODULE LocalStoreProofs ---------------------------
(***************************************************************************)
(* What the runs of LocalStore show on two or three roots, proved for any  *)
(* set of roots and blobs.                                                 *)
(***************************************************************************)
EXTENDS LocalStore, TLAPS

FileState == {"absent", "torn", "written", "flushed", "durable"}

Files == [Blob -> FileState]

(***************************************************************************)
(* The types.                                                              *)
(***************************************************************************)
\* Removing files, writing one and settling the budget leave files.
LEMMA UnlinkTyped ==
    ASSUME NEW d \in Files, NEW V
    PROVE  Unlink(d, V) \in Files
BY DEF Unlink, Files, FileState

LEMMA WriteTyped ==
    ASSUME TypeOK, NEW b \in Blob
    PROVE  WriteBlob(b) \in Files
BY DEF WriteBlob, TypeOK, Files, FileState

LEMMA EnforceTyped ==
    ASSUME NEW d \in Files, EnforceBudget(d)
    PROVE  disk' \in Files
BY UnlinkTyped DEF EnforceBudget

LEMMA SessionWritesTyped ==
    ASSUME TypeOK, NEW b \in Blob, SessionWrites(b)
    PROVE  written' \subseteq Blob /\ synced' \subseteq Blob
BY DEF SessionWrites, TypeOK

LEMMA SyncTyped ==
    ASSUME TypeOK, NEW refs \in SUBSET Blob, SyncBlobs(refs)
    PROVE  disk' \in Files /\ synced' \subseteq Blob
BY DEF SyncBlobs, TypeOK, Files, FileState

LEMMA SyncRaisesTyped ==
    ASSUME TypeOK, NEW refs \in SUBSET Blob, SyncBlobsRaises(refs)
    PROVE  TypeOK'
<1>1. PICK torn \in TornOrphans(refs), before \in SUBSET (refs \ TornOrphans(refs)) :
        /\ disk' = [b \in Blob |->
                      IF b = torn THEN "absent"
                      ELSE IF b \in before \cap Unsynced(refs) /\ disk[b] = "written"
                           THEN "flushed" ELSE disk[b]]
        /\ synced' = synced \union before
        /\ UNCHANGED <<journalVars, written, healing, batched, suspect, swarm>>
    BY DEF SyncBlobsRaises
<1>2. disk' \in [Blob -> {"absent", "torn", "written", "flushed", "durable"}]
    BY <1>1 DEF TypeOK
<1>3. synced' \subseteq Blob
    BY <1>1 DEF TypeOK
<1> QED
    BY <1>1, <1>2, <1>3 DEF TypeOK, journalVars

LEMMA InitTyped == Init => TypeOK
BY RootAssumption, ForeignAssumption DEF Init, TypeOK

LEMMA NextTyped == TypeOK /\ [Next]_vars => TypeOK'
<1> SUFFICES ASSUME TypeOK, [Next]_vars PROVE TypeOK'
    OBVIOUS
<1>d. disk \in Files
    BY DEF TypeOK, Files, FileState
<1>1. ASSUME NEW b \in Blob, Put(b) PROVE TypeOK'
    <2>1. disk' \in Files
        BY <1>1, WriteTyped, EnforceTyped DEF Put
    <2> QED
        BY <1>1, <2>1, SessionWritesTyped DEF Put, TypeOK, journalVars, Files, FileState
<1>2. ASSUME NEW b \in Blob, Get(b) PROVE TypeOK'
    BY <1>2 DEF Get, TypeOK, journalVars
<1>3. ASSUME NEW b \in Blob, Heal(b) PROVE TypeOK'
    <2>1. CASE b \in Local
        BY <1>3, <2>1 DEF Heal, TypeOK, journalVars
    <2>2. CASE b \notin Local
        <3>1. SessionWrites(b) /\ (disk' = WriteBlob(b) \/ EnforceBudget(WriteBlob(b)))
            BY <1>3, <2>2 DEF Heal
        <3>2. disk' \in Files
            BY <3>1, WriteTyped, EnforceTyped
        <3> QED
            BY <1>3, <3>1, <3>2, SessionWritesTyped
            DEF Heal, TypeOK, journalVars, Files, FileState
    <2> QED
        BY <2>1, <2>2
<1>4. ASSUME NEW b \in Blob, ScrubReads(b) PROVE TypeOK'
    BY <1>4 DEF ScrubReads, TypeOK, journalVars
<1>5. ASSUME NEW b \in Blob, ScrubDrops(b) PROVE TypeOK'
    BY <1>5, <1>d, UnlinkTyped DEF ScrubDrops, TypeOK, journalVars, Files, FileState
<1>6. ASSUME NEW r \in Root, NEW p \in Root \union {NoRoot}, NEW refs \in SUBSET Blob,
             CommitRoot(r, p, refs)
      PROVE  TypeOK'
    <2>1. disk' \in Files /\ synced' \subseteq Blob
        BY <1>6, SyncTyped DEF CommitRoot
    <2> QED
        BY <1>6, <2>1 DEF CommitRoot, TypeOK, Files, FileState
<1>7. ASSUME NEW r \in Root, NEW p \in Root \union {NoRoot}, NEW refs \in SUBSET Blob,
             CommitRootRaises(r, p, refs)
      PROVE  TypeOK'
    BY <1>7, SyncRaisesTyped DEF CommitRootRaises
<1>8. ASSUME NEW r \in Root, NEW refs \in SUBSET Blob, RebaseRoot(r, refs) PROVE TypeOK'
    <2>1. disk' \in Files /\ synced' \subseteq Blob
        BY <1>8, SyncTyped DEF RebaseRoot, Local
    <2> QED
        BY <1>8, <2>1
        DEF RebaseRoot, RungsOfTip, ParentsOfTip, TypeOK, Files, FileState
<1>9. ASSUME NEW r \in Root, NEW refs \in SUBSET Blob, RebaseRootRaises(r, refs)
      PROVE  TypeOK'
    BY <1>9, SyncRaisesTyped DEF RebaseRootRaises, Local
<1>10. ASSUME NEW refs \in SUBSET Blob, GetMany(refs) PROVE TypeOK'
    BY <1>10 DEF GetMany, TypeOK, journalVars
<1>11. CASE GetManyReturns
    BY <1>11, <1>d, EnforceTyped DEF GetManyReturns, TypeOK, journalVars, Files, FileState
<1>12. CASE HealRaises
    BY <1>12 DEF HealRaises, TypeOK, journalVars
<1>13. CASE GcOrphans
    BY <1>13, <1>d, UnlinkTyped
    DEF GcOrphans, TypeOK, journalVars, sessionVars, Files, FileState
<1>14. ASSUME NEW n \in PinName, NEW refs \in SUBSET Blob, Pin(n, refs) PROVE TypeOK'
    BY <1>14 DEF Pin, TypeOK, sessionVars
<1>15. ASSUME NEW n, Evict(n) PROVE TypeOK'
    BY <1>15, <1>d, UnlinkTyped DEF Evict, TypeOK, journalVars, sessionVars, Files, FileState
<1>16. ASSUME NEW r \in Root, MarkPushed(r) PROVE TypeOK'
    BY <1>16 DEF MarkPushed, TypeOK, sessionVars
<1>17. ASSUME NEW r \in Root, NEW low \in BOOLEAN, MarkConfirmed(r, low) PROVE TypeOK'
    <2>1. disk' \in Files
        BY <1>17, <1>d, EnforceTyped DEF MarkConfirmed, RecordConfirmed
    <2> QED
        BY <1>17, <2>1 DEF MarkConfirmed, RecordConfirmed, TypeOK, sessionVars, Files, FileState
<1>18. ASSUME NEW b \in Blob, Deliver(b) PROVE TypeOK'
    BY <1>18 DEF Deliver, TypeOK, journalVars, sessionVars
<1>19. ASSUME NEW r \in Root, BatchRunsLow(r) PROVE TypeOK'
    BY <1>19 DEF BatchRunsLow, TypeOK, sessionVars
<1>20. CASE Restart
    BY <1>20 DEF Restart, NewSession, TypeOK, journalVars
<1>21. CASE PowerLoss
    BY <1>21 DEF PowerLoss, NewSession, TypeOK, journalVars
<1>22. CASE UNCHANGED vars
    BY <1>22 DEF vars, TypeOK, journalVars, sessionVars
<1> QED
    BY <1>1, <1>2, <1>3, <1>4, <1>5, <1>6, <1>7, <1>8, <1>9, <1>10, <1>11, <1>12,
       <1>13, <1>14, <1>15, <1>16, <1>17, <1>18, <1>19, <1>20, <1>21, <1>22
    DEF Next, Application, Worker, Environment, Unpin

\* Every variable of the store keeps its type.
THEOREM Typing == Spec => []TypeOK
<1> QED
    BY InitTyped, NextTyped, PTL DEF Spec

(***************************************************************************)
(* The lineage and the lag rule.  Only the five actions that append a      *)
(* lineage event touch them; everything else leaves the journal alone and  *)
(* never takes a blob from Swarm.                                          *)
(***************************************************************************)
FoldInv == LineageInv /\ ConfirmedInv

LEMMA InitFold == Init => FoldInv
<1> SUFFICES ASSUME Init PROVE FoldInv
    OBVIOUS
<1>1. Fold = {}
    BY DEF Init, Fold
<1>2. LineageInv
    BY <1>1 DEF Init, LineageInv
<1> QED
    BY <1>1, <1>2 DEF Init, FoldInv, ConfirmedInv

LEMMA JournalUntouched ==
    ASSUME FoldInv, UNCHANGED <<rung, parent, blobs, latest>>, swarm \subseteq swarm'
    PROVE  FoldInv'
<1>1. Fold' = Fold
    BY DEF Fold
<1>2. Listed' = Listed
    BY <1>1 DEF Listed
<1>3. LineageInv'
    BY <1>1, <1>2 DEF FoldInv, LineageInv, Owed
<1>4. ConfirmedInv'
    BY <1>1 DEF FoldInv, ConfirmedInv, ParentConfirmed
<1> QED
    BY <1>3, <1>4 DEF FoldInv

LEMMA CommitKeepsFold ==
    ASSUME TypeOK, FoldInv,
           NEW r \in Root, NEW p \in Root \union {NoRoot}, NEW refs \in SUBSET Blob,
           CommitRoot(r, p, refs)
    PROVE  FoldInv'
<1>1. /\ r \notin Fold /\ p \in Fold \union {NoRoot}
      /\ Owed(r, p) \subseteq refs /\ refs \subseteq Reach[r]
    BY DEF CommitRoot, CommitAllowed
<1>2. /\ Fold' = Fold \union {r}
      /\ \A x \in Fold : x # r /\ rung'[x] = rung[x] /\ parent'[x] = parent[x]
                         /\ blobs'[x] = blobs[x]
      /\ rung'[r] = "committed" /\ parent'[r] = p /\ blobs'[r] = refs
      /\ latest' = r /\ swarm' = swarm
    BY <1>1 DEF CommitRoot, Fold, TypeOK
<1>3. Listed \subseteq Listed' /\ refs \subseteq Listed'
    BY <1>2 DEF Listed
<1>4. ASSUME NEW x \in Fold'
      PROVE  /\ parent'[x] \in Fold' \union {NoRoot}
             /\ Owed(x, parent'[x]) \subseteq blobs'[x]
             /\ blobs'[x] \subseteq Reach[x]
             /\ Reach[x] \subseteq Listed' \union Foreign
    <2>1. CASE x = r
        <3>1. p # NoRoot => Reach[p] \subseteq Listed \union Foreign
            BY <1>1 DEF FoldInv, LineageInv
        <3> QED
            BY <1>1, <1>2, <1>3, <2>1, <3>1 DEF Owed
    <2>2. CASE x \in Fold
        BY <1>2, <1>3, <2>2 DEF FoldInv, LineageInv
    <2> QED
        BY <1>2, <2>1, <2>2
<1>5. ASSUME NEW S \in (SUBSET Fold') \ {{}}
      PROVE  \E x \in S : parent'[x] \notin S
    <2> SUFFICES ASSUME \A x \in S : parent'[x] \in S PROVE FALSE
        OBVIOUS
    <2>1. \A x \in S \ {r} : parent[x] \in S \ {r}
        <3> TAKE x \in S \ {r}
        <3>1. x \in Fold /\ parent'[x] = parent[x] /\ parent[x] \in Fold \union {NoRoot}
            BY <1>2 DEF FoldInv, LineageInv
        <3>2. parent[x] # r
            BY <1>1, <3>1, RootAssumption DEF Fold
        <3> QED
            BY <3>1, <3>2
    <2>2. S \ {r} # {}
        <3>1. CASE r \in S
            BY <1>1, <1>2, <3>1, RootAssumption DEF Fold
        <3>2. CASE r \notin S
            BY <3>2
        <3> QED
            BY <3>1, <3>2
    <2>3. S \ {r} \in SUBSET Fold
        BY <1>2
    <2> QED
        BY <2>1, <2>2, <2>3 DEF FoldInv, LineageInv
<1>6. ConfirmedInv'
    BY <1>1, <1>2, RootAssumption DEF FoldInv, LineageInv, ConfirmedInv, ParentConfirmed, Fold
<1> QED
    BY <1>2, <1>4, <1>5, <1>6 DEF FoldInv, LineageInv

LEMMA RebaseKeepsFold ==
    ASSUME TypeOK, FoldInv, NEW r \in Root, NEW refs \in SUBSET Blob, RebaseRoot(r, refs)
    PROVE  FoldInv'
<1>1. /\ r \in Fold
      /\ Owed(r, NoRoot) \subseteq refs /\ refs \subseteq Reach[r]
    BY DEF RebaseRoot, RebaseAllowed
<1>2. /\ Fold' = {r} /\ rung'[r] = rung[r] /\ parent'[r] = NoRoot /\ blobs'[r] = refs
      /\ latest' = r /\ swarm' = swarm
    BY <1>1 DEF RebaseRoot, RungsOfTip, ParentsOfTip, Fold, TypeOK
<1>3. Listed' = refs
    BY <1>2 DEF Listed
<1>4. LineageInv'
    BY <1>1, <1>2, <1>3, RootAssumption DEF LineageInv, Owed
<1>5. ConfirmedInv'
    BY <1>1, <1>2 DEF FoldInv, ConfirmedInv, ParentConfirmed
<1> QED
    BY <1>4, <1>5 DEF FoldInv

LEMMA PushedKeepsFold ==
    ASSUME TypeOK, FoldInv, NEW r \in Root, MarkPushed(r)
    PROVE  FoldInv'
<1>1. /\ Fold' = Fold /\ UNCHANGED <<parent, blobs, latest, swarm>>
      /\ \A x \in Root : rung'[x] = "confirmed" <=> rung[x] = "confirmed"
    BY DEF MarkPushed, PushedApplies, Fold, TypeOK
<1>2. Listed' = Listed
    BY <1>1 DEF Listed
<1>3. LineageInv'
    BY <1>1, <1>2 DEF FoldInv, LineageInv, Owed
<1>4. ConfirmedInv'
    BY <1>1 DEF FoldInv, LineageInv, ConfirmedInv, ParentConfirmed, Fold
<1> QED
    BY <1>3, <1>4 DEF FoldInv

LEMMA ConfirmedKeepsFold ==
    ASSUME TypeOK, FoldInv, NEW r \in Root, NEW low \in BOOLEAN, MarkConfirmed(r, low)
    PROVE  FoldInv'
<1>1. /\ r \in Fold /\ ParentConfirmed(r) /\ blobs[r] \subseteq swarm
      /\ Fold' = Fold /\ UNCHANGED <<parent, blobs, latest, swarm>>
      /\ rung'[r] = "confirmed"
      /\ \A x \in Root \ {r} : rung'[x] = rung[x]
    BY DEF MarkConfirmed, RecordConfirmed, Fold, TypeOK
<1>2. LineageInv'
    <2>1. Listed' = Listed
        BY <1>1 DEF Listed
    <2> QED
        BY <1>1, <2>1 DEF FoldInv, LineageInv, Owed
<1>3. Reach[r] \subseteq swarm
    <2>1. Owed(r, parent[r]) \subseteq swarm /\ Foreign \subseteq swarm
        BY <1>1 DEF FoldInv, LineageInv, ConfirmedInv
    <2>2. parent[r] # NoRoot => Reach[parent[r]] \subseteq swarm
        BY <1>1 DEF FoldInv, LineageInv, ConfirmedInv, ParentConfirmed
    <2> QED
        BY <2>1, <2>2 DEF Owed
<1>4. ConfirmedInv'
    BY <1>1, <1>3 DEF FoldInv, LineageInv, ConfirmedInv, ParentConfirmed, Fold
<1> QED
    BY <1>2, <1>4 DEF FoldInv

LEMMA NextFold == TypeOK /\ FoldInv /\ [Next]_vars => FoldInv'
<1> SUFFICES ASSUME TypeOK, FoldInv, [Next]_vars PROVE FoldInv'
    OBVIOUS
<1>1. ASSUME NEW r \in Root, NEW p \in Root \union {NoRoot}, NEW refs \in SUBSET Blob,
             CommitRoot(r, p, refs)
      PROVE  FoldInv'
    BY <1>1, CommitKeepsFold
<1>2. ASSUME NEW r \in Root, NEW refs \in SUBSET Blob, RebaseRoot(r, refs) PROVE FoldInv'
    BY <1>2, RebaseKeepsFold
<1>3. ASSUME NEW r \in Root, MarkPushed(r) PROVE FoldInv'
    BY <1>3, PushedKeepsFold
<1>4. ASSUME NEW r \in Root, NEW low \in BOOLEAN, MarkConfirmed(r, low) PROVE FoldInv'
    BY <1>4, ConfirmedKeepsFold
<1>5. ASSUME NEW b \in Blob,
             Put(b) \/ Get(b) \/ Heal(b) \/ ScrubReads(b) \/ ScrubDrops(b)
      PROVE  FoldInv'
    BY <1>5, JournalUntouched DEF Put, Get, Heal, ScrubReads, ScrubDrops, journalVars
<1>6. ASSUME NEW refs \in SUBSET Blob, SyncBlobsRaises(refs) PROVE FoldInv'
    BY <1>6, JournalUntouched DEF SyncBlobsRaises, journalVars
<1>7. ASSUME NEW n \in PinName, NEW refs \in SUBSET Blob, Pin(n, refs) PROVE FoldInv'
    BY <1>7, JournalUntouched DEF Pin
<1>8. ASSUME NEW n, Evict(n) PROVE FoldInv'
    BY <1>8, JournalUntouched DEF Evict, journalVars
<1>9. ASSUME NEW refs \in SUBSET Blob, GetMany(refs) PROVE FoldInv'
    BY <1>9, JournalUntouched DEF GetMany, journalVars
<1>10. CASE GetManyReturns \/ HealRaises \/ GcOrphans
    BY <1>10, JournalUntouched DEF GetManyReturns, HealRaises, GcOrphans, journalVars
<1>11. ASSUME NEW b \in Blob, Deliver(b) PROVE FoldInv'
    BY <1>11, JournalUntouched DEF Deliver, journalVars
<1>12. ASSUME NEW r \in Root, BatchRunsLow(r) PROVE FoldInv'
    BY <1>12, JournalUntouched DEF BatchRunsLow
<1>13. CASE Restart \/ PowerLoss
    BY <1>13, JournalUntouched DEF Restart, PowerLoss, NewSession, journalVars
<1>14. CASE UNCHANGED vars
    BY <1>14, JournalUntouched DEF vars, journalVars
<1> QED
    BY <1>1, <1>2, <1>3, <1>4, <1>5, <1>6, <1>7, <1>8, <1>9, <1>10, <1>11, <1>12,
       <1>13, <1>14
    DEF Next, Application, Worker, Environment, Unpin, CommitRootRaises,
        RebaseRootRaises, Local

LEMMA SpecFold == Spec => [](TypeOK /\ FoldInv)
<1>1. Init => TypeOK /\ FoldInv
    BY InitTyped, InitFold
<1>2. TypeOK /\ FoldInv /\ [Next]_vars => (TypeOK /\ FoldInv)'
    BY NextTyped, NextFold
<1> QED
    BY <1>1, <1>2, PTL DEF Spec

\* The walk of network_confirmed: the confirmed roots are closed under
\* parent, so they hold the whole ancestry of each of them.
LEMMA ConfirmedAncestry ==
    ASSUME TypeOK, FoldInv, NEW r \in Root, rung[r] = "confirmed"
    PROVE  NetworkConfirmed(r)
<1> DEFINE C == {x \in Root : rung[x] = "confirmed"}
<1>1. r \in C /\ \A x \in C : parent[x] \in C \union {NoRoot}
    BY DEF FoldInv, LineageInv, ConfirmedInv, ParentConfirmed, Fold
<1>2. Ancestry(r) \subseteq C
    BY <1>1 DEF Ancestry
<1> QED
    BY <1>2 DEF NetworkConfirmed

\* A root's rung alone tells that its whole tree is on Swarm, for any lineage,
\* any sharing of blobs and any mix of squashes and power losses.
THEOREM ConfirmedTree == Spec => []ConfirmedTreeOnSwarm
<1>1. TypeOK /\ FoldInv => ConfirmedTreeOnSwarm
    BY ConfirmedAncestry DEF FoldInv, ConfirmedInv, ConfirmedTreeOnSwarm, Fold
<1> QED
    BY <1>1, SpecFold, PTL

\* The walks along parents end: network_confirmed and roots_below never hang
\* with the mutex held.
THEOREM WalksEnd == Spec => []LineageEnds
<1>1. FoldInv => LineageEnds
    BY DEF FoldInv, LineageInv, LineageEnds
<1> QED
    BY <1>1, SpecFold, PTL

(***************************************************************************)
(* The files.  A file whose blob Swarm lacks is deleted only if no root of *)
(* the fold lists it, and what a root lists went through the barrier.      *)
(***************************************************************************)
LEMMA EvictableOnSwarm ==
    ASSUME FoldInv
    PROVE  Evictable \subseteq swarm
BY DEF FoldInv, LineageInv, ConfirmedInv, Evictable

\* Settling the budget after an event takes only blobs that Swarm has.
LEMMA EnforceKeeps ==
    ASSUME FoldInv', NEW d \in Files, EnforceBudget(d), NEW b \in Blob
    PROVE  disk'[b] \in {d[b], "absent"} /\ (b \notin swarm' => disk'[b] = d[b])
<1>1. Evictable' \subseteq swarm'
    BY DEF FoldInv, LineageInv, ConfirmedInv, Evictable, Fold
<1>2. PICK V \in SUBSET Evictable' : disk' = Unlink(d, V)
    BY DEF EnforceBudget, Victims
<1> QED
    BY <1>1, <1>2 DEF Unlink

\* A step that adds no debt, tears no file and leaves alone the files of the
\* blobs that are owed keeps the invariant.
LEMMA DebtsKept ==
    ASSUME DiskInv,
           Listed' \ swarm' \subseteq Listed \ swarm,
           PowerFails => synced' \ swarm' \subseteq synced \ swarm,
           \A b \in Blob : disk'[b] # "torn",
           \A b \in Blob \ swarm' : disk[b] # "absent" => disk'[b] = disk[b],
           synced' \subseteq Blob, Listed' \subseteq Blob
    PROVE  DiskInv'
BY DEF DiskInv, Good

\* The same for a step that writes the absent file of b, then settles.
LEMMA WriteKeepsDisk ==
    ASSUME TypeOK, TypeOK', FoldInv', DiskInv, BarrierHolds,
           NEW b \in Blob, disk[b] = "absent", SessionWrites(b),
           disk' = WriteBlob(b) \/ EnforceBudget(WriteBlob(b)),
           Listed' = Listed, swarm' = swarm
    PROVE  DiskInv'
<1>1. \A x \in Blob : WriteBlob(b)[x] # "torn" /\ (x # b => WriteBlob(b)[x] = disk[x])
    BY DEF WriteBlob, DiskInv, TypeOK
<1>2. \A x \in Blob : /\ disk'[x] \in {WriteBlob(b)[x], "absent"}
                      /\ x \notin swarm' => disk'[x] = WriteBlob(b)[x]
    BY WriteTyped, EnforceKeeps
<1>3. PowerFails => synced' = synced
    BY DEF SessionWrites, BarrierHolds
<1>4. Listed' \subseteq Blob /\ synced' \subseteq Blob
    BY DEF TypeOK, Listed, Fold
<1> QED
    BY <1>1, <1>2, <1>3, <1>4, DebtsKept

\* The barrier: the listed files that are here are good, and durable where it
\* matters.
LEMMA BarrierKeepsDisk ==
    ASSUME TypeOK, DiskInv, NEW refs \in SUBSET Blob, SyncBlobs(refs), swarm' = swarm,
           refs \subseteq Local
    PROVE  /\ \A b \in Blob : disk'[b] # "torn"
           /\ \A b \in ((Listed \union refs) \ swarm) :
                  b \in Good' /\ (PowerFails => disk'[b] = "durable")
           /\ PowerFails => \A b \in synced' \ swarm : disk'[b] = "durable"
<1>1. /\ disk' = [b \in Blob |-> IF b \in Unsynced(refs) /\ b \in Good
                                 THEN "durable" ELSE disk[b]]
      /\ synced' = synced \union refs
    BY DEF SyncBlobs
<1>2. Listed \subseteq Blob /\ synced \subseteq Blob
    BY DEF TypeOK, Listed, Fold
<1>3. \A b \in refs : b \in Good
    BY DEF Local, Good, DiskInv, TypeOK
<1>4. \A b \in Blob : disk'[b] # "torn"
    BY <1>1 DEF DiskInv
<1>5. \A b \in Good : b \in Good'
    BY <1>1 DEF Good
<1>6. \A b \in Blob : disk[b] = "durable" => disk'[b] = "durable"
    BY <1>1
<1>7. \A b \in refs \ swarm : PowerFails => disk'[b] = "durable"
    <2> TAKE b \in refs \ swarm
    <2>1. CASE b \in Unsynced(refs)
        BY <1>1, <1>3, <2>1
    <2>2. CASE b \in synced \union Listed
        BY <1>6, <2>2 DEF DiskInv
    <2> QED
        BY <2>1, <2>2 DEF Unsynced
<1> QED
    BY <1>1, <1>2, <1>3, <1>4, <1>5, <1>6, <1>7 DEF DiskInv

LEMMA InitDisk == Init => DiskInv
BY DEF Init, DiskInv, Listed, Fold

LEMMA NextDisk ==
    ASSUME BarrierHolds, TypeOK, FoldInv, DiskInv, [Next]_vars
    PROVE  DiskInv'
<1>t. TypeOK' /\ FoldInv'
    BY NextTyped, NextFold
<1>f. disk \in Files /\ \A b \in Blob : disk[b] # "torn"
    BY DEF TypeOK, Files, FileState, DiskInv
<1>b. Listed' \subseteq Blob /\ synced' \subseteq Blob
    BY <1>t DEF TypeOK, Listed, Fold
<1>n. ASSUME NEW refs \in SUBSET Blob PROVE ~SyncBlobsRaises(refs)
    BY <1>f DEF SyncBlobsRaises, TornOrphans, Unsynced
\* The steps that leave the files alone.
<1>1. ASSUME UNCHANGED disk, Listed' = Listed, swarm \subseteq swarm',
             synced' \subseteq synced
      PROVE  DiskInv'
    BY <1>1, <1>b, <1>f, DebtsKept
\* The steps that delete files Swarm can replace, or that nobody lists.
<1>2. ASSUME NEW V \in SUBSET Blob, disk' = Unlink(disk, V),
             V \cap ((Listed \union (IF PowerFails THEN synced ELSE {})) \ swarm) = {},
             Listed' = Listed, swarm' = swarm, synced' = synced
      PROVE  DiskInv'
    BY <1>2, <1>b DEF DiskInv, Unlink, Good
<1>l. ASSUME UNCHANGED <<rung, blobs>> PROVE Listed' = Listed
    BY <1>l DEF Listed, Fold
<1>3. ASSUME NEW b \in Blob, Put(b) PROVE DiskInv'
    BY <1>3, <1>t, <1>l, WriteKeepsDisk DEF Put, journalVars
<1>4. ASSUME NEW b \in Blob, Heal(b) PROVE DiskInv'
    <2>1. CASE b \in Local
        BY <1>4, <2>1, <1>1, <1>l DEF Heal, journalVars
    <2>2. CASE b \notin Local
        <3>1. SessionWrites(b) /\ (disk' = WriteBlob(b) \/ EnforceBudget(WriteBlob(b)))
            BY <1>4, <2>2 DEF Heal
        <3> QED
            BY <1>4, <2>2, <3>1, <1>t, <1>l, WriteKeepsDisk DEF Heal, Local, journalVars
    <2> QED
        BY <2>1, <2>2
<1>5. ASSUME NEW b \in Blob, Get(b) \/ ScrubReads(b) PROVE DiskInv'
    BY <1>5, <1>1, <1>l DEF Get, ScrubReads, journalVars
<1>6. ASSUME NEW b \in Blob, ScrubDrops(b) PROVE DiskInv'
    BY <1>6, <1>2, <1>l, EvictableOnSwarm DEF ScrubDrops, journalVars
<1>7. ASSUME NEW r \in Root, NEW p \in Root \union {NoRoot}, NEW refs \in SUBSET Blob,
             CommitRoot(r, p, refs)
      PROVE  DiskInv'
    <2>1. Listed' \subseteq Listed \union refs
        BY <1>7 DEF CommitRoot, Listed, Fold, TypeOK
    <2>2. SyncBlobs(refs) /\ swarm' = swarm /\ refs \subseteq Local
        BY <1>7 DEF CommitRoot, CommitAllowed
    <2> QED
        BY <2>1, <2>2, BarrierKeepsDisk DEF DiskInv
<1>8. ASSUME NEW r \in Root, NEW refs \in SUBSET Blob, RebaseRoot(r, refs)
      PROVE  DiskInv'
    <2>1. Listed' = refs
        BY <1>8 DEF RebaseRoot, RebaseAllowed, RungsOfTip, Listed, Fold, TypeOK
    <2>2. SyncBlobs(refs \cap Local) /\ swarm' = swarm
        BY <1>8 DEF RebaseRoot
    <2>3. refs \ Local \subseteq swarm
        BY <1>8 DEF RebaseRoot, RebaseAllowed, FoldInv, LineageInv, ConfirmedInv
    <2>4. refs \cap Local \in SUBSET Blob
        OBVIOUS
    <2> QED
        BY <2>1, <2>2, <2>3, <2>4, BarrierKeepsDisk DEF DiskInv
<1>9. ASSUME NEW refs \in SUBSET Blob, GetMany(refs) PROVE DiskInv'
    BY <1>9, <1>1, <1>l DEF GetMany, journalVars
<1>10. ASSUME EnforceBudget(disk), Listed' = Listed, swarm' = swarm, synced' = synced
       PROVE  DiskInv'
    BY <1>10, <1>t, <1>f, <1>b, EnforceKeeps, DebtsKept
<1>11. CASE GetManyReturns
    BY <1>11, <1>10, <1>l DEF GetManyReturns, journalVars
<1>12. CASE HealRaises
    BY <1>12, <1>1, <1>l DEF HealRaises, journalVars
<1>13. CASE GcOrphans
    <2>1. Orphans \in SUBSET Blob /\ Orphans \cap Listed = {} /\ ~PowerFails
        BY <1>13 DEF GcOrphans, Orphans, Local, BarrierHolds
    <2> QED
        BY <1>13, <1>2, <1>l, <2>1 DEF GcOrphans, journalVars, sessionVars
<1>14. ASSUME NEW n \in PinName, NEW refs \in SUBSET Blob, Pin(n, refs) PROVE DiskInv'
    BY <1>14, <1>1, <1>l DEF Pin, sessionVars
<1>15. ASSUME NEW n, Evict(n) PROVE DiskInv'
    <2>1. PICK V \in SUBSET (Local \cap Evictable) : disk' = Unlink(disk, V)
        BY <1>15 DEF Evict, Victims
    <2> QED
        BY <1>15, <2>1, <1>2, <1>l, EvictableOnSwarm
        DEF Evict, Local, journalVars, sessionVars
<1>16. ASSUME NEW r \in Root, MarkPushed(r) PROVE DiskInv'
    <2>1. Listed' = Listed
        BY <1>16 DEF MarkPushed, PushedApplies, Listed, Fold, TypeOK
    <2> QED
        BY <1>16, <2>1, <1>1 DEF MarkPushed, sessionVars
<1>17. ASSUME NEW r \in Root, NEW low \in BOOLEAN, MarkConfirmed(r, low) PROVE DiskInv'
    <2>1. Listed' = Listed
        BY <1>17 DEF MarkConfirmed, RecordConfirmed, Listed, Fold, TypeOK
    <2> QED
        BY <1>17, <2>1, <1>10 DEF MarkConfirmed, RecordConfirmed, sessionVars
<1>18. ASSUME NEW b \in Blob, Deliver(b) PROVE DiskInv'
    BY <1>18, <1>1, <1>l DEF Deliver, journalVars, sessionVars
<1>19. ASSUME NEW r \in Root, BatchRunsLow(r) PROVE DiskInv'
    BY <1>19, <1>1, <1>l DEF BatchRunsLow, sessionVars
<1>20. CASE Restart
    BY <1>20, <1>1, <1>l DEF Restart, NewSession, journalVars
<1>21. CASE PowerLoss
    <2>1. ~Tears /\ PowerFails
        BY <1>21 DEF PowerLoss, BarrierHolds
    <2>2. /\ synced' = {} /\ swarm' = swarm /\ Listed' = Listed
        BY <1>21, <1>l DEF PowerLoss, NewSession, journalVars
    <2>3. \A b \in Blob : /\ disk'[b] # "torn"
                          /\ disk[b] = "durable" => disk'[b] = "durable"
        BY <1>21, <2>1, <1>f DEF PowerLoss, Good
    <2> QED
        BY <1>b, <2>1, <2>2, <2>3 DEF DiskInv, Good
<1>22. CASE UNCHANGED vars
    BY <1>22, <1>1, <1>l DEF vars, journalVars, sessionVars
<1> QED
    BY <1>n, <1>3, <1>4, <1>5, <1>6, <1>7, <1>8, <1>9, <1>11, <1>12, <1>13, <1>14,
       <1>15, <1>16, <1>17, <1>18, <1>19, <1>20, <1>21, <1>22
    DEF Next, Application, Worker, Environment, Unpin, CommitRootRaises,
        RebaseRootRaises, Local

THEOREM Inductive == Spec => []IndInv
<1>1. Init => IndInv
    BY InitTyped, InitFold, InitDisk DEF IndInv, FoldInv
<1>2. IndInv /\ [Next]_vars => IndInv'
    BY NextTyped, NextFold, NextDisk DEF IndInv, FoldInv, BarrierHolds
<1> QED
    BY <1>1, <1>2, PTL DEF Spec

\* Nothing a root of the fold reaches is ever lost: without power losses
\* whatever the application does, and with them where the barrier holds
\* (localstore.py:850-869, 777-836).
THEOREM NothingLost == ASSUME BarrierHolds PROVE Spec => []NoLoss
<1>1. IndInv => NoLoss
    BY BarrierHolds DEF IndInv, LineageInv, ConfirmedInv, DiskInv, NoLoss, Available
<1> QED
    BY <1>1, Inductive, PTL

\* "committed" means durable under power losses, where the barrier holds
\* (localstore.py:446-491, 611-639).
THEOREM CommittedDurable ==
    ASSUME BarrierHolds, PowerFails PROVE Spec => []CommittedMeansDurable
<1>1. IndInv => CommittedMeansDurable
    BY BarrierHolds, PowerFails DEF IndInv, DiskInv, CommittedMeansDurable
<1> QED
    BY <1>1, Inductive, PTL

(***************************************************************************)
(* What a step of the store may never do, and that the store implements    *)
(* the ladder, from the invariants above.                                  *)
(***************************************************************************)

(***************************************************************************)
(* The rungs.  A step leaves every rung alone or is one of the four that   *)
(* append a lineage event.                                                 *)
(***************************************************************************)
LEMMA RungsChange ==
    ASSUME [Next]_vars, rung' # rung
    PROVE  \/ \E r \in Root, p \in Root \union {NoRoot}, refs \in SUBSET Blob : CommitRoot(r, p, refs)
           \/ \E r \in Root, refs \in SUBSET Blob : RebaseRoot(r, refs)
           \/ \E r \in Root : MarkPushed(r)
           \/ \E r \in Root, low \in BOOLEAN : MarkConfirmed(r, low)
<1>1. ASSUME NEW b \in Blob,
             Put(b) \/ Get(b) \/ Heal(b) \/ ScrubReads(b) \/ ScrubDrops(b) \/ Deliver(b)
      PROVE  rung' = rung
    BY <1>1 DEF Put, Get, Heal, ScrubReads, ScrubDrops, Deliver, journalVars
<1>2. ASSUME NEW refs, SyncBlobsRaises(refs) \/ GetMany(refs) PROVE rung' = rung
    BY <1>2 DEF SyncBlobsRaises, GetMany, journalVars
<1>3. ASSUME NEW n, Evict(n) \/ \E refs \in SUBSET Blob : Pin(n, refs) PROVE rung' = rung
    BY <1>3 DEF Evict, Pin, journalVars
<1>4. ASSUME GetManyReturns \/ HealRaises \/ GcOrphans PROVE rung' = rung
    BY <1>4 DEF GetManyReturns, HealRaises, GcOrphans, journalVars
<1>5. ASSUME Restart \/ PowerLoss \/ \E r \in Root : BatchRunsLow(r) PROVE rung' = rung
    BY <1>5 DEF Restart, PowerLoss, NewSession, BatchRunsLow, journalVars
<1>6. ASSUME UNCHANGED vars PROVE rung' = rung
    BY <1>6 DEF vars, journalVars
<1> QED
    BY <1>1, <1>2, <1>3, <1>4, <1>5, <1>6
    DEF Next, Application, Worker, Environment, Unpin, CommitRootRaises, RebaseRootRaises

\* No root that stays in the fold steps down, for any lineage and through any
\* squash or restart (localstore.py:363-364, 376).
THEOREM Climbing == Spec => RungsClimb
<1> DEFINE Climbs(r) ==
        /\ rung[r] = "confirmed" => rung'[r] \in {"confirmed", "none"}
        /\ rung[r] = "pushed" => rung'[r] # "committed"
<1>1. ASSUME TypeOK, [Next]_vars, NEW x \in Root PROVE Climbs(x)
    <2>1. CASE rung' = rung
        BY <2>1
    <2>2. ASSUME NEW r \in Root, NEW p, NEW refs, CommitRoot(r, p, refs) PROVE Climbs(x)
        BY <2>2, <1>1 DEF CommitRoot, CommitAllowed, Fold, TypeOK
    <2>3. ASSUME NEW r \in Root, NEW refs, RebaseRoot(r, refs) PROVE Climbs(x)
        BY <2>3, <1>1 DEF RebaseRoot, RungsOfTip, TypeOK
    <2>4. ASSUME NEW r \in Root, MarkPushed(r) PROVE Climbs(x)
        BY <2>4, <1>1 DEF MarkPushed, PushedApplies, TypeOK
    <2>5. ASSUME NEW r \in Root, NEW low, MarkConfirmed(r, low) PROVE Climbs(x)
        BY <2>5, <1>1 DEF MarkConfirmed, RecordConfirmed, TypeOK
    <2> QED
        BY <1>1, <2>1, <2>2, <2>3, <2>4, <2>5, RungsChange
<1>2. TypeOK /\ [Next]_vars => [\A r \in Root : Climbs(r)]_vars
    BY <1>1
<1> QED
    BY <1>2, Typing, PTL DEF Spec, RungsClimb

(***************************************************************************)
(* The files.  Apart from a power loss, a step deletes a good file only    *)
(* where no pin holds the blob, and Swarm has it or no root lists it.      *)
(***************************************************************************)
Spared(b) == b \in Pinned \/ b \in Listed \ swarm

LEMMA SettlingSpares ==
    ASSUME FoldInv', NEW d \in Files, EnforceBudget(d),
           UNCHANGED <<rung, blobs, pins, swarm>> \/ UNCHANGED <<pins, swarm, Listed>>,
           NEW b \in Blob, Spared(b), d[b] = disk[b], b \in Good
    PROVE  b \in Good'
<1>1. Pinned' = Pinned /\ Listed' = Listed
    BY DEF Pinned, Listed, Fold
<1>2. PICK V \in SUBSET Evictable' : disk' = Unlink(d, V)
    BY DEF EnforceBudget, Victims
<1>3. b \notin Evictable'
    <2>1. CASE b \in Pinned
        BY <1>1, <2>1 DEF Evictable
    <2>2. CASE b \notin swarm
        <3>1. Evictable' \subseteq swarm'
            BY DEF FoldInv, LineageInv, ConfirmedInv, Evictable, Fold
        <3> QED
            BY <2>2, <3>1
    <2> QED
        BY <2>1, <2>2 DEF Spared
<1> QED
    BY <1>2, <1>3 DEF Unlink, Good

LEMMA UnlinkSpares ==
    ASSUME NEW V, disk' = Unlink(disk, V), NEW b \in Blob \ V, b \in Good
    PROVE  b \in Good'
BY DEF Unlink, Good

LEMMA EvictableUnspared ==
    ASSUME FoldInv, NEW b \in Evictable
    PROVE  ~Spared(b)
BY EvictableOnSwarm DEF Evictable, Spared

LEMMA StepSpares ==
    ASSUME TypeOK, FoldInv, [Next]_vars, ~PowerLoss, NEW b \in Blob, Spared(b), b \in Good
    PROVE  b \in Good'
<1>t. FoldInv' /\ disk \in Files
    BY NextFold DEF TypeOK, Files, FileState
<1>1. ASSUME UNCHANGED disk PROVE b \in Good'
    BY <1>1 DEF Good
<1>w. ASSUME NEW x \in Blob, disk[x] = "absent"
      PROVE  WriteBlob(x) \in Files /\ WriteBlob(x)[b] = disk[b]
    <2>1. x # b
        BY <1>w DEF Good
    <2> QED
        BY <1>w, <2>1, WriteTyped DEF WriteBlob, Files
<1>2. ASSUME NEW x \in Blob, Put(x) PROVE b \in Good'
    BY <1>2, <1>t, <1>w, SettlingSpares DEF Put, journalVars
<1>3. ASSUME NEW x \in Blob, Heal(x) PROVE b \in Good'
    <2>1. CASE x \in Local
        BY <1>3, <2>1, <1>1 DEF Heal
    <2>2. CASE x \notin Local /\ batched
        BY <1>3, <2>2, <1>w DEF Heal, Good, Local
    <2>3. CASE x \notin Local /\ ~batched
        BY <1>3, <2>3, <1>t, <1>w, SettlingSpares DEF Heal, Local, journalVars
    <2> QED
        BY <2>1, <2>2, <2>3
<1>4. ASSUME NEW x \in Blob, ScrubDrops(x) PROVE b \in Good'
    BY <1>4, UnlinkSpares, EvictableUnspared DEF ScrubDrops
<1>5. ASSUME NEW refs, SyncBlobs(refs) PROVE b \in Good'
    BY <1>5 DEF SyncBlobs, Good
<1>6. ASSUME NEW refs, SyncBlobsRaises(refs) PROVE b \in Good'
    BY <1>6 DEF SyncBlobsRaises, TornOrphans, Good
<1>7. CASE GetManyReturns
    BY <1>7, <1>t, SettlingSpares DEF GetManyReturns, journalVars
<1>8. CASE GcOrphans
    BY <1>8, UnlinkSpares DEF GcOrphans, Orphans, Spared
<1>9. ASSUME NEW n, Evict(n) PROVE b \in Good'
    <2>1. PICK V \in SUBSET (Local \cap Evictable) : disk' = Unlink(disk, V)
        BY <1>9 DEF Evict, Victims
    <2> QED
        BY <2>1, UnlinkSpares, EvictableUnspared
<1>10. ASSUME NEW r \in Root, NEW low, MarkConfirmed(r, low) PROVE b \in Good'
    <2>1. Listed' = Listed
        BY <1>10 DEF MarkConfirmed, RecordConfirmed, Listed, Fold, TypeOK
    <2> QED
        BY <1>10, <2>1, <1>t, SettlingSpares DEF MarkConfirmed, RecordConfirmed
<1>11. ASSUME NEW x, Get(x) \/ ScrubReads(x) \/ Deliver(x) PROVE b \in Good'
    BY <1>11, <1>1 DEF Get, ScrubReads, Deliver
<1>12. ASSUME NEW r, MarkPushed(r) \/ BatchRunsLow(r) PROVE b \in Good'
    BY <1>12, <1>1 DEF MarkPushed, BatchRunsLow
<1>13. ASSUME NEW n, NEW refs, GetMany(refs) \/ Pin(n, refs) PROVE b \in Good'
    BY <1>13, <1>1 DEF GetMany, Pin
<1>14. ASSUME HealRaises \/ Restart \/ UNCHANGED vars PROVE b \in Good'
    BY <1>14, <1>1 DEF HealRaises, Restart, vars
<1> QED
    BY <1>2, <1>3, <1>4, <1>5, <1>6, <1>7, <1>8, <1>9, <1>10, <1>11, <1>12, <1>13, <1>14
    DEF Next, Application, Worker, Environment, Unpin, CommitRoot, CommitRootRaises,
        RebaseRoot, RebaseRootRaises

\* Whatever is evicted, collected, scrubbed or dropped by a failed commit, the
\* only copy of a committed blob goes with a power loss alone, in every mode
\* (localstore.py:469-478, 826-835, 850-869, 980-987).
THEOREM OnlyCopies == Spec => OnlyCopyKept
<1> DEFINE Kept == PowerLoss \/ \A b \in (Listed \cap Good) \ swarm : b \in Good'
<1>1. TypeOK /\ FoldInv /\ [Next]_vars => [Kept]_vars
    BY StepSpares DEF Spared, Good
<1> QED
    BY <1>1, SpecFold, PTL DEF Spec, OnlyCopyKept

\* A pinned file stays through every budget, collection and squash, as long
\* as the power does (localstore.py:838-847).
THEOREM PinnedStays == ASSUME ~PowerFails PROVE Spec => PinsHold
<1> DEFINE Kept == \A b \in Pinned \cap Good : b \in Good'
<1>1. ~PowerLoss
    BY DEF PowerLoss
<1>2. TypeOK /\ FoldInv /\ [Next]_vars => [Kept]_vars
    BY <1>1, StepSpares DEF Spared, Good
<1> QED
    BY <1>2, SpecFold, PTL DEF Spec, PinsHold

(***************************************************************************)
(* The ladder.  Under the invariant a root's rung alone is its promise.    *)
(***************************************************************************)
PromiseAt(x) == IF x = "none" THEN "none" ELSE IF x = "confirmed" THEN "network" ELSE "kept"

LEMMA PromiseIsRung ==
    ASSUME BarrierHolds, IndInv
    PROVE  Promise = [r \in Root |-> PromiseAt(rung[r])]
<1> SUFFICES ASSUME NEW r \in Root PROVE Promise[r] = PromiseAt(rung[r])
    BY DEF Promise
<1>1. CASE r \notin Fold
    BY <1>1 DEF Promise, PromiseAt, Fold
<1>2. CASE r \in Fold
    <2>1. Reach[r] \subseteq Available
        BY <1>2 DEF IndInv, LineageInv, ConfirmedInv, DiskInv, Available
    <2>2. rung[r] = "confirmed" => NetworkConfirmed(r) /\ Reach[r] \subseteq swarm
        BY <1>2, ConfirmedAncestry DEF IndInv, FoldInv, ConfirmedInv
    <2>3. NetworkConfirmed(r) => rung[r] = "confirmed"
        BY DEF NetworkConfirmed, Ancestry
    <2> QED
        BY <1>2, <2>1, <2>2, <2>3 DEF Promise, PromiseAt, Fold
<1> QED
    BY <1>1, <1>2

\* Where the barrier holds the store implements the ladder, power losses
\* included: what it keeps for a root only grows, until a squash drops it.
THEOREM LadderImplemented == ASSUME BarrierHolds PROVE Spec => ImplementsLadder
<1> DEFINE Rungs == [r \in Root |-> PromiseAt(rung[r])]
<1>1. Init => L!Init
    <2> SUFFICES ASSUME Init PROVE Promise = [r \in Root |-> "none"]
        BY DEF L!Init
    <2> QED
        BY DEF Init, Promise, Fold
<1>p. IndInv => Promise = Rungs
    BY PromiseIsRung
<1>2. ASSUME IndInv, Promise = Rungs, (Promise = Rungs)', [Next]_vars
      PROVE  [L!Next]_Promise
    <2>p. Promise = Rungs
        BY <1>2
    <2>q. Promise' = Rungs'
        BY <1>2
    <2>t. rung \in [Root -> {"none", "committed", "pushed", "confirmed"}]
        BY <1>2 DEF IndInv, TypeOK
    <2>1. CASE rung' = rung
        BY <2>1, <2>p, <2>q
    <2>2. ASSUME NEW r \in Root, NEW p, NEW refs, CommitRoot(r, p, refs)
          PROVE  L!Next
        <3>1. rung[r] = "none" /\ rung' = [rung EXCEPT ![r] = "committed"]
            BY <2>2 DEF CommitRoot, CommitAllowed, Fold
        <3>2. Rungs[r] = "none" /\ Rungs' = [Rungs EXCEPT ![r] = "kept"]
            BY <2>t, <3>1 DEF PromiseAt
        <3> QED
            BY <2>p, <2>q, <3>2 DEF L!Next, L!Commit
    <2>3. ASSUME NEW r \in Root, NEW refs, RebaseRoot(r, refs) PROVE L!Next
        <3>1. rung[r] # "none" /\ rung' = [x \in Root |-> IF x = r THEN rung[r] ELSE "none"]
            BY <2>3 DEF RebaseRoot, RebaseAllowed, RungsOfTip, Fold
        <3>2. /\ Rungs[r] # "none"
              /\ Rungs' = [x \in Root |-> IF x = r THEN Rungs[r] ELSE "none"]
            BY <2>t, <3>1 DEF PromiseAt
        <3> QED
            BY <2>p, <2>q, <3>2 DEF L!Next, L!Squash
    <2>4. ASSUME NEW r \in Root, MarkPushed(r) PROVE L!Next \/ Promise' = Promise
        <3>1. rung[r] = "committed" /\ rung' = [rung EXCEPT ![r] = "pushed"]
            BY <2>4 DEF MarkPushed, PushedApplies
        <3>2. Rungs' = Rungs
            BY <2>t, <3>1 DEF PromiseAt
        <3> QED
            BY <2>p, <2>q, <3>2
    <2>5. ASSUME NEW r \in Root, NEW low, MarkConfirmed(r, low)
          PROVE  L!Next \/ Promise' = Promise
        <3>1. rung[r] # "none" /\ rung' = [rung EXCEPT ![r] = "confirmed"]
            BY <2>5 DEF MarkConfirmed, RecordConfirmed, Fold
        <3>2. CASE rung[r] = "confirmed"
            <4>1. Rungs' = Rungs
                BY <2>t, <3>1, <3>2
            <4> QED
                BY <2>p, <2>q, <4>1
        <3>3. CASE rung[r] # "confirmed"
            <4>1. Rungs[r] = "kept" /\ Rungs' = [Rungs EXCEPT ![r] = "network"]
                BY <2>t, <3>1, <3>3 DEF PromiseAt
            <4> QED
                BY <2>p, <2>q, <4>1 DEF L!Next, L!Confirm
        <3> QED
            BY <3>2, <3>3
    <2> QED
        BY <1>2, <2>1, <2>2, <2>3, <2>4, <2>5, RungsChange
<1> QED
    BY <1>1, <1>p, <1>2, Inductive, PTL DEF Spec, ImplementsLadder, L!Spec
===============================================================================
