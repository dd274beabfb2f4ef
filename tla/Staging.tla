-------------------------------- MODULE Staging --------------------------------
(***************************************************************************)
(* swarmfs/core.py: the writing side of one SwarmFileSystem.  Calls run as *)
(* tasks of one event loop and give way to each other only where they      *)
(* await: the lookup of rm and ls, the commit lock, and the commit engine. *)
(*                                                                         *)
(* Content addressing makes a manifest and its root reference one thing: a *)
(* root here is the mapping from paths to values it stands for.  A path    *)
(* names its manifest by a handle, a root or one of the pseudo references  *)
(* "new" and "new-<any>".  Paths are flat: what adding and removing do to  *)
(* the trie below a path is not modelled here.                             *)
(***************************************************************************)
EXTENDS Integers, FiniteSets

CONSTANTS
    Path, Value,
    NoFile,      \* what a manifest has at a path where it has no file
    Pseudo,      \* "new" and "new-<any>"
    Base,        \* roots the application opens by reference
    Task,        \* concurrent callers
    Nothing,     \* no dictionary, no cached listing
    Lists,       \* whether the application lists the manifest
    Removes,     \* whether it removes files
    Fails,       \* whether a commit may fail at the node or for want of a stamp
    Transacts,   \* whether it uses transactions
    MaxCalls     \* bound: calls that write, remove or begin a transaction

Root == [Path -> Value \union {NoFile}]

ASSUME NamesAssumption ==
    /\ NoFile \notin Value /\ Base \subseteq Root /\ Pseudo \cap Root = {}
    /\ Nothing \notin Root /\ \A paths \in SUBSET Path : paths # Nothing
ASSUME FiniteAssumption == IsFiniteSet(Path) /\ IsFiniteSet(Value) /\ IsFiniteSet(Pseudo)
ASSUME SwitchAssumption ==
    Lists \in BOOLEAN /\ Removes \in BOOLEAN /\ Fails \in BOOLEAN /\ Transacts \in BOOLEAN /\ MaxCalls \in Nat

Handle == Root \union Pseudo

User == Pseudo \union Base

VARIABLES
    rootMap,   \* _root_map: a root, or a pseudo reference, to its successor;
               \* to itself where it has none
    origin,    \* _origin: a root to the handle its lineage began with
    staged,    \* _staged: by origin, the staged writes, or Nothing
    stagedRm,  \* _staged_rm: by origin, the staged removals, or Nothing
    listing,   \* dircache: the top-level listing of a handle, or Nothing
    inTrans,   \* _intrans
    inside,    \* tasks inside a "with fs.transaction" block
    task,      \* where each task is
    hung,      \* the event loop is caught in _resolve_head
    asked,     \* history: what the calls asked the manifest of a handle to be
    calls

stageVars == <<staged, stagedRm>>
lineageVars == <<rootMap, origin>>
vars == <<rootMap, origin, staged, stagedRm, listing, inTrans, inside, task, hung, asked, calls>>

Empty == [p \in Path |-> NoFile]

Content(h) == IF h \in Pseudo THEN Empty ELSE h

Over(top, below) == [p \in Path |-> IF top[p] # NoFile THEN top[p] ELSE below[p]]

Less(root, paths) == [p \in Path |-> IF p \in paths THEN NoFile ELSE root[p]]

Writes(k) == IF staged[k] = Nothing THEN Empty ELSE staged[k]

Removals(k) == IF stagedRm[k] = Nothing THEN {} ELSE stagedRm[k]

(***************************************************************************)
(* _resolve_head follows the map until an entry maps to itself or there is *)
(* none.  Following it as often as there are handles ends at such an entry *)
(* or proves that there is a cycle.                                        *)
(***************************************************************************)
Head(h) ==
    LET after[n \in 0..Cardinality(Handle)] == IF n = 0 THEN h ELSE rootMap[after[n - 1]]
    IN  after[Cardinality(Handle)]

Endless(h) == rootMap[Head(h)] # Head(h)

Key(h) == origin[Head(h)]

AtRest == [at |-> "rest"]

Init ==
    /\ rootMap = [h \in Handle |-> h]
    /\ origin = [h \in Handle |-> h]
    /\ staged = [h \in Handle |-> Nothing]
    /\ stagedRm = [h \in Handle |-> Nothing]
    /\ listing = [h \in User |-> Nothing]
    /\ inTrans = FALSE /\ inside = {}
    /\ task = [t \in Task |-> AtRest]
    /\ hung = FALSE
    /\ asked = [h \in User |-> Content(h)]
    /\ calls = 0

\* invalidate_cache.  Mutant: it clears nothing.
StillCached == listing

Uncached == [h \in User |-> Nothing]

Call(t) ==
    /\ ~ hung /\ task[t].at = "rest"
    /\ calls < MaxCalls /\ calls' = calls + 1

Goes(t, where) == task' = [task EXCEPT ![t] = where]

\* Every call begins with _resolve_head, and the loop that runs all of them
\* never returns from a cycle.
Hangs(t, h) ==
    /\ Call(t)
    /\ Endless(h)
    /\ hung' = TRUE
    /\ UNCHANGED <<lineageVars, stageVars, listing, inTrans, inside, task, asked>>

\* Where a call that has staged something goes: to the commit lock, or home
\* inside a transaction, this task's or another's.
AtLock(keys, ends) == [at |-> "lock", keys |-> keys, ends |-> ends]

AfterStaging(k) == IF inTrans THEN AtRest ELSE AtLock({k}, FALSE)

(***************************************************************************)
(* Staging.  Mutant of StageWrite: a removal staged before it stays.       *)
(***************************************************************************)
StageWriteOnly(k, p, v) ==
    /\ staged' = [staged EXCEPT ![k] = [Writes(k) EXCEPT ![p] = v]]
    /\ UNCHANGED stagedRm

StageWrite(k, p, v) ==
    /\ staged' = [staged EXCEPT ![k] = [Writes(k) EXCEPT ![p] = v]]
    /\ stagedRm' = [stagedRm EXCEPT ![k] = IF @ = Nothing THEN Nothing ELSE @ \ {p}]

\* _pipe_file, _put_file, _stage_path
Write(t, h, p, v) ==
    /\ Call(t)
    /\ ~ Endless(h)
    /\ StageWrite(Key(h), p, v)
    /\ listing' = Uncached
    /\ asked' = [asked EXCEPT ![h][p] = v]
    /\ Goes(t, AfterStaging(Key(h)))
    /\ UNCHANGED <<lineageVars, inTrans, inside, hung>>

(***************************************************************************)
(* rm and ls look into the root they resolved, and wait for the node.      *)
(* Meanwhile they hold on to the dictionaries that _overlay found, or to   *)
(* fresh empty ones.  A commit or a discard takes the dictionaries of a    *)
(* lineage away: a task that holds one keeps the entries it had.           *)
(***************************************************************************)
LooksUp(h) ==
    [head |-> Head(h), key |-> Key(h),
     holdsWrites |-> staged[Key(h)] # Nothing, writes |-> Empty,
     holdsRemovals |-> stagedRm[Key(h)] # Nothing, removals |-> {}]

SeenWrites(o) == IF o.holdsWrites THEN Writes(o.key) ELSE o.writes

SeenRemovals(o) == IF o.holdsRemovals THEN Removals(o.key) ELSE o.removals

KeepsEntries(o) ==
    [head |-> o.head, key |-> o.key,
     holdsWrites |-> FALSE, writes |-> SeenWrites(o),
     holdsRemovals |-> FALSE, removals |-> SeenRemovals(o)]

LetGo(tasks, keys) ==
    [t \in Task |->
        IF tasks[t].at \in {"rm", "ls"} /\ tasks[t].overlay.key \in keys
        THEN [tasks[t] EXCEPT !.overlay = KeepsEntries(tasks[t].overlay)]
        ELSE tasks[t]]

RmLooksUp(t, h, p) ==
    /\ Removes
    /\ Call(t)
    /\ ~ Endless(h) /\ Head(h) \notin Pseudo
    /\ Goes(t, [at |-> "rm", user |-> h, path |-> p, overlay |-> LooksUp(h)])
    /\ UNCHANGED <<lineageVars, stageVars, listing, inTrans, inside, hung, asked>>

\* What is staged with the path's own entry taken out, by a key that may
\* have no dictionary.
WithoutWrite(k, p) ==
    IF staged[k] = Nothing THEN staged ELSE [staged EXCEPT ![k][p] = NoFile]

\* The path is staged but not in the manifest: _unstage, and no commit.
Unstages(t, h, k, p) ==
    /\ staged' = WithoutWrite(k, p)
    /\ stagedRm' = [stagedRm EXCEPT ![k] = IF @ = Nothing THEN Nothing ELSE @ \ {p}]
    /\ listing' = Uncached
    /\ asked' = [asked EXCEPT ![h][p] = NoFile]
    /\ Goes(t, AtRest)

\* A pseudo reference has nothing to look up: rm does not wait.
RmFresh(t, h, p) ==
    /\ Removes
    /\ Call(t)
    /\ ~ Endless(h) /\ Head(h) \in Pseudo
    /\ Writes(Key(h))[p] # NoFile
    /\ Unstages(t, h, Key(h), p)
    /\ UNCHANGED <<lineageVars, inTrans, inside, hung>>

\* exists_remote.  Mutant: a staged write counts as well.
InManifestOrStaged(o, p) ==
    (Content(o.head)[p] # NoFile \/ SeenWrites(o)[p] # NoFile) /\ p \notin SeenRemovals(o)

InManifest(o, p) == Content(o.head)[p] # NoFile /\ p \notin SeenRemovals(o)

Rm(t) ==
    /\ ~ hung /\ task[t].at = "rm"
    /\ LET o == task[t].overlay
           p == task[t].path
           h == task[t].user
           k == origin[o.head]
       IN  \/ /\ InManifest(o, p)
              /\ staged' = WithoutWrite(k, p)
              /\ stagedRm' = [stagedRm EXCEPT ![k] = Removals(k) \union {p}]
              /\ listing' = Uncached
              /\ asked' = [asked EXCEPT ![h][p] = NoFile]
              /\ Goes(t, AfterStaging(k))
           \/ /\ ~ InManifest(o, p) /\ SeenWrites(o)[p] # NoFile
              /\ Unstages(t, h, k, p)
           \/ /\ ~ InManifest(o, p) /\ SeenWrites(o)[p] = NoFile      \* FileNotFoundError
              /\ Goes(t, AtRest)
              /\ UNCHANGED <<stageVars, listing, asked>>
    /\ UNCHANGED <<lineageVars, inTrans, inside, hung, calls>>

(***************************************************************************)
(* Transactions.  The flag is the file system's, not the task's.           *)
(***************************************************************************)
Begin(t) ==
    /\ Transacts
    /\ Call(t)
    /\ inside = {}
    /\ inside' = {t} /\ inTrans' = TRUE
    /\ UNCHANGED <<lineageVars, stageVars, listing, task, hung, asked>>

Staged == {k \in Handle : staged[k] # Nothing \/ stagedRm[k] # Nothing}

\* The block ends: _commit_all, one lineage after the other.
EndCommits(t) ==
    /\ ~ hung /\ task[t].at = "rest" /\ t \in inside
    /\ IF Staged = {}
       THEN inside' = {} /\ inTrans' = FALSE /\ UNCHANGED task
       ELSE Goes(t, AtLock({origin[k] : k \in Staged}, TRUE)) /\ UNCHANGED <<inside, inTrans>>
    /\ UNCHANGED <<lineageVars, stageVars, listing, hung, asked, calls>>

InFlight(k) == {t \in Task : task[t].at = "engine" /\ task[t].key = k}

\* The manifest as the commit in flight will leave it, if it succeeds.
Committing(h) ==
    IF InFlight(Key(h)) = {} THEN Content(Head(h))
    ELSE LET c == task[CHOOSE t \in InFlight(Key(h)) : TRUE]
         IN  Over(c.writes, Less(Content(Head(h)), c.removals))

\* The block raised: everything staged on the file system is dropped.
EndDiscards(t) ==
    /\ ~ hung /\ task[t].at = "rest" /\ t \in inside
    /\ staged' = [k \in Handle |-> Nothing]
    /\ stagedRm' = [k \in Handle |-> Nothing]
    /\ task' = LetGo(task, Handle)
    /\ listing' = Uncached
    /\ asked' = [h \in User |-> Committing(h)]
    /\ inside' = {} /\ inTrans' = FALSE
    /\ UNCHANGED <<lineageVars, hung, calls>>

(***************************************************************************)
(* _commit_root.  The lock admits one task; what is staged is taken out,   *)
(* and the head looked up, under it.                                       *)
(***************************************************************************)
\* Mutant of LockFree: no lock.
LockFreeAlways == TRUE

LockFree == \A t \in Task : task[t].at # "engine"

\* A task that has committed its last lineage returns to its caller; at the
\* end of a transaction's block that resets the flag.
Onward(t, keys, ends, tasks) ==
    IF keys = {}
    THEN /\ task' = [tasks EXCEPT ![t] = AtRest]
         /\ inside' = IF ends THEN {} ELSE inside
         /\ inTrans' = (inTrans /\ ~ ends)
    ELSE /\ task' = [tasks EXCEPT ![t] = AtLock(keys, ends)]
         /\ UNCHANGED <<inside, inTrans>>

Takes(t) ==
    /\ ~ hung /\ task[t].at = "lock"
    /\ LockFree
    /\ \E k \in task[t].keys :
          /\ staged' = [staged EXCEPT ![k] = Nothing]
          /\ stagedRm' = [stagedRm EXCEPT ![k] = Nothing]
          /\ LET tasks == LetGo(task, {k})
                 rest == task[t].keys \ {k}
             IN  IF Writes(k) = Empty /\ Removals(k) = {}
                 THEN Onward(t, rest, task[t].ends, tasks) /\ UNCHANGED hung
                 ELSE /\ hung' = Endless(k)
                      /\ task' = [tasks EXCEPT ![t] =
                            [at |-> "engine", key |-> k, keys |-> rest, ends |-> task[t].ends,
                             head |-> Head(k), writes |-> Writes(k), removals |-> Removals(k)]]
                      /\ UNCHANGED <<inside, inTrans>>
    /\ UNCHANGED <<lineageVars, listing, asked, calls>>

\* The engine removes, then adds.  It refuses to remove what is not there.
Applicable(c) == \A p \in c.removals : Content(c.head)[p] # NoFile

NewRoot(c) == Over(c.writes, Less(Content(c.head), c.removals))

CommitSucceeds(t) ==
    /\ ~ hung /\ task[t].at = "engine"
    /\ LET c == task[t]
       IN  /\ Applicable(c)
           /\ IF NewRoot(c) = c.head
              THEN UNCHANGED lineageVars
              ELSE /\ rootMap' = [rootMap EXCEPT ![c.head] = NewRoot(c)]
                   /\ origin' = [origin EXCEPT ![NewRoot(c)] = c.key]
           /\ Onward(t, c.keys, c.ends, task)
    /\ listing' = Uncached
    /\ UNCHANGED <<stageVars, hung, asked, calls>>

\* What was taken out goes back, under whatever was staged since.  Mutant of
\* Restore: over it.
RestoreOver(c) ==
    /\ staged' = [staged EXCEPT ![c.key] = Over(c.writes, Writes(c.key))]
    /\ stagedRm' = [stagedRm EXCEPT ![c.key] = Removals(c.key) \union c.removals]

Restore(c) ==
    /\ staged' = [staged EXCEPT ![c.key] = Over(Writes(c.key), c.writes)]
    /\ stagedRm' = [stagedRm EXCEPT ![c.key] = Removals(c.key) \union c.removals]

\* The exception goes to the caller.  From the end of a transaction's block
\* it passes by the statement that resets the flag.
CommitFails(t) ==
    /\ ~ hung /\ task[t].at = "engine"
    /\ Fails \/ ~ Applicable(task[t])
    /\ Restore(task[t])
    /\ Goes(t, AtRest)
    /\ inside' = IF task[t].ends THEN {} ELSE inside
    /\ UNCHANGED <<lineageVars, listing, inTrans, hung, asked, calls>>

\* commit_all, called to retry.
CommitAll(t) ==
    /\ Call(t)
    /\ Staged # {}
    /\ Goes(t, AtLock({origin[k] : k \in Staged}, FALSE))
    /\ UNCHANGED <<lineageVars, stageVars, listing, inTrans, inside, hung, asked>>

(***************************************************************************)
(* Reading.  _ls lays what is staged over the root it looked into, waits   *)
(* again for the sizes, and only then caches the listing.                  *)
(***************************************************************************)
Listing(o) == Over(SeenWrites(o), Less(Content(o.head), SeenRemovals(o)))

LsLooksUp(t, h) ==
    /\ Lists
    /\ ~ hung /\ task[t].at = "rest" /\ ~ Endless(h)
    /\ listing[h] = Nothing
    /\ IF Head(h) \in Pseudo
       THEN listing' = [listing EXCEPT ![h] = Listing(LooksUp(h))] /\ UNCHANGED task
       ELSE Goes(t, [at |-> "ls", user |-> h, overlay |-> LooksUp(h)]) /\ UNCHANGED listing
    /\ UNCHANGED <<lineageVars, stageVars, inTrans, inside, hung, asked, calls>>

LsOverlays(t) ==
    /\ ~ hung /\ task[t].at = "ls"
    /\ Goes(t, [at |-> "sizes", user |-> task[t].user, entries |-> Listing(task[t].overlay)])
    /\ UNCHANGED <<lineageVars, stageVars, listing, inTrans, inside, hung, asked, calls>>

LsCaches(t) ==
    /\ ~ hung /\ task[t].at = "sizes"
    /\ listing' = [listing EXCEPT ![task[t].user] = task[t].entries]
    /\ Goes(t, AtRest)
    /\ UNCHANGED <<lineageVars, stageVars, inTrans, inside, hung, asked, calls>>

Next ==
    \E t \in Task :
        \/ \E h \in User : Hangs(t, h) \/ LsLooksUp(t, h)
        \/ \E h \in User, p \in Path : RmFresh(t, h, p) \/ RmLooksUp(t, h, p)
        \/ \E h \in User, p \in Path, v \in Value : Write(t, h, p, v)
        \/ Rm(t) \/ Begin(t) \/ EndCommits(t) \/ EndDiscards(t) \/ CommitAll(t)
        \/ Takes(t) \/ CommitSucceeds(t) \/ CommitFails(t)
        \/ LsOverlays(t) \/ LsCaches(t)

Spec == Init /\ [][Next]_vars

(***************************************************************************)
(* Properties.                                                             *)
(***************************************************************************)
\* What will be there once everything staged is committed.
Pending(h) == Over(Writes(Key(h)), Less(Committing(h), Removals(Key(h))))

\* "a failed commit must not lose staged data" (core.py:748), nor does a
\* successful one, one that races with it, or a transaction's end: what the
\* calls asked for is committed, in flight or staged.
NothingStagedIsLost ==
    \A h \in User : ~ Endless(h) => Pending(h) = asked[h]

\* The same of one step: a commit that fails leaves what will be there once
\* everything is committed as it was (core.py:748-753).
FailedCommitsLoseNothing ==
    [][(\E t \in Task : CommitFails(t)) =>
         \A h \in User : ~ Endless(h) => Pending(h)' = Pending(h)]_vars

\* Concurrent commits are serialised and extend one lineage (core.py:731-733):
\* one is with the engine at a time, and every root the engine made leads on
\* to the head.
OneLineage ==
    /\ Cardinality({t \in Task : task[t].at = "engine"}) <= 1
    /\ \A h \in User : ~ Endless(h) =>
          \A r \in Root : origin[r] = origin[Head(h)] => Head(r) = Head(h)

\* A removal that is staged can be applied, or every later commit of the
\* lineage fails over it (core.py:731-733, commit.py:282-284).
RemovalsApply ==
    \A k \in Handle : InFlight(k) = {} /\ ~ Endless(k) =>
        \A p \in Removals(k) : Content(Head(k))[p] # NoFile

\* "a commit of identical content yields an identical root, so guard against
\* identity/cyclic entries" (core.py:406-407).
HeadsEnd == \A h \in Handle : ~ Endless(h)

\* "separate fresh lineages don't collide" (tests/test_write_fs.py:129): with
\* nothing staged or in flight, what a fresh lineage holds is what the calls
\* on it asked for.
AllQuiet == (\A t \in Task : task[t].at = "rest") /\ Staged = {}

LineagesApart ==
    AllQuiet => \A h \in Pseudo : ~ Endless(h) => Content(Head(h)) = asked[h]

\* "Outside a transaction every write operation commits immediately"
\* (core.py:11-12): the flag does not outlive the block.
TransactionsEnd == inTrans => inside # {}

\* Reads through the original URL see the latest state (core.py:13-15), also
\* where they are answered from the listing cache.
ListingsFresh ==
    \A h \in User : listing[h] # Nothing /\ ~ Endless(h) /\ (\A t \in Task : task[t].at = "rest")
        => listing[h] = Listing(LooksUp(h))
===============================================================================
