-------------------------------- MODULE Syncer --------------------------------
(***************************************************************************)
(* swarmfs/localsync.py: the push worker of one store, composed with the   *)
(* LocalStore it reads and marks.  The worker holds no lock between its    *)
(* calls to the store: it walks a list of roots and blobs as they were     *)
(* when it asked (roots_below), while the application commits, squashes    *)
(* and collects.  A process that ends takes the worker's state with it.    *)
(*                                                                         *)
(* The node and the network behind it are external: the node keeps what it *)
(* accepted and pushes it on in its own time, or takes a shallow receipt   *)
(* for delivery and never tries again; what the network has it keeps.      *)
(* A sample here is the whole root, as it is for every root of at most     *)
(* MIN_CONFIRM_SAMPLE blobs.                                               *)
(***************************************************************************)
EXTENDS LocalStore, Sequences

CONSTANTS
    Witness,      \* whether confirmation fetches through a second endpoint
    Recommits,    \* whether the application may arrive again at a root that a
                  \* squash dropped while the worker still has it on its list
    MaxCalls,     \* bound: commits, squashes, stops and restarts together
    MaxTrouble    \* bound: failed requests and shallow receipts together

ASSUME FiniteAssumption == IsFiniteSet(Root)
ASSUME SwitchAssumption == Witness \in BOOLEAN /\ Recommits \in BOOLEAN
ASSUME BoundsAssumption == MaxCalls \in Nat /\ MaxTrouble \in Nat

VARIABLES
    task,      \* what the worker does next
    due,       \* what _due made of sync_stats: "nothing", "later" or "now"
    todo,      \* the rest of the list of roots it took from roots_below
    left,      \* the blobs of the first of them it has still to push
    urgent,    \* _urgent
    wake,      \* the event _wake is set
    stopping,  \* the event _stop is set
    syncing,   \* a caller is blocked in sync()
    accepted,  \* blobs the node accepted, and can itself serve
    stranded,  \* those it takes for delivered and the network has not
    calls, trouble

workerVars == <<task, due, todo, left, urgent, wake, stopping, syncing>>
nodeVars == <<accepted, stranded>>
syncVars == <<vars, workerVars, nodeVars, calls, trouble>>

SyncInit ==
    /\ Init
    /\ task = "looking" /\ due = "nothing"
    /\ todo = <<>> /\ left = {}
    /\ urgent = FALSE /\ wake = FALSE /\ stopping = FALSE /\ syncing = FALSE
    /\ accepted = {} /\ stranded = {}
    /\ calls = 0 /\ trouble = 0

Below(rungs) == {r \in Fold : rung[r] \in rungs}

Goto(t) == task' = t

Trouble == trouble < MaxTrouble /\ trouble' = trouble + 1

(***************************************************************************)
(* The application.  A committed event wakes the worker.                   *)
(***************************************************************************)
Call == calls < MaxCalls /\ calls' = calls + 1

OnTheList(r) == \E i \in DOMAIN todo : todo[i].root = r

Commits ==
    /\ \E r \in Root, p \in Root \union {NoRoot}, refs \in SUBSET Blob :
          CommitRoot(r, p, refs) /\ (Recommits \/ ~ OnTheList(r))
    /\ Call
    /\ wake' = TRUE
    /\ UNCHANGED <<task, due, todo, left, urgent, stopping, syncing, nodeVars, trouble>>

Squashes ==
    /\ \E r \in Root, refs \in SUBSET Blob : RebaseRoot(r, refs)
    /\ Call
    /\ UNCHANGED <<workerVars, nodeVars, trouble>>

UsesStore ==
    /\ GcOrphans \/ \E b \in Blob : Put(b)
    /\ UNCHANGED <<workerVars, nodeVars, calls, trouble>>

\* sync: the flag, the event, then wait_for(None, CONFIRMED).
SyncCalls ==
    /\ ~ syncing
    /\ syncing' = TRUE /\ urgent' = TRUE /\ wake' = TRUE
    /\ UNCHANGED <<vars, task, due, todo, left, stopping, nodeVars, calls, trouble>>

SyncReturns ==
    /\ syncing
    /\ \A r \in Fold : NetworkConfirmed(r)
    /\ syncing' = FALSE
    /\ UNCHANGED <<vars, task, due, todo, left, urgent, wake, stopping, nodeVars, calls, trouble>>

Stop ==
    /\ Call
    /\ stopping' = TRUE /\ wake' = TRUE
    /\ UNCHANGED <<vars, task, due, todo, left, urgent, syncing, nodeVars, trouble>>

\* The process ends and another opens the store with a worker of its own.
Reopens ==
    /\ Restart
    /\ Call
    /\ task' = "looking" /\ due' = "nothing"
    /\ todo' = <<>> /\ left' = {}
    /\ urgent' = FALSE /\ wake' = FALSE /\ stopping' = FALSE /\ syncing' = FALSE
    /\ UNCHANGED <<nodeVars, trouble>>

(***************************************************************************)
(* The worker: _loop and _due.                                             *)
(***************************************************************************)
WorkerOnly == UNCHANGED <<vars, stopping, syncing, nodeVars, calls>>

\* _due reads the store in one locked pass.  Whether the debounce, the
\* staleness or the pinned bytes have come due is any answer here; pushed
\* roots that wait for confirmation make it due.
Looks ==
    /\ task = "looking"
    /\ Goto(IF stopping THEN "stopped" ELSE "deciding")
    /\ due' \in IF Below({"committed", "pushed"}) = {} THEN {"nothing"}
                ELSE IF Below({"committed"}) = {} THEN {"now"} ELSE {"now", "later"}
    /\ UNCHANGED <<todo, left, urgent, wake, trouble>> /\ WorkerOnly

\* It acts on what it read: with nothing to do it takes the urgency back.
Decides ==
    /\ task = "deciding"
    /\ urgent' = (urgent /\ due # "nothing")
    /\ Goto(IF urgent' \/ due = "now" THEN "listing pushes" ELSE "waiting")
    /\ UNCHANGED <<due, todo, left, wake, trouble>> /\ WorkerOnly

\* _wake.wait(timeout), then _wake.clear().
Wakes ==
    /\ \/ task = "waiting" /\ (wake \/ due = "later")
       \/ task = "backoff"
    /\ Goto("looking")
    /\ wake' = FALSE
    /\ UNCHANGED <<due, todo, left, urgent, trouble>> /\ WorkerOnly

\* An exception ends the round; the loop reports it and backs off.
Raises == Goto("backoff") /\ todo' = <<>> /\ left' = {}

(***************************************************************************)
(* _push_round.                                                            *)
(***************************************************************************)
\* roots_below sorts the roots by depth, and so has parents before children.
\* Mutant of Orders: in any order.
OrdersByAccident(roots) ==
    {s \in [1..Cardinality(roots) -> roots] : \A r \in roots : \E i \in DOMAIN s : s[i] = r}

Orders(roots) ==
    {s \in [1..Cardinality(roots) -> roots] :
        /\ \A r \in roots : \E i \in DOMAIN s : s[i] = r
        /\ \A i, j \in DOMAIN s :
              i < j => Cardinality(Ancestry(s[i])) <= Cardinality(Ancestry(s[j]))}

\* An entry of the list keeps the blobs of the event it was read from.
Entries(s) == [i \in DOMAIN s |-> [root |-> s[i], blobs |-> blobs[s[i]]]]

BlobsOfFirst(entries) == IF entries = <<>> THEN {} ELSE Head(entries).blobs

\* The push round ends when its list does.  Mutant: it takes a first entry
\* for granted.
AfterFirstPush(entries) == "pushing"

AfterPush(entries) == IF entries = <<>> THEN "listing checks" ELSE "pushing"

ListsPushes ==
    /\ task = "listing pushes"
    /\ \E s \in Orders(Below({"committed"})) :
          /\ todo' = Entries(s)
          /\ left' = BlobsOfFirst(todo')
          /\ Goto(AfterPush(todo'))
    /\ UNCHANGED <<due, urgent, wake, trouble>> /\ WorkerOnly

\* push_blob(ref, store.get(ref)): the node returns the reference it computed
\* from the bytes, so only the right bytes are accepted under it.
PushesLocal(b) ==
    /\ task = "pushing" /\ b \in left \cap Good
    /\ left' = left \ {b}
    /\ accepted' = accepted \union {b}
    /\ UNCHANGED <<vars, task, due, todo, urgent, wake, stopping, syncing,
                   stranded, calls, trouble>>

\* A blob evicted since another root that lists it was confirmed heals first.
PushHeals(b) ==
    /\ task = "pushing" /\ b \in left
    /\ Get(b)
    /\ UNCHANGED <<workerVars, nodeVars, calls, trouble>>

PushesHealed(b) ==
    /\ task = "pushing" /\ b \in left
    /\ Heal(b)
    /\ left' = left \ {b}
    /\ accepted' = accepted \union {b}
    /\ UNCHANGED <<task, due, todo, urgent, wake, stopping, syncing,
                   stranded, calls, trouble>>

\* A call that finds the worker stopping does nothing.
PushSkipped(b) ==
    /\ task = "pushing" /\ b \in left /\ stopping
    /\ left' = left \ {b}
    /\ UNCHANGED <<vars, task, due, todo, urgent, wake, stopping, syncing,
                   nodeVars, calls, trouble>>

\* A push fails, or finds its blob collected after a squash dropped its root;
\* the calls that are under way finish.
PushRaises ==
    /\ task = "pushing" /\ left # {}
    /\ \/ Trouble
       \/ ~ left \subseteq (Listed \union Local) /\ UNCHANGED trouble
    /\ \E done \in SUBSET (left \cap Good) : accepted' = accepted \union done
    /\ healing' = {}
    /\ Raises
    /\ UNCHANGED <<journalVars, disk, written, synced, batched, suspect, swarm,
                   due, urgent, wake, stopping, syncing, stranded, calls>>

\* mark_pushed refuses a root that left the fold, and does nothing to one
\* that is up there already.  Mutant of PushComplete: a root counts as pushed
\* although the worker was stopping.
PushCompleteRegardless == left = {}

PushComplete == left = {} /\ ~ stopping

Pushed ==
    /\ task = "pushing" /\ left = {}
    /\ LET r == Head(todo).root
       IN  \/ /\ PushComplete
              /\ MarkPushed(r) \/ (r \in Fold /\ ~ PushedApplies(r) /\ UNCHANGED vars)
              /\ todo' = Tail(todo)
              /\ left' = BlobsOfFirst(todo')
              /\ Goto(AfterPush(todo'))
           \/ PushComplete /\ r \notin Fold /\ Raises /\ UNCHANGED vars
           \/ ~ PushComplete /\ Goto("stopped") /\ UNCHANGED <<vars, todo, left>>
    /\ UNCHANGED <<due, urgent, wake, stopping, syncing, nodeVars, calls, trouble>>

(***************************************************************************)
(* _confirm_round.                                                         *)
(***************************************************************************)
\* Roots whose push is outstanding are passed over.
ListsChecks ==
    /\ task = "listing checks"
    /\ \E s \in Orders(Below({"pushed"})) :
          /\ todo' = Entries(s)
          /\ Goto(IF s = <<>> THEN "looking" ELSE "checking")
    /\ UNCHANGED <<due, left, urgent, wake, trouble>> /\ WorkerOnly

\* What the endpoint _verify asks can serve: the node has what it accepted,
\* a witness what the network has.
Fetchable == IF Witness THEN swarm ELSE swarm \union accepted

\* is_retrievable: stewardship asks the network, not the node's own store.
\* Mutant: it is content with what the node has.
RetrievableFromNode == swarm \union accepted

Retrievable == swarm

Checks ==
    /\ task = "checking"
    /\ LET refs == Head(todo).blobs
       IN  \/ /\ ~ stopping
              /\ refs \subseteq Fetchable
              /\ Goto(IF refs \subseteq Retrievable THEN "marking" ELSE "repairing")
              /\ UNCHANGED <<todo, left, trouble>>
           \/ /\ ~ stopping
              /\ (~ refs \subseteq Fetchable /\ UNCHANGED trouble) \/ Trouble
              /\ Raises
           \/ stopping /\ Goto("stopped") /\ UNCHANGED <<todo, left, trouble>>
    /\ UNCHANGED <<due, urgent, wake>> /\ WorkerOnly

\* A direct upload takes a stranded blob up again.  Mutant: a deferred one is
\* deduplicated by the node.
TakesUpDeferred(refs) == stranded

TakesUp(refs) == stranded \ refs

\* _repair: every missing blob of the root, from its local copy, and the
\* round fails on purpose; if nothing is missing any more, the root is marked.
Repairs ==
    /\ task = "repairing"
    /\ LET missing == Head(todo).blobs \ Retrievable
           local == missing \cap Good
       IN  \/ /\ ~ stopping /\ missing = {}
              /\ Goto("marking")
              /\ UNCHANGED <<todo, left, nodeVars, trouble>>
           \/ /\ ~ stopping /\ missing # {}
              /\ \E done \in SUBSET local :
                    /\ IF done = local THEN UNCHANGED trouble ELSE Trouble
                    /\ accepted' = accepted \union done
                    /\ stranded' = TakesUp(done)
              /\ Raises
           \/ stopping /\ Goto("stopped") /\ UNCHANGED <<todo, left, nodeVars, trouble>>
    /\ UNCHANGED <<vars, due, urgent, wake, stopping, syncing, calls>>

\* batch_info, then mark_confirmed, which refuses a root that left the fold
\* and one whose parent is not confirmed.
Marks ==
    /\ task = "marking"
    /\ LET r == Head(todo).root
       IN  \/ /\ \E low \in BOOLEAN : RecordConfirmed(r, low)
              /\ todo' = Tail(todo)
              /\ Goto(IF todo' = <<>> THEN "looking" ELSE "checking")
              /\ UNCHANGED <<left, trouble>>
           \/ /\ (~ (r \in Fold /\ ParentConfirmed(r)) /\ UNCHANGED trouble) \/ Trouble
              /\ Raises
              /\ UNCHANGED vars
    /\ UNCHANGED <<due, urgent, wake, stopping, syncing, nodeVars, calls>>

(***************************************************************************)
(* The node and the network.                                               *)
(***************************************************************************)
Arrives(b) ==
    /\ b \in accepted \ stranded
    /\ Deliver(b)
    /\ UNCHANGED <<workerVars, nodeVars, calls, trouble>>

\* A shallow receipt.
Strands(b) ==
    /\ b \in accepted \ (swarm \union stranded)
    /\ Trouble
    /\ stranded' = stranded \union {b}
    /\ UNCHANGED <<vars, workerVars, accepted, calls>>

App == Commits \/ Squashes \/ UsesStore \/ SyncCalls \/ Stop \/ Reopens

Loop ==
    \/ Looks \/ Decides \/ Wakes
    \/ ListsPushes \/ PushRaises \/ Pushed
    \/ \E b \in Blob : PushesLocal(b) \/ PushHeals(b) \/ PushesHealed(b) \/ PushSkipped(b)
    \/ ListsChecks \/ Checks \/ Repairs \/ Marks

Network == \E b \in Blob : Arrives(b) \/ Strands(b)

SyncNext == App \/ SyncReturns \/ Loop \/ Network

SyncSpec == SyncInit /\ [][SyncNext]_syncVars

(***************************************************************************)
(* The worker is a thread of its own and its waits are timed or ended by   *)
(* the event; the clock passes the debounce and the staleness; the         *)
(* condition wait_for sleeps on is notified by every event of the journal; *)
(* the node pushes what it holds.  Nothing else is owed: not a call of the *)
(* application, and not a request that succeeds, except that requests fail *)
(* MaxTrouble times only.                                                  *)
(***************************************************************************)
ComesDue == Looks /\ due' # "later"

Fairness ==
    /\ WF_syncVars(Loop)
    /\ SF_syncVars(ComesDue)
    /\ WF_syncVars(SyncReturns)
    /\ \A b \in Blob : WF_syncVars(Arrives(b))

FairSpec == SyncSpec /\ Fairness

(***************************************************************************)
(* Properties.                                                             *)
(***************************************************************************)
\* Every variable holds a value of its kind (localsync.py:216-249).
SyncTypeOK ==
    /\ task \in {"looking", "deciding", "waiting", "backoff", "listing pushes", "pushing",
                 "listing checks", "checking", "repairing", "marking", "stopped"}
    /\ due \in {"nothing", "later", "now"}
    /\ todo \in Seq([root : Root, blobs : SUBSET Blob])
    /\ left \subseteq Blob
    /\ task \in {"pushing", "checking", "repairing", "marking"} => todo # <<>>
    /\ urgent \in BOOLEAN /\ wake \in BOOLEAN /\ stopping \in BOOLEAN /\ syncing \in BOOLEAN
    /\ accepted \subseteq Blob /\ stranded \subseteq accepted
    /\ calls \in 0..MaxCalls /\ trouble \in 0..MaxTrouble

\* The lag rule, for the first rung: when a root stands at pushed, the node
\* has accepted everything the root reaches, not only what its event lists -
\* also when the list the worker went by is older than a squash, and when it
\* was stopped half way (localsync.py:334-344).
PushedMeansAccepted ==
    \A r \in Fold : rung[r] # "committed" => Reach[r] \subseteq accepted \union swarm

\* The lag rule, for the second: what LocalStore asks of the caller of
\* mark_confirmed the worker gives it, against every interleaving of its
\* list with squashes, collections and restarts; so the store it drives
\* behaves as LocalStore.tla says (localsync.py:346-363).
ImplementsLocalStore == Spec

\* While requests and calls come to an end and nobody stops the worker, every
\* committed root is confirmed in the end, by debounce, staleness or sync(),
\* stranded blobs included (localsync.py:28-38, 292-332).
EverythingConfirmed ==
    []<>(stopping \/ \A r \in Fold : rung[r] = "confirmed")

\* And sync() returns (localsync.py:274-284).
SyncEnds == syncing ~> (~ syncing \/ stopping)

\* "sync() and budget pressure fire immediately" (localsync.py:40-41): the
\* worker does not sleep through its debounce while a sync() waits for it.
SyncFiresAtOnce ==
    ~ (syncing /\ task = "waiting" /\ ~ wake /\ Below({"committed", "pushed"}) # {})

\* "a blob the network cannot retrieve is repaired, not just waited for"
\* (localsync.py:28), with a witness as without.
StrandedIsRepaired ==
    \A b \in Blob : (b \in stranded /\ \E r \in Fold : b \in blobs[r])
                        ~> (b \notin stranded \/ b \notin Listed \/ stopping)

\* "every ladder event is appended to the journal only after the fact it
\* records is true (the lag rule)" (localsync.py:9-10), of the rung that
\* permits eviction.
ConfirmedIsTrue == \A r \in Fold : rung[r] = "confirmed" => Reach[r] \subseteq swarm

(***************************************************************************)
(* The inductive invariant behind PushedMeansAccepted and                  *)
(* ImplementsLocalStore, unless the application recommits what is on the   *)
(* worker's list.                                                          *)
(***************************************************************************)
\* What a listed root reaches is in its own entry, on the ground that is
\* already safe, or reached by a root before it.
Covered(entries, ground) ==
    \A i \in DOMAIN entries : \A b \in Reach[entries[i].root] :
        \/ b \in entries[i].blobs \union ground
        \/ \E j \in DOMAIN entries : j < i /\ b \in Reach[entries[j].root]

PushInv ==
    task = "pushing" =>
        /\ Covered(todo, accepted \union swarm)
        /\ stopping \/ Head(todo).blobs \ left \subseteq accepted

\* No root is pushed before its parent.
ParentsFirst ==
    /\ \A r \in Fold : rung[r] # "committed" /\ parent[r] # NoRoot => rung[parent[r]] # "committed"
    /\ task = "pushing" =>
          \A i \in DOMAIN todo :
              LET r == todo[i].root
              IN  r \in Fold /\ parent[r] # NoRoot /\ rung[parent[r]] = "committed"
                      => \E j \in DOMAIN todo : j < i /\ todo[j].root = parent[r]

CheckInv ==
    /\ task \in {"checking", "repairing", "marking"} => Covered(todo, swarm)
    /\ task = "marking" => Head(todo).blobs \subseteq swarm

SyncInv ==
    /\ SyncTypeOK /\ ~ batched
    /\ PushedMeansAccepted /\ PushInv /\ ParentsFirst /\ CheckInv
===============================================================================
