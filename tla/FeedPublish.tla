------------------------------ MODULE FeedPublish ------------------------------
(***************************************************************************)
(* swarmfs/feedfs.py and swarmfs/feeds.py: instances of                    *)
(* SwarmFeedFileSystem on one feed.  Every instance resolves the feed to a *)
(* lineage head through lookups that lag; one with the owner's key commits *)
(* roots and publishes them: right after the commit, or, local-first, from *)
(* the syncer's thread when the ladder says a root is confirmed.           *)
(*                                                                         *)
(* The coroutines of an instance share one event loop and give way where   *)
(* they await.  The syncer's thread holds the store's mutex for as long as *)
(* it is inside mark_confirmed, listeners included.                        *)
(***************************************************************************)
EXTENDS Integers, Sequences, FiniteSetsExt

CONSTANTS
    Writer, Reader,  \* instances that write, and that only read
    Root, NoRoot,
    Modes,           \* whether the writers have a local store: what may be, out of BOOLEAN
    Faults,          \* what may go wrong, out of FaultNames
    MaxCommits,      \* bound: commits
    MaxTime          \* bound: the clock updates are stamped with

Instance == Writer \union Reader

FaultNames == {
    "fails",     \* a publication fails
    "loses",     \* an update that arrived is answered with an error
    "restarts",  \* a writer restarts, once its updates have spread
    "hurries",   \* a writer restarts at any time
    "reverts",   \* a commit arrives at a root of an earlier session
    "regresses", \* a lookup answers less than an earlier one of its instance
    "collides"}  \* the loop asks the store while the syncer's thread publishes

ASSUME NamesAssumption == Writer \cap Reader = {} /\ NoRoot \notin Root
ASSUME FaultsAssumption == Modes \subseteq BOOLEAN /\ Faults \subseteq FaultNames
ASSUME BoundsAssumption == MaxCommits \in Nat /\ MaxTime \in Nat

VARIABLES
    soc,        \* the feed: its updates in the order of their indices, from 0
    settled,    \* how many of them every lookup finds
    seen,       \* how many each instance's lookups have found
    head,       \* _resolve_head of the feed key, or NoRoot
    known,      \* _origin: the roots of the lineage
    counter,    \* _feed_state: the next index, at least; -1 before the first lookup
    dated,      \* _feed_times: the update whose time modified() tells, or 0
    looked,     \* a lookup's answer on its way to _refresh_feed: how many, or -1
    commit,     \* the commit under the lock
    pub,        \* the publication under way
    pending,    \* _feed_pending
    localFirst, \* whether the writers have a local store
    committed,  \* the store's roots
    confirmed,  \* those the network provably serves
    remote,     \* the remote-tracking root of the feed
    stuck,      \* the event loop waits for the store's mutex
    commits

feedVars == <<soc, settled>>
lookVars == <<seen, looked>>
lineVars == <<head, known>>
stateVars == <<counter, dated>>
storeVars == <<localFirst, committed, confirmed, remote>>
vars == <<soc, settled, seen, head, known, counter, dated, looked, commit, pub, pending, localFirst, committed, confirmed, remote, stuck, commits>>

Update == [root : Root, by : Writer, time : 0..MaxTime]

Idle == [stage |-> "idle", root |-> NoRoot]
Quiet == [stage |-> "quiet", root |-> NoRoot, index |-> 0]

FeedTypeOK ==
    /\ soc \in Seq(Update) /\ settled \in 0..Len(soc)
    /\ seen \in [Instance -> Nat] /\ looked \in [Instance -> Nat \union {-1}]
    /\ head \in [Instance -> Root \union {NoRoot}] /\ known \in [Instance -> SUBSET Root]
    /\ counter \in [Instance -> Nat \union {-1}] /\ dated \in [Instance -> Nat]
    /\ commit \in [Writer -> [stage : {"idle", "puts", "journals", "records", "publishes"},
                              root : Root \union {NoRoot}]]
    /\ pub \in [Writer -> [stage : {"quiet", "looks", "posts", "compares", "clears"},
                           root : Root \union {NoRoot}, index : Nat]]
    /\ pending \in [Writer -> Root \union {NoRoot}] /\ remote \in [Writer -> Root \union {NoRoot}]
    /\ committed \in [Writer -> SUBSET Root] /\ confirmed \in [Writer -> SUBSET Root]
    /\ localFirst \in BOOLEAN /\ stuck \in [Writer -> BOOLEAN] /\ commits \in Nat

Init ==
    /\ soc = <<>> /\ settled = 0
    /\ seen = [i \in Instance |-> 0] /\ looked = [i \in Instance |-> -1]
    /\ head = [i \in Instance |-> NoRoot] /\ known = [i \in Instance |-> {}]
    /\ counter = [i \in Instance |-> -1] /\ dated = [i \in Instance |-> 0]
    /\ commit = [w \in Writer |-> Idle] /\ pub = [w \in Writer |-> Quiet]
    /\ pending = [w \in Writer |-> NoRoot] /\ remote = [w \in Writer |-> NoRoot]
    /\ committed = [w \in Writer |-> {}] /\ confirmed = [w \in Writer |-> {}]
    /\ localFirst \in Modes /\ stuck = [w \in Writer |-> FALSE] /\ commits = 0

Greater(m, n) == IF m > n THEN m ELSE n

Runs(i) == i \in Writer => ~stuck[i]

\* The store's mutex, held through mark_confirmed.
Held(w) == localFirst /\ pub[w].stage # "quiet"

(***************************************************************************)
(* Lookups.                                                                *)
(***************************************************************************)
\* How many updates the node may find when an instance asks.
Answers(i) == {k \in settled..Len(soc) : "regresses" \in Faults \/ k >= seen[i]}

Propagates ==
    /\ settled < Len(soc) /\ settled' = Len(soc)
    /\ UNCHANGED <<soc, lookVars, lineVars, stateVars, commit, pub, pending, storeVars, stuck, commits>>

\* _refresh_feed, the cached resolution expired, asks and waits.
LooksUp(i) ==
    /\ Runs(i) /\ looked[i] = -1
    /\ \E k \in Answers(i) : looked' = [looked EXCEPT ![i] = k] /\ seen' = [seen EXCEPT ![i] = k]
    /\ UNCHANGED <<feedVars, lineVars, stateVars, commit, pub, pending, storeVars, stuck, commits>>

\* The root of the answer, NoRoot for a feed never written.
Resolved(i) == IF looked[i] = 0 THEN NoRoot ELSE soc[looked[i]].root

\* Mutants of Adopts: an empty feed's answer taken for a root; every other root
\* adopted; nothing adopted after the first sighting.
AdoptsNone(i, root) == head[i] = NoRoot \/ (head[i] # root /\ root \notin known[i])
AdoptsOwn(i, root) == root # NoRoot /\ head[i] # root
AdoptsOnce(i, root) == root # NoRoot /\ head[i] = NoRoot

\* The feed's first sighting, or somebody else's update.
Adopts(i, root) ==
    root # NoRoot /\ (head[i] = NoRoot \/ (head[i] # root /\ root \notin known[i]))

\* _refresh_feed goes on with the answer: an update to adopt or to ignore, or none.
Refreshes(i) ==
    /\ Runs(i) /\ looked[i] # -1
    /\ looked' = [looked EXCEPT ![i] = -1]
    /\ counter' = [counter EXCEPT ![i] = Greater(@, looked[i])]
    /\ dated' = [dated EXCEPT ![i] = IF looked[i] = 0 THEN @ ELSE looked[i]]
    /\ IF Adopts(i, Resolved(i))
       THEN /\ head' = [head EXCEPT ![i] = Resolved(i)]
            /\ known' = [known EXCEPT ![i] = @ \union {Resolved(i)}]
       ELSE UNCHANGED lineVars
    /\ UNCHANGED <<feedVars, seen, commit, pub, pending, storeVars, stuck, commits>>

(***************************************************************************)
(* Commits.                                                                *)
(***************************************************************************)
Unused(root) == \A w \in Writer : commit[w].root # root /\ root \notin known[w] \union committed[w]

\* The engine takes the head and puts the blobs; what it commits was staged
\* under a path, so the feed has been looked up.  The roots of an instance's
\* own lineage are left out: arriving at one of them closes _root_map into a
\* cycle (module Staging).
Commits(w, root) ==
    /\ Runs(w) /\ commit[w].stage = "idle" /\ commits < MaxCommits /\ counter[w] # -1
    /\ root \notin known[w] /\ ("reverts" \in Faults \/ Unused(root))
    /\ commit' = [commit EXCEPT ![w] = [stage |-> IF localFirst THEN "puts" ELSE "records", root |-> root]]
    /\ commits' = commits + 1
    /\ UNCHANGED <<feedVars, lookVars, lineVars, stateVars, pub, pending, storeVars, stuck>>

\* LocalFirstCommitEngine asks has_root on the loop, and so waits there for
\* the mutex.
Asks(w) ==
    /\ commit[w].stage = "puts"
    /\ IF Held(w)
       THEN "collides" \in Faults /\ ~stuck[w] /\ stuck' = [stuck EXCEPT ![w] = TRUE] /\ UNCHANGED commit
       ELSE /\ stuck' = [stuck EXCEPT ![w] = FALSE]
            /\ commit' = [commit EXCEPT ![w].stage = IF commit[w].root \in committed[w] THEN "records" ELSE "journals"]
    /\ UNCHANGED <<feedVars, lookVars, lineVars, stateVars, pub, pending, storeVars, commits>>

\* commit_root, on a thread of its own.
Journals(w) ==
    /\ commit[w].stage = "journals" /\ ~Held(w)
    /\ committed' = [committed EXCEPT ![w] = @ \union {commit[w].root}]
    /\ commit' = [commit EXCEPT ![w].stage = "records"]
    /\ UNCHANGED <<feedVars, lookVars, lineVars, stateVars, pub, pending, localFirst, confirmed, remote, stuck, commits>>

\* The rest of _commit_root, with _after_commit.
Records(w) ==
    LET root == commit[w].root
    IN  /\ Runs(w) /\ commit[w].stage = "records"
        /\ head' = [head EXCEPT ![w] = root]
        /\ known' = [known EXCEPT ![w] = @ \union {root}]
        /\ IF localFirst
           THEN /\ pending' = [pending EXCEPT ![w] = root]
                /\ commit' = [commit EXCEPT ![w] = Idle]
                /\ UNCHANGED pub
           ELSE /\ pub' = [pub EXCEPT ![w] = [stage |-> "looks", root |-> root, index |-> 0]]
                /\ commit' = [commit EXCEPT ![w].stage = "publishes"]
                /\ UNCHANGED pending
        /\ UNCHANGED <<feedVars, lookVars, stateVars, storeVars, stuck, commits>>

(***************************************************************************)
(* Publications.                                                           *)
(***************************************************************************)
\* Mutant of NextIndex: without the instance's own count.
NextIndexLookedUp(w, k) == k

\* The greater of a fresh lookup and the instance's own count.
NextIndex(w, k) == Greater(k, counter[w])

PublishLooksUp(w) ==
    /\ Runs(w) /\ pub[w].stage = "looks"
    /\ \E k \in Answers(w) :
          /\ pub' = [pub EXCEPT ![w].stage = "posts", ![w].index = NextIndex(w, k)]
          /\ seen' = [seen EXCEPT ![w] = k]
    /\ UNCHANGED <<feedVars, looked, lineVars, stateVars, commit, pending, storeVars, stuck, commits>>

\* The update arrives, at an index that is free; a second chunk at an index is dropped.
Stores(w) ==
    IF pub[w].index = Len(soc)
    THEN \E time \in LET last == IF soc = <<>> THEN 0 ELSE soc[Len(soc)].time
                     IN {last, last + 1} \cap 0..MaxTime :
             soc' = Append(soc, [root |-> pub[w].root, by |-> w, time |-> time])
    ELSE UNCHANGED soc

\* A commit that publishes by itself is over.
Ends(w) == IF localFirst THEN UNCHANGED commit ELSE commit' = [commit EXCEPT ![w] = Idle]

PublishPosts(w) ==
    /\ Runs(w) /\ pub[w].stage = "posts" /\ Stores(w)
    /\ counter' = [counter EXCEPT ![w] = Greater(@, pub[w].index + 1)]
    /\ dated' = [dated EXCEPT ![w] = pub[w].index + 1]
    /\ pub' = [pub EXCEPT ![w] = IF localFirst THEN [@ EXCEPT !.stage = "compares"] ELSE Quiet]
    /\ Ends(w)
    /\ UNCHANGED <<settled, lookVars, lineVars, pending, storeVars, stuck, commits>>

\* The lookup or the upload raises.  A commit hands the error on; a listener's
\* error is dropped, and the root stays pending.
PublishFails(w) ==
    /\ Runs(w) /\ pub[w].stage \in {"looks", "posts"}
    /\ \/ "fails" \in Faults /\ UNCHANGED soc
       \/ "loses" \in Faults /\ pub[w].stage = "posts" /\ Stores(w)
    /\ pub' = [pub EXCEPT ![w] = Quiet]
    /\ Ends(w)
    /\ UNCHANGED <<settled, lookVars, lineVars, stateVars, pending, storeVars, stuck, commits>>

\* _on_ladder_event, back on the syncer's thread: is the root still the pending one?
Compares(w) ==
    /\ pub[w].stage = "compares"
    /\ IF pending[w] = pub[w].root
       THEN pub' = [pub EXCEPT ![w].stage = "clears"] /\ UNCHANGED remote
       ELSE pub' = [pub EXCEPT ![w] = Quiet] /\ remote' = [remote EXCEPT ![w] = pub[w].root]
    /\ UNCHANGED <<feedVars, lookVars, lineVars, stateVars, commit, pending, localFirst, committed, confirmed, stuck, commits>>

\* The entry goes, whatever it is by now.
Clears(w) ==
    /\ pub[w].stage = "clears"
    /\ pending' = [pending EXCEPT ![w] = NoRoot]
    /\ remote' = [remote EXCEPT ![w] = pub[w].root]
    /\ pub' = [pub EXCEPT ![w] = Quiet]
    /\ UNCHANGED <<feedVars, lookVars, lineVars, stateVars, commit, localFirst, committed, confirmed, stuck, commits>>

\* Mutant of Publishes: without network_confirmed.
PublishesPending(w, served) == pending[w] # NoRoot

\* Whether the listener publishes, these roots being confirmed.
Publishes(w, served) == pending[w] \in served

\* mark_confirmed of a root whose ancestors are, on the syncer's thread, and its listener.
Confirms(w, root) ==
    /\ localFirst /\ pub[w] = Quiet /\ root \in committed[w] \ confirmed[w]
    /\ confirmed' = [confirmed EXCEPT ![w] = @ \union {root}]
    /\ pub' = IF Publishes(w, confirmed'[w])
              THEN [pub EXCEPT ![w] = [stage |-> "looks", root |-> pending[w], index |-> 0]]
              ELSE pub
    /\ UNCHANGED <<feedVars, lookVars, lineVars, stateVars, commit, pending, localFirst, committed, remote, stuck, commits>>

\* What an instance knows goes with it; the store and the feed stay.
RestartsAnew(w) ==
    /\ "hurries" \in Faults \/ ("restarts" \in Faults /\ settled = Len(soc))
    /\ counter[w] # -1
    /\ head' = [head EXCEPT ![w] = NoRoot] /\ known' = [known EXCEPT ![w] = {}]
    /\ counter' = [counter EXCEPT ![w] = -1] /\ dated' = [dated EXCEPT ![w] = 0]
    /\ looked' = [looked EXCEPT ![w] = -1]
    /\ commit' = [commit EXCEPT ![w] = Idle] /\ pub' = [pub EXCEPT ![w] = Quiet]
    /\ pending' = [pending EXCEPT ![w] = NoRoot] /\ stuck' = [stuck EXCEPT ![w] = FALSE]
    /\ UNCHANGED <<feedVars, seen, storeVars, commits>>

(***************************************************************************)
(* FeedOps.at: the update in force at a time, by bisection; 0 for none.    *)
(***************************************************************************)
\* Mutant of Early: strictly.
EarlyStrictly(u, when) == u.time < when

Early(u, when) == u.time <= when

\* One probe of the search.
Halved(ups, when, s) ==
    LET mid == (s.lo + s.hi) \div 2
    IN  IF Early(ups[mid], when) THEN [lo |-> mid + 1, hi |-> s.hi, best |-> mid]
                                 ELSE [lo |-> s.lo, hi |-> mid - 1, best |-> s.best]

At(ups, when) ==
    LET Bisects[s \in [lo : 1..Len(ups) + 1, hi : 0..Len(ups), best : 0..Len(ups)]] ==
            IF s.lo > s.hi THEN s.best ELSE Bisects[Halved(ups, when, s)]
    IN  IF ups = <<>> THEN 0
        ELSE IF Early(ups[Len(ups)], when) THEN Len(ups)
        ELSE Bisects[[lo |-> 1, hi |-> Len(ups) - 1, best |-> 0]]

WriterSteps(w) ==
    \/ \E root \in Root : Commits(w, root) \/ Confirms(w, root)
    \/ Asks(w) \/ Journals(w) \/ Records(w)
    \/ PublishLooksUp(w) \/ PublishPosts(w) \/ PublishFails(w) \/ Compares(w) \/ Clears(w)
    \/ RestartsAnew(w)

Next ==
    \/ Propagates
    \/ \E i \in Instance : LooksUp(i) \/ Refreshes(i)
    \/ \E w \in Writer : WriterSteps(w)

Spec == Init /\ [][Next]_vars

\* Updates spread, readers read on, a commit and a publication under way go on,
\* and the syncer's worker confirms what is committed.
Fairness ==
    /\ WF_vars(Propagates)
    /\ \A i \in Instance : WF_vars(LooksUp(i)) /\ WF_vars(Refreshes(i))
    /\ \A w \in Writer :
          /\ WF_vars(Asks(w)) /\ WF_vars(Journals(w)) /\ WF_vars(Records(w))
          /\ WF_vars(PublishLooksUp(w)) /\ WF_vars(PublishPosts(w))
          /\ WF_vars(Compares(w)) /\ WF_vars(Clears(w))
          /\ WF_vars(\E root \in Root : Confirms(w, root))

FairSpec == Spec /\ Fairness

(***************************************************************************)
(* Properties.                                                             *)
(***************************************************************************)
\* Local-first, the feed never points readers at a root the network cannot
\* serve yet (_after_commit, feedfs.py 254-258).
ServedOnly == localFirst => \A n \in 1..Len(soc) : soc[n].root \in confirmed[soc[n].by]

\* A publication that succeeds put its update into the feed: no index is used
\* twice (_bump_feed_state, feedfs.py 189-193).
IndicesFresh ==
    [][\A w \in Writer : pub[w].stage = "posts" /\ counter'[w] > pub[w].index => soc' # soc]_vars

\* A lookup never replaces a head the instance committed or adopted later
\* (_refresh_feed, feedfs.py 143-145).
NeverRolledBack ==
    [][\A w \in Writer : head[w] # NoRoot /\ looked[w] # -1 /\ looked'[w] = -1 => head'[w] \in {head[w], NoRoot}]_vars

\* A pin at a time resolves to the newest update not after it (FeedOps.at,
\* feeds.py 177-179), whichever update the node knows last.
AtInForce ==
    \A k \in settled..Len(soc), when \in 0..MaxTime :
        At(SubSeq(soc, 1, k), when) = Max({0} \union {n \in 1..k : soc[n].time <= when})

\* Whoever reads the feed ends at its last update (feedfs.py 15-17).
FollowsFeed ==
    \A i \in Reader : <>[](soc = <<>> \/ head[i] = soc[Len(soc)].root)

(***************************************************************************)
(* What the documentation says and the code does not keep.                 *)
(***************************************************************************)
\* Listeners are called with the store's lock released (localstore.py 320-322):
\* a loop that a listener waits for never waits for that lock.
LoopServesListener == \A w \in Writer : stuck[w] => pub[w].stage \notin {"looks", "posts"}

\* modified() tells the time of the update the view resolves to (feedfs.py 84-85).
TimeOfHead ==
    \A i \in Instance : dated[i] # 0 /\ pub = [w \in Writer |-> Quiet] /\ commit = [w \in Writer |-> Idle]
                         => soc[dated[i]].root = head[i]

\* The listener publishes the newest confirmed head (feedfs.py 257-258).
HeadGetsPublished ==
    \A w \in Writer, root \in Root : pending[w] = root ~> pending[w] # root
===============================================================================
