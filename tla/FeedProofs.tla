------------------------------ MODULE FeedProofs ------------------------------
(***************************************************************************)
(* The feed points at served roots only, whatever the instances, the roots *)
(* and the faults: any number of writers and readers, lookups that lag or  *)
(* regress, publications that fail, restarts at any time.  And a writer    *)
(* who has the feed to itself uses no index twice and keeps its head.  The *)
(* search for the update in force at a time finds it.                      *)
(***************************************************************************)
EXTENDS FeedPublish, Recursion, TLAPS

(***************************************************************************)
(* The inductive invariant.                                                *)
(***************************************************************************)
\* A lookup's answer is a part of the feed (feeds.py 141-170).
AnswersExist == \A i \in Instance : looked[i] <= Len(soc)

\* What a commit or a publication is at work on is a root.
WorksOnRoots ==
    \A w \in Writer :
        /\ commit[w].stage # "idle" => commit[w].root \in Root
        /\ pub[w].stage # "quiet" => pub[w].root \in Root

\* A publication of the listener is of a root that was confirmed before it
\* began, and confirmations are not taken back (feedfs.py 297-305).
PublishesServed ==
    localFirst => \A w \in Writer : pub[w].stage # "quiet" => pub[w].root \in confirmed[w]

FeedInv == FeedTypeOK /\ AnswersExist /\ WorksOnRoots /\ PublishesServed /\ ServedOnly

CommitStage == {"idle", "puts", "journals", "records", "publishes"}
PubStage == {"quiet", "looks", "posts", "compares", "clears"}
CommitRec == [stage : CommitStage, root : Root \union {NoRoot}]
PubRec == [stage : PubStage, root : Root \union {NoRoot}, index : Nat]

LEMMA GreaterTyped == \A m, n \in Nat \union {-1} : Greater(m, n) \in Nat \union {-1} /\ (n \in Nat => Greater(m, n) \in Nat)
BY DEF Greater

LEMMA FeedInit == Init => FeedInv
BY FaultsAssumption, NamesAssumption
DEF Init, FeedInv, FeedTypeOK, AnswersExist, WorksOnRoots, PublishesServed, ServedOnly, Idle, Quiet, Update, Instance

\* Moving one commit or publication on keeps the table's type.
LEMMA CommitMoves ==
    ASSUME NEW w \in Writer, commit \in [Writer -> CommitRec],
           \/ commit' = commit \/ commit' = [commit EXCEPT ![w] = Idle]
           \/ \E stage \in CommitStage : commit' = [commit EXCEPT ![w].stage = stage]
    PROVE  commit' \in [Writer -> CommitRec]
<1>1. Idle \in CommitRec
    BY DEF Idle, CommitRec, CommitStage
<1>2. ASSUME NEW stage \in CommitStage, commit' = [commit EXCEPT ![w].stage = stage]
      PROVE  commit' \in [Writer -> CommitRec]
    BY <1>2 DEF CommitRec
<1> QED
    BY <1>1, <1>2

LEMMA PubMoves ==
    ASSUME NEW w \in Writer, pub \in [Writer -> PubRec],
           \/ pub' = pub \/ pub' = [pub EXCEPT ![w] = Quiet]
           \/ pub' = [pub EXCEPT ![w] = [@ EXCEPT !.stage = "compares"]]
           \/ \E stage \in PubStage : pub' = [pub EXCEPT ![w].stage = stage]
    PROVE  /\ pub' \in [Writer -> PubRec]
           /\ \A o \in Writer : pub'[o].stage # "quiet" =>
                 pub'[o].root = pub[o].root /\ (pub[o].stage # "quiet" \/ o = w)
<1>1. Quiet \in PubRec /\ Quiet.stage = "quiet"
    BY DEF Quiet, PubRec, PubStage
<1>2. pub' = pub \/ \E p \in PubRec : pub' = [pub EXCEPT ![w] = p] /\ (p.stage # "quiet" => p.root = pub[w].root)
    <2>1. ASSUME NEW stage \in PubStage
          PROVE  [pub[w] EXCEPT !.stage = stage] \in PubRec /\ [pub[w] EXCEPT !.stage = stage].root = pub[w].root
        BY DEF PubRec
    <2>2. "compares" \in PubStage
        BY DEF PubStage
    <2> QED
        BY <1>1, <2>1, <2>2
<1> QED
    BY <1>2

\* So does counting an update.
LEMMA CounterMoves ==
    ASSUME NEW i \in Instance, counter \in [Instance -> Nat \union {-1}], NEW n \in Nat,
           counter' = counter \/ counter' = [counter EXCEPT ![i] = Greater(@, n)]
    PROVE  counter' \in [Instance -> Nat \union {-1}]
<1>1. Greater(counter[i], n) \in Nat \union {-1}
    BY DEF Greater
<1> QED
    BY <1>1

(***************************************************************************)
(* The feed grows by one update, or not at all.                            *)
(***************************************************************************)
LEMMA StoresTyped ==
    ASSUME FeedInv, NEW w \in Writer, pub[w].stage # "quiet", Stores(w) \/ UNCHANGED soc
    PROVE  /\ soc' \in Seq(Update) /\ Len(soc') \in Nat /\ Len(soc) <= Len(soc')
           /\ \A n \in 1..Len(soc') : (n \in 1..Len(soc) /\ soc'[n] = soc[n]) \/ (soc'[n].root = pub[w].root /\ soc'[n].by = w)
<1>1. soc \in Seq(Update) /\ pub[w].root \in Root
    BY DEF FeedInv, FeedTypeOK, WorksOnRoots
<1>2. CASE UNCHANGED soc
    BY <1>1, <1>2
<1>3. CASE Stores(w) /\ soc' # soc
    <2>1. PICK time \in 0..MaxTime : soc' = Append(soc, [root |-> pub[w].root, by |-> w, time |-> time])
        BY <1>3 DEF Stores
    <2>2. [root |-> pub[w].root, by |-> w, time |-> time] \in Update
        BY <1>1 DEF Update
    <2> QED
        BY <1>1, <2>1, <2>2
<1> QED
    BY <1>2, <1>3

(***************************************************************************)
(* Every step.                                                             *)
(***************************************************************************)
LEMMA FeedNext == FeedInv /\ [Next]_vars => FeedInv'
<1> SUFFICES ASSUME FeedInv, [Next]_vars PROVE FeedInv'
    OBVIOUS
<1> USE DEF FeedInv
<1>t. /\ soc \in Seq(Update) /\ settled \in 0..Len(soc) /\ Len(soc) \in Nat
      /\ commit \in [Writer -> CommitRec] /\ pub \in [Writer -> PubRec]
    BY DEF FeedTypeOK, CommitRec, PubRec, CommitStage, PubStage
<1>1. CASE Propagates
    BY <1>1, <1>t DEF Propagates, lookVars, lineVars, stateVars, storeVars, FeedTypeOK, AnswersExist, WorksOnRoots, PublishesServed, ServedOnly
<1>2. ASSUME NEW i \in Instance, LooksUp(i) PROVE FeedInv'
    <2>1. PICK k \in settled..Len(soc) : looked' = [looked EXCEPT ![i] = k] /\ seen' = [seen EXCEPT ![i] = k]
        BY <1>2 DEF LooksUp, Answers
    <2> QED
        BY <1>2, <1>t, <2>1
        DEF LooksUp, feedVars, lineVars, stateVars, storeVars, FeedTypeOK, AnswersExist, WorksOnRoots, PublishesServed, ServedOnly
<1>3. ASSUME NEW i \in Instance, Refreshes(i) PROVE FeedInv'
    <2>1. looked[i] \in 0..Len(soc)
        BY <1>3, <1>t DEF Refreshes, FeedTypeOK, AnswersExist
    <2>2. Resolved(i) \in Root \union {NoRoot}
        <3>1. looked[i] # 0 => soc[looked[i]] \in Update
            BY <1>t, <2>1
        <3> QED
            BY <3>1 DEF Resolved, Update
    <2>3. counter' \in [Instance -> Nat \union {-1}] /\ dated' \in [Instance -> Nat]
        BY <1>3, <2>1, GreaterTyped DEF Refreshes, FeedTypeOK
    <2>4. head' \in [Instance -> Root \union {NoRoot}] /\ known' \in [Instance -> SUBSET Root]
        <3>1. CASE Adopts(i, Resolved(i))
            <4>1. Resolved(i) \in Root
                BY <2>2, <3>1 DEF Adopts
            <4>2. head' = [head EXCEPT ![i] = Resolved(i)] /\ known' = [known EXCEPT ![i] = @ \union {Resolved(i)}]
                BY <1>3, <3>1 DEF Refreshes
            <4> QED
                BY <4>1, <4>2 DEF FeedTypeOK
        <3>2. CASE ~Adopts(i, Resolved(i))
            BY <1>3, <3>2 DEF Refreshes, lineVars, FeedTypeOK
        <3> QED
            BY <3>1, <3>2
    <2>5. looked' = [looked EXCEPT ![i] = -1] /\ UNCHANGED <<feedVars, seen, commit, pub, pending, storeVars, stuck, commits>>
        BY <1>3 DEF Refreshes
    <2> QED
        BY <2>3, <2>4, <2>5, <1>t
        DEF feedVars, storeVars, FeedTypeOK, AnswersExist, WorksOnRoots, PublishesServed, ServedOnly
<1>4. ASSUME NEW w \in Writer, WriterSteps(w) PROVE FeedInv'
    <2>1. ASSUME NEW root \in Root, Commits(w, root) PROVE FeedInv'
        <3>1. commit' \in [Writer -> CommitRec]
            BY <1>t, <2>1 DEF Commits, CommitRec, CommitStage
        <3>2. WorksOnRoots'
            BY <1>t, <2>1 DEF Commits, WorksOnRoots, CommitRec
        <3> QED
            BY <2>1, <3>1, <3>2, <1>t
            DEF Commits, feedVars, lookVars, lineVars, stateVars, storeVars, FeedTypeOK, AnswersExist, PublishesServed, ServedOnly,
                CommitRec, CommitStage
    <2>2. ASSUME NEW root \in Root, Confirms(w, root) PROVE FeedInv'
        <3>1. confirmed' \in [Writer -> SUBSET Root] /\ \A o \in Writer : confirmed[o] \subseteq confirmed'[o]
            BY <2>2 DEF Confirms, FeedTypeOK
        <3>2. pub' \in [Writer -> PubRec]
            BY <1>t, <2>2 DEF Confirms, FeedTypeOK, PubRec, PubStage
        <3>3. \A o \in Writer : pub'[o].stage # "quiet" => pub'[o].root \in confirmed'[o] /\ pub'[o].root \in Root
            <4>1. CASE pub' = pub
                BY <4>1, <2>2, <3>1 DEF WorksOnRoots, PublishesServed, Confirms
            <4>2. CASE pub' # pub
                <5>1. pending[w] \in confirmed'[w] /\ pub' = [pub EXCEPT ![w] = [stage |-> "looks", root |-> pending[w], index |-> 0]]
                    BY <2>2, <4>2 DEF Confirms, Publishes
                <5> QED
                    BY <5>1, <2>2, <3>1, <1>t DEF WorksOnRoots, PublishesServed, Confirms
            <4> QED
                BY <4>1, <4>2
        <3>4. ServedOnly'
            BY <2>2, <3>1, <1>t DEF Confirms, feedVars, ServedOnly, Update
        <3> QED
            BY <2>2, <3>1, <3>2, <3>3, <3>4, <1>t
            DEF Confirms, feedVars, lookVars, lineVars, stateVars, FeedTypeOK, AnswersExist, WorksOnRoots, PublishesServed,
                PubRec, PubStage
    <2>3. CASE Asks(w)
        <3>1. commit' = commit \/ \E stage \in {"records", "journals"} : commit' = [commit EXCEPT ![w].stage = stage]
            BY <2>3 DEF Asks
        <3>2. commit' \in [Writer -> CommitRec]
            BY <3>1, <1>t, CommitMoves DEF CommitStage
        <3>3. \A o \in Writer : commit'[o].root = commit[o].root /\ (commit'[o].stage # "idle" => commit[o].stage # "idle")
            BY <2>3, <3>1, <1>t DEF Asks, CommitRec
        <3>4. stuck' \in [Writer -> BOOLEAN]
            BY <2>3 DEF Asks, FeedTypeOK
        <3> QED
            BY <2>3, <3>2, <3>3, <3>4, <1>t
            DEF Asks, feedVars, lookVars, lineVars, stateVars, storeVars, FeedTypeOK, AnswersExist, WorksOnRoots,
                PublishesServed, ServedOnly,
                CommitRec, CommitStage
    <2>4. CASE Journals(w)
        <3>1. commit' \in [Writer -> CommitRec] /\ WorksOnRoots' /\ committed' \in [Writer -> SUBSET Root]
            BY <1>t, <2>4 DEF Journals, CommitRec, CommitStage, WorksOnRoots, FeedTypeOK
        <3> QED
            BY <2>4, <3>1, <1>t
            DEF Journals, feedVars, lookVars, lineVars, stateVars, FeedTypeOK, AnswersExist, PublishesServed, ServedOnly,
                CommitRec, CommitStage
    <2>5. CASE Records(w)
        <3>1. commit[w].root \in Root
            BY <2>5 DEF Records, WorksOnRoots
        <3>2. head' \in [Instance -> Root \union {NoRoot}] /\ known' \in [Instance -> SUBSET Root]
            BY <2>5, <3>1 DEF Records, FeedTypeOK
        <3>3. commit' = [commit EXCEPT ![w] = Idle] \/ commit' = [commit EXCEPT ![w].stage = "publishes"]
            BY <2>5 DEF Records
        <3>4. pub' = pub \/ pub' = [pub EXCEPT ![w] = [stage |-> "looks", root |-> commit[w].root, index |-> 0]]
            BY <2>5 DEF Records
        <3>5. [stage |-> "looks", root |-> commit[w].root, index |-> 0] \in PubRec
            BY <3>1 DEF PubRec, PubStage
        <3>6. commit' \in [Writer -> CommitRec]
            BY <3>3, <1>t, CommitMoves DEF CommitStage
        <3>a. pub' \in [Writer -> PubRec]
            BY <3>4, <3>5, <1>t
        <3>b. pending' = pending \/ pending' = [pending EXCEPT ![w] = commit[w].root]
            BY <2>5 DEF Records
        <3>7. pending' \in [Writer -> Root \union {NoRoot}]
            BY <3>1, <3>b DEF FeedTypeOK
        <3>8. WorksOnRoots'
            <4>1. \A o \in Writer : commit'[o].stage # "idle" => commit'[o].root \in Root
                BY <2>5, <3>1, <3>3, <1>t DEF Idle, WorksOnRoots, CommitRec
            <4>2. \A o \in Writer : pub'[o].stage # "quiet" => pub'[o].root \in Root
                BY <3>1, <3>4, <1>t DEF WorksOnRoots
            <4> QED
                BY <4>1, <4>2 DEF WorksOnRoots
        <3>9. PublishesServed'
            BY <2>5 DEF Records, storeVars, PublishesServed
        <3> QED
            BY <2>5, <3>2, <3>7, <3>8, <3>9, <3>6, <3>a, <1>t
            DEF Records, feedVars, lookVars, stateVars, storeVars, FeedTypeOK, AnswersExist, ServedOnly,
                CommitRec, CommitStage, PubRec, PubStage
    <2>6. CASE PublishLooksUp(w)
        <3>1. PICK k \in settled..Len(soc) :
                /\ pub' = [pub EXCEPT ![w].stage = "posts", ![w].index = NextIndex(w, k)]
                /\ seen' = [seen EXCEPT ![w] = k]
            BY <2>6 DEF PublishLooksUp, Answers
        <3>2. k \in Nat /\ NextIndex(w, k) \in Nat
            BY <1>t, <3>1 DEF NextIndex, Greater, FeedTypeOK, Instance
        <3>3. pub' \in [Writer -> PubRec]
            BY <1>t, <3>1, <3>2 DEF PubRec, PubStage
        <3>4. \A o \in Writer : pub'[o].root = pub[o].root /\ (pub'[o].stage # "quiet" => pub[o].stage # "quiet")
            BY <1>t, <2>6, <3>1 DEF PubRec, PublishLooksUp
        <3> QED
            BY <2>6, <3>1, <3>2, <3>3, <3>4, <1>t
            DEF PublishLooksUp, feedVars, lineVars, stateVars, storeVars, FeedTypeOK, AnswersExist, WorksOnRoots, PublishesServed,
                ServedOnly, PubRec, PubStage
    <2>7. ASSUME PublishPosts(w) \/ PublishFails(w) PROVE FeedInv'
        <3>1. pub[w].stage # "quiet" /\ (Stores(w) \/ UNCHANGED soc)
            BY <2>7 DEF PublishPosts, PublishFails
        <3>2. /\ soc' \in Seq(Update) /\ Len(soc') \in Nat /\ Len(soc) <= Len(soc')
              /\ \A n \in 1..Len(soc') : (n \in 1..Len(soc) /\ soc'[n] = soc[n]) \/ (soc'[n].root = pub[w].root /\ soc'[n].by = w)
            BY <3>1, StoresTyped
        <3>3. ServedOnly'
            BY <2>7, <3>1, <3>2 DEF PublishPosts, PublishFails, storeVars, ServedOnly, PublishesServed
        <3>a. counter' = counter \/ counter' = [counter EXCEPT ![w] = Greater(@, pub[w].index + 1)]
            BY <2>7 DEF PublishPosts, PublishFails, stateVars
        <3>b. dated' = dated \/ dated' = [dated EXCEPT ![w] = pub[w].index + 1]
            BY <2>7 DEF PublishPosts, PublishFails, stateVars
        <3>c. pub[w].index + 1 \in Nat
            BY <1>t DEF PubRec
        <3>4. counter' \in [Instance -> Nat \union {-1}] /\ dated' \in [Instance -> Nat]
            <4>1. w \in Instance /\ counter \in [Instance -> Nat \union {-1}] /\ dated \in [Instance -> Nat]
                BY DEF Instance, FeedTypeOK
            <4> HIDE DEF FeedInv
            <4> QED
                BY <3>a, <3>b, <3>c, <4>1, CounterMoves
        <3>d. commit' = commit \/ commit' = [commit EXCEPT ![w] = Idle]
            BY <2>7 DEF PublishPosts, PublishFails, Ends
        <3>e. pub' = [pub EXCEPT ![w] = Quiet] \/ pub' = [pub EXCEPT ![w] = [@ EXCEPT !.stage = "compares"]]
            BY <2>7 DEF PublishPosts, PublishFails
        <3>5. pub' \in [Writer -> PubRec] /\ commit' \in [Writer -> CommitRec]
            BY <3>d, <3>e, <1>t, CommitMoves, PubMoves
        <3>f. \A o \in Writer : pub'[o].stage # "quiet" => pub[o].stage # "quiet" /\ pub'[o].root = pub[o].root
            BY <3>1, <3>e, <1>t, PubMoves
        <3>g. \A o \in Writer : commit'[o].stage # "idle" => commit'[o] = commit[o]
            BY <3>d, <1>t DEF Idle, CommitRec
        <3>6. WorksOnRoots' /\ PublishesServed'
            BY <2>7, <3>f, <3>g DEF PublishPosts, PublishFails, storeVars, WorksOnRoots, PublishesServed
        <3>7. UNCHANGED <<settled, seen, looked, head, known, pending, localFirst, committed, confirmed, remote, stuck, commits>>
            BY <2>7 DEF PublishPosts, PublishFails, lookVars, lineVars, storeVars
        <3>8. FeedTypeOK'
            BY <3>2, <3>4, <3>5, <3>7, <1>t DEF FeedTypeOK, PubRec, PubStage, CommitRec, CommitStage
        <3>9. AnswersExist'
            <4>1. \A i \in Instance : looked[i] \in Nat \union {-1} /\ looked[i] <= Len(soc)
                BY DEF FeedTypeOK, AnswersExist
            <4> HIDE DEF FeedInv
            <4> QED
                BY <4>1, <3>2, <3>7, <1>t DEF AnswersExist
        <3> QED
            BY <3>3, <3>6, <3>8, <3>9
    <2>8. ASSUME Compares(w) \/ Clears(w) PROVE FeedInv'
        <3>1. pub[w].root \in Root
            BY <2>8 DEF Compares, Clears, WorksOnRoots
        <3>a. pub' = [pub EXCEPT ![w] = Quiet] \/ pub' = [pub EXCEPT ![w].stage = "clears"]
            BY <2>8 DEF Compares, Clears
        <3>2. pub' \in [Writer -> PubRec]
            BY <3>a, <1>t, PubMoves DEF PubStage
        <3>3. remote' \in [Writer -> Root \union {NoRoot}] /\ pending' \in [Writer -> Root \union {NoRoot}]
            BY <2>8, <3>1 DEF Compares, Clears, FeedTypeOK
        <3>b. \A o \in Writer : pub'[o].stage # "quiet" => pub[o].stage # "quiet" /\ pub'[o].root = pub[o].root
            <4>1. pub[w].stage # "quiet"
                BY <2>8 DEF Compares, Clears
            <4> QED
                BY <4>1, <3>a, <1>t, PubMoves DEF PubStage
        <3>4. WorksOnRoots' /\ PublishesServed'
            BY <2>8, <3>b DEF Compares, Clears, WorksOnRoots, PublishesServed
        <3> QED
            BY <2>8, <3>2, <3>4, <3>3, <1>t
            DEF Compares, Clears, feedVars, lookVars, lineVars, stateVars, FeedTypeOK, AnswersExist, ServedOnly, PubRec, PubStage
    <2>9. CASE RestartsAnew(w)
        <3>1. WorksOnRoots' /\ PublishesServed'
            BY <2>9, <1>t DEF RestartsAnew, Idle, Quiet, storeVars, WorksOnRoots, PublishesServed, PubRec, CommitRec
        <3>2. pub' \in [Writer -> PubRec] /\ commit' \in [Writer -> CommitRec]
            BY <2>9, <1>t, CommitMoves, PubMoves DEF RestartsAnew
        <3>3. /\ head' \in [Instance -> Root \union {NoRoot}] /\ known' \in [Instance -> SUBSET Root]
              /\ counter' \in [Instance -> Nat \union {-1}] /\ dated' \in [Instance -> Nat]
              /\ looked' \in [Instance -> Nat \union {-1}]
              /\ pending' \in [Writer -> Root \union {NoRoot}] /\ stuck' \in [Writer -> BOOLEAN]
            BY <2>9 DEF RestartsAnew, FeedTypeOK
        <3>4. UNCHANGED <<soc, settled, seen, localFirst, committed, confirmed, remote, commits>>
            BY <2>9 DEF RestartsAnew, feedVars, storeVars
        <3>5. AnswersExist'
            BY <2>9, <3>4, <1>t DEF RestartsAnew, AnswersExist, FeedTypeOK
        <3>6. ServedOnly'
            BY <3>4 DEF ServedOnly
        <3>7. FeedTypeOK'
            BY <3>2, <3>3, <3>4 DEF FeedTypeOK, PubRec, PubStage, CommitRec, CommitStage
        <3> QED
            BY <3>1, <3>5, <3>6, <3>7
    <2> QED
        BY <1>4, <2>1, <2>2, <2>3, <2>4, <2>5, <2>6, <2>7, <2>8, <2>9 DEF WriterSteps
<1>5. CASE UNCHANGED vars
    BY <1>5 DEF vars, FeedTypeOK, AnswersExist, WorksOnRoots, PublishesServed, ServedOnly
<1> QED
    BY <1>1, <1>2, <1>3, <1>4, <1>5 DEF Next

(***************************************************************************)
(* A writer who has the feed to itself.  What it counts and knows of the   *)
(* feed is then right, however lookups lag, if no answer to a publication  *)
(* is lost and a restart waits until the feed has spread.                  *)
(***************************************************************************)
CalmFaults == Faults \intersect {"loses", "hurries"} = {}

\* Until its first lookup an instance has nothing under way, and the lookup
\* finds the whole feed.
StartsOver(w) ==
    counter[w] = -1 =>
        /\ settled = Len(soc) /\ looked[w] \in {-1, Len(soc)}
        /\ head[w] = NoRoot /\ pending[w] = NoRoot
        /\ commit[w].stage = "idle" /\ pub[w].stage = "quiet"

\* Then it counts every update, and posts the next one (feedfs.py 189-193).
CountsAll(w) ==
    /\ counter[w] # -1 => counter[w] = Len(soc)
    /\ pub[w].stage = "posts" => pub[w].index = Len(soc)

\* What it is about to publish, and every update a lookup may still find, or
\* has found, it knows for its own (feedfs.py 143-157).
KnowsItsOwn(w) ==
    /\ pub[w].stage # "quiet" => pub[w].root \in known[w]
    /\ pending[w] \in known[w] \union {NoRoot}
    /\ counter[w] # -1 =>
          \A n \in 1..Len(soc) : n >= settled \/ n = looked[w] => soc[n].root \in known[w]

OwnInv(w) == StartsOver(w) /\ CountsAll(w) /\ KnowsItsOwn(w)

LEMMA OwnInit == ASSUME NEW w \in Writer, Init PROVE OwnInv(w)
BY DEF Init, OwnInv, StartsOver, CountsAll, KnowsItsOwn, Quiet, Idle, Instance

LEMMA OwnNext ==
    ASSUME NEW w \in Writer, Writer = {w}, CalmFaults, FeedInv, OwnInv(w), [Next]_vars
    PROVE  OwnInv(w)'
<1>t. /\ soc \in Seq(Update) /\ settled \in 0..Len(soc) /\ Len(soc) \in Nat
      /\ looked \in [Instance -> Nat \union {-1}] /\ counter \in [Instance -> Nat \union {-1}]
      /\ head \in [Instance -> Root \union {NoRoot}] /\ known \in [Instance -> SUBSET Root]
      /\ pending \in [Writer -> Root \union {NoRoot}] /\ confirmed \in [Writer -> SUBSET Root]
      /\ commit \in [Writer -> CommitRec] /\ pub \in [Writer -> PubRec]
      /\ looked[w] <= Len(soc) /\ w \in Instance
    BY DEF FeedInv, FeedTypeOK, AnswersExist, Instance, CommitRec, PubRec, CommitStage, PubStage
<1>r. \A n \in 1..Len(soc) : soc[n].root \in Root
    <2>1. \A n \in 1..Len(soc) : soc[n] \in Update
        BY <1>t
    <2> QED
        BY <2>1 DEF Update
<1>o. StartsOver(w) /\ CountsAll(w) /\ KnowsItsOwn(w)
    BY DEF OwnInv
<1>n. NoRoot \notin Root
    BY NamesAssumption
<1> USE DEF OwnInv, StartsOver, CountsAll, KnowsItsOwn
<1>1. CASE Propagates
    BY <1>1, <1>t, <1>o DEF Propagates, lookVars, lineVars, stateVars
<1>2. ASSUME NEW i \in Instance, LooksUp(i) PROVE OwnInv(w)'
    BY <1>2, <1>t, <1>o DEF LooksUp, Answers, feedVars, lineVars, stateVars
<1>3. ASSUME NEW i \in Instance, Refreshes(i) PROVE OwnInv(w)'
    <2>0. UNCHANGED <<soc, settled, commit, pub, pending>>
        BY <1>3 DEF Refreshes, feedVars
    <2>1. CASE i # w
        <3>1. counter'[w] = counter[w] /\ looked'[w] = looked[w] /\ head'[w] = head[w] /\ known'[w] = known[w]
            BY <1>3, <2>1, <1>t DEF Refreshes, lineVars
        <3> QED
            BY <2>0, <3>1, <1>t, <1>o
    <2>2. CASE i = w
        <3>1. looked[w] \in 0..Len(soc) /\ looked'[w] = -1 /\ counter'[w] = Len(soc)
            BY <1>3, <2>2, <1>t, <1>o DEF Refreshes, Greater
        <3>2. known[w] \subseteq known'[w]
            BY <1>3, <2>2, <1>t DEF Refreshes, lineVars
        <3>3. ASSUME NEW n \in 1..Len(soc), n >= settled PROVE soc[n].root \in known'[w]
            <4>1. CASE counter[w] # -1
                BY <3>2, <3>3, <4>1, <1>o
            <4>2. CASE counter[w] = -1
                <5>1. n = Len(soc) /\ looked[w] = Len(soc) /\ looked[w] # 0
                    BY <3>1, <3>3, <4>2, <1>o, <1>t
                <5>2. Resolved(w) = soc[n].root /\ Adopts(w, Resolved(w))
                    BY <5>1, <4>2, <1>o, <1>r, <1>n DEF Resolved, Adopts
                <5> QED
                    BY <5>2, <1>3, <2>2, <1>t DEF Refreshes
            <4> QED
                BY <4>1, <4>2
        <3> QED
            BY <2>0, <3>1, <3>2, <3>3, <1>t, <1>o
    <2> QED
        BY <2>1, <2>2
<1>4. CASE WriterSteps(w)
    <2>1. ASSUME NEW root \in Root, Commits(w, root) PROVE OwnInv(w)'
        BY <2>1, <1>t, <1>o DEF Commits, feedVars, lookVars, lineVars, stateVars
    <2>2. ASSUME NEW root \in Root, Confirms(w, root) PROVE OwnInv(w)'
        <3>1. pub'[w] = pub[w] \/ (pending[w] \in Root /\ pub'[w].stage = "looks" /\ pub'[w].root = pending[w])
            <4>1. confirmed'[w] \subseteq Root
                BY <2>2, <1>t DEF Confirms
            <4> QED
                BY <2>2, <4>1, <1>t DEF Confirms, Publishes
        <3> QED
            BY <2>2, <3>1, <1>t, <1>o, <1>n DEF Confirms, feedVars, lookVars, lineVars, stateVars
    <2>3. CASE Asks(w) \/ Journals(w)
        <3>1. commit[w].stage # "idle"
            BY <2>3 DEF Asks, Journals
        <3> QED
            BY <2>3, <3>1, <1>t, <1>o DEF Asks, Journals, feedVars, lookVars, lineVars, stateVars
    <2>4. CASE Records(w)
        <3>1. commit[w].stage # "idle" /\ known'[w] = known[w] \union {commit[w].root}
            BY <2>4, <1>t DEF Records
        <3>2. pub'[w] = pub[w] \/ (pub'[w].stage = "looks" /\ pub'[w].root = commit[w].root)
            BY <2>4, <1>t DEF Records
        <3>3. pending'[w] = pending[w] \/ pending'[w] = commit[w].root
            BY <2>4, <1>t DEF Records
        <3> QED
            BY <2>4, <3>1, <3>2, <3>3, <1>t, <1>o DEF Records, feedVars, lookVars, stateVars
    <2>5. CASE PublishLooksUp(w)
        <3>1. PICK k \in settled..Len(soc) : pub' = [pub EXCEPT ![w].stage = "posts", ![w].index = NextIndex(w, k)]
            BY <2>5 DEF PublishLooksUp, Answers
        <3>2. counter[w] = Len(soc) /\ NextIndex(w, k) = Len(soc)
            BY <2>5, <3>1, <1>t, <1>o DEF PublishLooksUp, NextIndex, Greater
        <3>3. pub'[w].stage = "posts" /\ pub'[w].index = Len(soc) /\ pub'[w].root = pub[w].root
            BY <3>1, <3>2, <1>t DEF PubRec
        <3> QED
            BY <2>5, <3>2, <3>3, <1>t, <1>o DEF PublishLooksUp, feedVars, lineVars, stateVars
    <2>6. CASE PublishPosts(w)
        <3>1. counter[w] = Len(soc) /\ pub[w].index = Len(soc) /\ pub[w].root \in known[w]
            BY <2>6, <1>o DEF PublishPosts
        <3>2. PICK time \in 0..MaxTime : soc' = Append(soc, [root |-> pub[w].root, by |-> w, time |-> time])
            BY <2>6, <3>1 DEF PublishPosts, Stores
        <3>3. Len(soc') = Len(soc) + 1 /\ soc'[Len(soc) + 1].root = pub[w].root
              /\ \A n \in 1..Len(soc) : soc'[n] = soc[n]
            BY <3>2, <1>t
        <3>4. counter'[w] = Len(soc')
            BY <2>6, <3>1, <3>3, <1>t DEF PublishPosts, Greater
        <3>5. pub'[w].stage \in {"compares", "quiet"} /\ (pub'[w].stage = "compares" => pub'[w].root = pub[w].root)
            BY <2>6, <1>t DEF PublishPosts, Quiet, PubRec
        <3>6. UNCHANGED <<settled, looked, head, known, pending>>
            BY <2>6 DEF PublishPosts, lookVars, lineVars
        <3>7. \A n \in 1..Len(soc') : n >= settled \/ n = looked[w] => soc'[n].root \in known[w]
            BY <3>1, <3>3, <1>t, <1>o
        <3> QED
            BY <3>1, <3>3, <3>4, <3>5, <3>6, <3>7, <1>t, <1>o
    <2>7. CASE PublishFails(w)
        BY <2>7, <1>t, <1>o DEF PublishFails, CalmFaults, Ends, Quiet, Idle, lookVars, lineVars, stateVars
    <2>8. CASE Compares(w) \/ Clears(w)
        <3>1. pub'[w].stage \in {"clears", "quiet"} /\ (pub'[w].stage = "clears" => pub'[w].root = pub[w].root)
              /\ pub[w].stage # "quiet"
            BY <2>8, <1>t DEF Compares, Clears, Quiet, PubRec
        <3> QED
            BY <2>8, <3>1, <1>t, <1>o DEF Compares, Clears, feedVars, lookVars, lineVars, stateVars
    <2>9. CASE RestartsAnew(w)
        BY <2>9, <1>t, <1>o DEF RestartsAnew, CalmFaults, Quiet, Idle, feedVars
    <2> QED
        BY <1>4, <2>1, <2>2, <2>3, <2>4, <2>5, <2>6, <2>7, <2>8, <2>9 DEF WriterSteps
<1>5. CASE UNCHANGED vars
    BY <1>5, <1>o DEF vars
<1> QED
    BY <1>1, <1>2, <1>3, <1>4, <1>5 DEF Next

(***************************************************************************)
(* The search for the update in force at a time.                           *)
(***************************************************************************)
\* What the search depends on, one step of it, and the function it computes.
Span(ups) == [lo : 1..Len(ups) + 1, hi : 0..Len(ups), best : 0..Len(ups)]
Probe(ups, when, g, s) == IF s.lo > s.hi THEN s.best ELSE g[Halved(ups, when, s)]
Bisection(ups, when) == CHOOSE f : f = [s \in Span(ups) |-> Probe(ups, when, f, s)]

LEMMA AtBisects ==
    ASSUME NEW ups, NEW when
    PROVE  At(ups, when) = IF ups = <<>> THEN 0
                           ELSE IF Early(ups[Len(ups)], when) THEN Len(ups)
                           ELSE Bisection(ups, when)[[lo |-> 1, hi |-> Len(ups) - 1, best |-> 0]]
BY Zenon DEF At, Bisection, Span, Probe

LEMMA Halves ==
    ASSUME NEW ups, Len(ups) \in Nat, NEW when, NEW s \in Span(ups), s.lo <= s.hi
    PROVE  LET mid == (s.lo + s.hi) \div 2
               half == Halved(ups, when, s)
           IN  /\ mid \in s.lo..s.hi /\ mid \in 1..Len(ups) /\ half \in Span(ups)
               /\ IF Early(ups[mid], when) THEN half.lo = mid + 1 /\ half.hi = s.hi /\ half.best = mid
                                           ELSE half.lo = s.lo /\ half.hi = mid - 1 /\ half.best = s.best
<1> DEFINE mid == (s.lo + s.hi) \div 2
<1>1. s.lo \in 1..Len(ups) + 1 /\ s.hi \in 0..Len(ups) /\ s.best \in 0..Len(ups)
    BY DEF Span
<1>2. mid \in s.lo..s.hi
    BY <1>1
<1>3. mid \in 1..Len(ups) /\ mid + 1 \in 1..Len(ups) + 1 /\ mid - 1 \in 0..Len(ups) /\ mid \in 0..Len(ups)
    BY <1>1, <1>2
<1>4. Halved(ups, when, s) = IF Early(ups[mid], when) THEN [lo |-> mid + 1, hi |-> s.hi, best |-> mid]
                                                    ELSE [lo |-> s.lo, hi |-> mid - 1, best |-> s.best]
    BY DEF Halved
<1> HIDE DEF mid
<1>5. [lo |-> mid + 1, hi |-> s.hi, best |-> mid] \in Span(ups) /\ [lo |-> s.lo, hi |-> mid - 1, best |-> s.best] \in Span(ups)
    BY <1>1, <1>3 DEF Span
<1> QED
    BY <1>2, <1>3, <1>4, <1>5 DEF mid

LEMMA BisectionRecurs ==
    ASSUME NEW ups, Len(ups) \in Nat, NEW when
    PROVE  Bisection(ups, when) = [s \in Span(ups) |-> Probe(ups, when, Bisection(ups, when), s)]
<1> DEFINE D == Span(ups)
           Z == 0..Len(ups)
           H == [g \in [D -> Z] |-> [s \in D |-> Probe(ups, when, g, s)]]
           size == [s \in D |-> IF s.lo > s.hi THEN 0 ELSE s.hi - s.lo + 1]
<1>1. \A s \in D : s.lo \in 1..Len(ups) + 1 /\ s.hi \in 0..Len(ups) /\ s.best \in Z
    BY DEF Span
<1>2. Z # {} /\ Len(ups) + 2 \in Nat
    OBVIOUS
<1>3. size \in [D -> Nat] /\ \A s \in D : size[s] < Len(ups) + 2
    BY <1>1
<1>4. ASSUME NEW s \in D, s.lo <= s.hi
      PROVE  Halved(ups, when, s) \in D /\ size[Halved(ups, when, s)] < size[s]
    <2> DEFINE mid == (s.lo + s.hi) \div 2
               half == Halved(ups, when, s)
    <2>1. /\ mid \in s.lo..s.hi /\ half \in Span(ups)
          /\ (half.lo = mid + 1 /\ half.hi = s.hi) \/ (half.lo = s.lo /\ half.hi = mid - 1)
        <3> HIDE DEF mid
        <3> QED
            BY <1>4, Halves DEF mid
    <2> HIDE DEF mid, half
    <2>2. half.hi - half.lo < s.hi - s.lo
        BY <1>1, <1>4, <2>1
    <2>3. size[half] < size[s]
        BY <1>1, <1>4, <2>1, <2>2
    <2> QED
        BY <2>1, <2>3 DEF half
<1>5. ASSUME NEW g \in [D -> Z], NEW s \in D PROVE Probe(ups, when, g, s) \in Z
    <2> HIDE DEF D, Z, size
    <2>1. CASE s.lo > s.hi
        BY <1>1, <2>1 DEF Probe
    <2>2. CASE ~(s.lo > s.hi)
        <3>1. s.lo <= s.hi
            BY <1>1, <2>2 DEF Z
        <3> QED
            BY <1>4, <2>2, <3>1 DEF Probe
    <2> QED
        BY <2>1, <2>2
<1>6. H \in [[D -> Z] -> [D -> Z]]
    <2> HIDE DEF D, Z, size
    <2> QED
        BY <1>5
<1>7. ASSUME NEW g \in [D -> Z], NEW h \in [D -> Z], NEW s \in D,
             \A t \in D : size[t] < size[s] => g[t] = h[t]
      PROVE  H[g][s] = H[h][s]
    <2>0. s.lo > s.hi \/ s.lo <= s.hi
        BY <1>1
    <2> HIDE DEF D, Z, size
    <2>1. H[g][s] = Probe(ups, when, g, s) /\ H[h][s] = Probe(ups, when, h, s)
        OBVIOUS
    <2> HIDE DEF H
    <2>2. CASE s.lo > s.hi
        BY <2>1, <2>2 DEF Probe
    <2>3. CASE ~(s.lo > s.hi)
        <3>1. g[Halved(ups, when, s)] = h[Halved(ups, when, s)]
            BY <1>4, <1>7, <2>0, <2>3
        <3> QED
            BY <2>1, <2>3, <3>1 DEF Probe
    <2> QED
        BY <2>2, <2>3
<1>8. \E f \in [D -> Z] : f = H[f]
    <2>1. \A g, h \in [D -> Z], s \in D : (\A t \in D : size[t] < size[s] => g[t] = h[t]) => H[g][s] = H[h][s]
        <3> HIDE DEF D, Z, H, size
        <3> QED
            BY <1>7
    <2>2. size \in [D -> Nat]
        BY <1>2, <1>3
    <2> HIDE DEF D, Z, H, size
    <2>3. Descends(H, D, Z, size)
        BY <1>2, <1>6, <2>1, <2>2 DEF Descends
    <2> QED
        BY <2>3, RecursionDefines
<1>9. \E f : f = [s \in Span(ups) |-> Probe(ups, when, f, s)]
    BY <1>8
<1> QED
    BY <1>9 DEF Bisection

\* The updates in force by then come before the others.
EarlyFirst(ups, when) == \A m, n \in 1..Len(ups) : m <= n /\ Early(ups[n], when) => Early(ups[m], when)

\* They are the first "last" ones.
LastEarly(ups, when, last) == last \in 0..Len(ups) /\ \A n \in 1..Len(ups) : Early(ups[n], when) <=> n <= last

LEMMA BisectionFinds ==
    ASSUME NEW ups, Len(ups) \in Nat, NEW when, EarlyFirst(ups, when)
    PROVE  \A s \in Span(ups) :
              /\ s.best = s.lo - 1
              /\ \A n \in 1..Len(ups) : (n <= s.best => Early(ups[n], when)) /\ (n > s.hi => ~Early(ups[n], when))
              => LastEarly(ups, when, Bisection(ups, when)[s])
<1> DEFINE f == Bisection(ups, when)
           Between(s) == /\ s.best = s.lo - 1
                         /\ \A n \in 1..Len(ups) : /\ n <= s.best => Early(ups[n], when)
                                                   /\ n > s.hi => ~Early(ups[n], when)
           Good == {k \in Nat : \A s \in Span(ups) : s.hi - s.lo < k /\ Between(s) => LastEarly(ups, when, f[s])}
<1>1. \A s \in Span(ups) : s.lo \in 1..Len(ups) + 1 /\ s.hi \in 0..Len(ups) /\ s.best \in 0..Len(ups)
    BY DEF Span
<1>2. \A m, n \in 1..Len(ups) : m <= n /\ Early(ups[n], when) => Early(ups[m], when)
    BY DEF EarlyFirst
<1>3. \A s \in Span(ups) : f[s] = Probe(ups, when, f, s)
    <2>1. f = [s \in Span(ups) |-> Probe(ups, when, f, s)]
        BY BisectionRecurs
    <2> HIDE DEF f
    <2> QED
        BY <2>1
<1> HIDE DEF f
<1>4. ASSUME NEW s \in Span(ups), s.lo > s.hi, Between(s) PROVE LastEarly(ups, when, f[s])
    <2>1. f[s] = s.best
        BY <1>3, <1>4 DEF Probe
    <2> QED
        BY <1>1, <1>2, <1>4, <2>1 DEF LastEarly
<1>5. 0 \in Good
    BY <1>1, <1>4
<1>6. ASSUME NEW k \in Good PROVE k + 1 \in Good
    <2>1. k \in Nat
        OBVIOUS
    <2> SUFFICES ASSUME NEW s \in Span(ups), s.hi - s.lo < k + 1, Between(s) PROVE LastEarly(ups, when, f[s])
        OBVIOUS
    <2>2. CASE s.lo > s.hi
        BY <1>4, <2>2
    <2>3. CASE ~(s.lo > s.hi)
        <3> DEFINE mid == (s.lo + s.hi) \div 2
                   half == Halved(ups, when, s)
        <3>0. s.lo <= s.hi
            BY <1>1, <2>3
        <3>1. /\ mid \in s.lo..s.hi /\ mid \in 1..Len(ups) /\ half \in Span(ups)
              /\ IF Early(ups[mid], when) THEN half.lo = mid + 1 /\ half.hi = s.hi /\ half.best = mid
                                          ELSE half.lo = s.lo /\ half.hi = mid - 1 /\ half.best = s.best
            BY <3>0, Halves
        <3>2. f[s] = f[half]
            BY <1>3, <2>3 DEF Probe
        <3> HIDE DEF mid, half
        <3>3. half.hi - half.lo < k
            BY <1>1, <2>1, <3>0, <3>1
        <3>4. Between(half)
            <4>1. CASE Early(ups[mid], when)
                BY <1>1, <1>2, <3>1, <4>1
            <4>2. CASE ~Early(ups[mid], when)
                BY <1>1, <1>2, <3>1, <4>2
            <4> QED
                BY <4>1, <4>2
        <3> QED
            BY <3>1, <3>2, <3>3, <3>4
    <2> QED
        BY <2>2, <2>3
<1>7. Good = Nat
    <2>1. Good \in SUBSET Nat
        OBVIOUS
    <2> HIDE DEF Good
    <2> QED
        BY <1>5, <1>6, <2>1, SetInduction
<1> SUFFICES ASSUME NEW s \in Span(ups), Between(s) PROVE LastEarly(ups, when, f[s])
    BY DEF f
<1>8. Len(ups) + 1 \in Nat /\ s.hi - s.lo < Len(ups) + 1
    BY <1>1, <1>2
<1>9. Len(ups) + 1 \in Good
    BY <1>7, <1>8
<1> QED
    BY <1>8, <1>9

LEMMA AtFinds ==
    ASSUME NEW ups, Len(ups) \in Nat, ups # <<>> => Len(ups) # 0, ups = <<>> => Len(ups) = 0,
           NEW when, EarlyFirst(ups, when)
    PROVE  LastEarly(ups, when, At(ups, when))
<1>1. CASE ups = <<>>
    <2>1. At(ups, when) = 0
        BY <1>1, AtBisects
    <2> QED
        BY <1>1, <2>1 DEF LastEarly
<1>2. CASE ups # <<>> /\ Early(ups[Len(ups)], when)
    <2>1. At(ups, when) = Len(ups)
        BY <1>2, AtBisects
    <2> QED
        BY <1>2, <2>1 DEF LastEarly, EarlyFirst
<1>3. CASE ups # <<>> /\ ~Early(ups[Len(ups)], when)
    <2> DEFINE s == [lo |-> 1, hi |-> Len(ups) - 1, best |-> 0]
    <2>1. At(ups, when) = Bisection(ups, when)[s]
        BY <1>3, AtBisects
    <2>2. s \in Span(ups) /\ s.lo = 1 /\ s.hi = Len(ups) - 1 /\ s.best = 0
        BY <1>3 DEF Span
    <2> HIDE DEF s
    <2>3. \A n \in 1..Len(ups) : (n <= s.best => Early(ups[n], when)) /\ (n > s.hi => ~Early(ups[n], when))
        BY <1>3, <2>2 DEF EarlyFirst
    <2> QED
        BY <2>1, <2>2, <2>3, BisectionFinds
<1> QED
    BY <1>1, <1>2, <1>3

\* Updates of a feed are dated in the order of their indices (feeds.py 187-189).
TimesGrow == \A m, n \in 1..Len(soc) : m <= n => soc[m].time <= soc[n].time

LEMMA AtMax ==
    ASSUME soc \in Seq(Update), TimesGrow, NEW when \in Nat, NEW k \in 0..Len(soc)
    PROVE  At(SubSeq(soc, 1, k), when) = Max({0} \union {n \in 1..k : soc[n].time <= when})
<1> DEFINE ups == SubSeq(soc, 1, k)
           last == At(ups, when)
           S == {0} \union {n \in 1..k : soc[n].time <= when}
<1>1. Len(ups) = k /\ (\A n \in 1..k : ups[n] = soc[n]) /\ (ups = <<>> <=> k = 0)
    OBVIOUS
<1>2. \A n \in 1..k : soc[n].time \in Int
    <2>1. \A n \in 1..k : soc[n] \in Update
        OBVIOUS
    <2> QED
        BY <2>1, BoundsAssumption DEF Update
<1> HIDE DEF ups
<1>3. EarlyFirst(ups, when)
    BY <1>1, <1>2 DEF EarlyFirst, Early, TimesGrow
<1>4. LastEarly(ups, when, last)
    BY <1>1, <1>3, AtFinds
<1>5. last \in 0..k /\ \A n \in 1..k : soc[n].time <= when <=> n <= last
    BY <1>1, <1>4 DEF LastEarly, Early
<1> HIDE DEF last
<1>6. last \in S /\ (\A n \in S : last >= n) /\ S \subseteq Int
    BY <1>5
<1> HIDE DEF S
<1>7. \A m \in S : (\A n \in S : m >= n) => m = last
    BY <1>6
<1>8. Max(S) = last
    BY <1>6, <1>7 DEF Max
<1> QED
    BY <1>8 DEF S, last, ups

LEMMA TimesKeepGrowing ==
    ASSUME FeedInv, TimesGrow, [Next]_vars PROVE TimesGrow'
<1>1. UNCHANGED soc \/ \E w \in Writer : Stores(w)
    BY DEF Next, vars, Propagates, LooksUp, Refreshes, WriterSteps, Commits, Confirms, Asks, Journals, Records, PublishLooksUp,
           PublishPosts, PublishFails, Compares, Clears, RestartsAnew, feedVars
<1>2. soc \in Seq(Update) /\ Len(soc) \in Nat
    BY DEF FeedInv, FeedTypeOK
<1>3. \A n \in 1..Len(soc) : soc[n].time \in Int
    <2>1. \A n \in 1..Len(soc) : soc[n] \in Update
        BY <1>2
    <2> QED
        BY <2>1, BoundsAssumption DEF Update
<1>4. CASE UNCHANGED soc
    BY <1>4 DEF TimesGrow
<1>5. ASSUME NEW w \in Writer, Stores(w), soc' # soc PROVE TimesGrow'
    <2> DEFINE last == IF soc = <<>> THEN 0 ELSE soc[Len(soc)].time
    <2>1. PICK time \in {last, last + 1} : soc' = Append(soc, [root |-> pub[w].root, by |-> w, time |-> time])
        BY <1>5 DEF Stores
    <2>2. last \in Int /\ (soc # <<>> => last = soc[Len(soc)].time /\ Len(soc) \in 1..Len(soc))
        BY <1>2, <1>3
    <2> HIDE DEF last
    <2>3. /\ Len(soc') = Len(soc) + 1 /\ soc'[Len(soc) + 1].time = time
          /\ \A n \in 1..Len(soc) : soc'[n] = soc[n]
        BY <1>2, <2>1
    <2>4. \A n \in 1..Len(soc) : soc # <<>> /\ soc[n].time <= time
        BY <1>2, <1>3, <2>1, <2>2 DEF TimesGrow
    <2> QED
        BY <1>2, <1>3, <2>1, <2>2, <2>3, <2>4 DEF TimesGrow
<1> QED
    BY <1>1, <1>4, <1>5

(***************************************************************************)
(* The theorems.                                                           *)
(***************************************************************************)
\* Every variable of the instances and of the feed keeps its type (feedfs.py 76-90).
THEOREM FeedTyping == Spec => []FeedTypeOK
<1>1. FeedInv => FeedTypeOK
    BY DEF FeedInv
<1> QED
    BY <1>1, FeedInit, FeedNext, PTL DEF Spec

\* Local-first, no update ever points at a root that the network has not been
\* seen to serve, with any number of writers on the feed and under every fault
\* (feedfs.py 254-258).
THEOREM FeedServed == Spec => []ServedOnly
<1>1. FeedInv => ServedOnly
    BY DEF FeedInv
<1> QED
    BY <1>1, FeedInit, FeedNext, PTL DEF Spec

\* One writer who has the feed to itself, and whose answers are not lost, never
\* uses an index twice, however far lookups lag behind its updates (feedfs.py
\* 189-193).
THEOREM IndicesUsedOnce ==
    ASSUME NEW me \in Writer, Writer = {me}, CalmFaults PROVE Spec => IndicesFresh
<1> DEFINE Step == \A w \in Writer : pub[w].stage = "posts" /\ counter'[w] > pub[w].index => soc' # soc
<1> DEFINE Inv == FeedInv /\ OwnInv(me)
<1>1. Inv /\ [Next]_vars => [Step]_vars
    <2> SUFFICES ASSUME FeedInv, OwnInv(me), Next, pub[me].stage = "posts", counter'[me] > pub[me].index PROVE soc' # soc
        BY DEF vars
    <2>1. pub[me].index = Len(soc) /\ Len(soc) \in Nat /\ soc' = soc => counter'[me] > Len(soc)
        BY DEF OwnInv, CountsAll, FeedInv, FeedTypeOK
    <2>2. OwnInv(me)'
        BY OwnNext
    <2> QED
        BY <2>1, <2>2 DEF OwnInv, CountsAll, FeedInv, FeedTypeOK
<1>2. Init => Inv
    BY FeedInit, OwnInit
<1>3. Inv /\ [Next]_vars => Inv'
    BY FeedNext, OwnNext
<1> HIDE DEF Inv
<1> QED
    BY <1>1, <1>2, <1>3, PTL DEF Spec, IndicesFresh

\* Nor does a lookup that was under way ever replace the head it committed with
\* an older one, lookups that answer less than earlier ones included
\* (feedfs.py 143-157).
THEOREM HeadsStay ==
    ASSUME NEW me \in Writer, Writer = {me}, CalmFaults PROVE Spec => NeverRolledBack
<1> DEFINE Step == \A w \in Writer : head[w] # NoRoot /\ looked[w] # -1 /\ looked'[w] = -1 => head'[w] \in {head[w], NoRoot}
<1> DEFINE Inv == FeedInv /\ OwnInv(me)
<1>1. Inv /\ [Next]_vars => [Step]_vars
    <2> SUFFICES ASSUME FeedInv, OwnInv(me), Next, head[me] # NoRoot, looked[me] # -1, looked'[me] = -1
                 PROVE  head'[me] \in {head[me], NoRoot}
        BY DEF vars
    <2>t. /\ looked \in [Instance -> Nat \union {-1}] /\ head \in [Instance -> Root \union {NoRoot}]
          /\ looked[me] \in 0..Len(soc) /\ Len(soc) \in Nat /\ me \in Instance
        BY DEF FeedInv, FeedTypeOK, AnswersExist, Instance
    <2>1. CASE \E i \in Instance : Refreshes(i)
        <3>1. PICK i \in Instance : Refreshes(i)
            BY <2>1
        <3>2. i = me
            BY <3>1, <2>t DEF Refreshes
        <3>3. ~ Adopts(me, Resolved(me))
            <4>1. CASE looked[me] = 0
                BY <4>1 DEF Adopts, Resolved
            <4>2. CASE looked[me] # 0
                <5>1. Resolved(me) \in known[me]
                    BY <2>t, <4>2 DEF Resolved, OwnInv, StartsOver, KnowsItsOwn
                <5> QED
                    BY <5>1 DEF Adopts
            <4> QED
                BY <4>1, <4>2
        <3> QED
            BY <3>1, <3>2, <3>3 DEF Refreshes, lineVars
    <2>2. CASE ~ \E i \in Instance : Refreshes(i)
        <3>1. CASE RestartsAnew(me)
            BY <3>1, <2>t DEF RestartsAnew
        <3>2. CASE ~ RestartsAnew(me)
            <4>1. looked' = looked \/ \E i \in Instance : LooksUp(i)
                BY <2>2, <3>2 DEF Next, WriterSteps, Propagates, Commits, Confirms, Asks, Journals, Records, PublishLooksUp,
                    PublishPosts, PublishFails, Compares, Clears, lookVars
            <4>2. looked'[me] # -1
                BY <4>1, <2>t DEF LooksUp, Answers, FeedInv, FeedTypeOK
            <4> QED
                BY <4>2
        <3> QED
            BY <3>1, <3>2
    <2> QED
        BY <2>1, <2>2
<1>2. Init => Inv
    BY FeedInit, OwnInit
<1>3. Inv /\ [Next]_vars => Inv'
    BY FeedNext, OwnNext
<1> HIDE DEF Inv
<1> QED
    BY <1>1, <1>2, <1>3, PTL DEF Spec, NeverRolledBack

\* However long the feed, and whichever of its updates the node knows last, the
\* search for the update in force at a time ends at the newest one not after it,
\* or at none when there is none (feeds.py 174-213).
THEOREM PinsResolve == Spec => []AtInForce
<1>1. ASSUME FeedInv, TimesGrow PROVE AtInForce
    <2>1. soc \in Seq(Update) /\ settled..Len(soc) \subseteq 0..Len(soc) /\ 0..MaxTime \subseteq Nat
        BY <1>1 DEF FeedInv, FeedTypeOK
    <2> QED
        BY <1>1, <2>1, AtMax DEF AtInForce
<1>2. Init => FeedInv /\ TimesGrow
    BY FeedInit DEF Init, TimesGrow
<1>3. FeedInv /\ TimesGrow /\ [Next]_vars => (FeedInv /\ TimesGrow)'
    BY FeedNext, TimesKeepGrowing
<1> QED
    BY <1>1, <1>2, <1>3, PTL DEF Spec

===============================================================================
