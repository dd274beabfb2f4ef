----------------------------- MODULE SyncerProofs -----------------------------
(***************************************************************************)
(* What the worker claims of a root is true, and it owes the store         *)
(* nothing, for any lineage, any list and any interleaving.                *)
(***************************************************************************)
EXTENDS Syncer, LocalStoreProofs, FiniteSetTheorems

Entry == [root : Root, blobs : SUBSET Blob]

(***************************************************************************)
(* The order of the list: a parent is not as deep as its child.            *)
(***************************************************************************)
Closed(S) == \A x \in S : parent[x] \in S \union {NoRoot}

LEMMA AncestryClosed ==
    ASSUME TypeOK, NEW r \in Root
    PROVE  r \in Ancestry(r) /\ Ancestry(r) \in SUBSET Root /\ Closed(Ancestry(r))
BY DEF Ancestry, Closed, TypeOK

LEMMA AncestryLeast ==
    ASSUME NEW r \in Root, NEW S \in SUBSET Root, r \in S, Closed(S)
    PROVE  Ancestry(r) \subseteq S
BY DEF Ancestry, Closed

LEMMA AncestryOfParent ==
    ASSUME TypeOK, FoldInv, NEW r \in Fold, parent[r] # NoRoot
    PROVE  Ancestry(parent[r]) \subseteq Ancestry(r) /\ r \notin Ancestry(parent[r])
<1> DEFINE p == parent[r]
<1>p. r \in Root /\ p \in Fold /\ p \in Root
    BY DEF Fold, FoldInv, LineageInv
<1>1. Ancestry(p) \subseteq Ancestry(r)
    <2>1. p \in Ancestry(r)
        BY <1>p, AncestryClosed DEF Closed
    <2> QED
        BY <1>p, <2>1, AncestryClosed, AncestryLeast
<1>2. ASSUME r \in Ancestry(p) PROVE FALSE
    <2> DEFINE S == {x \in Fold : r \in Ancestry(x)}
    <2>1. p \in S
        BY <1>p, <1>2
    <2>2. ASSUME NEW x \in S PROVE parent[x] \in S
        <3>1. CASE x = r
            BY <2>1, <3>1
        <3>2. CASE x # r
            <4>1. x \in Root /\ parent[x] \in Fold \union {NoRoot}
                BY DEF Fold, FoldInv, LineageInv
            <4>2. CASE parent[x] = NoRoot
                <5>1. Closed({x})
                    BY <4>2 DEF Closed
                <5>2. Ancestry(x) \subseteq {x}
                    BY <4>1, <5>1, AncestryLeast
                <5> QED
                    BY <3>2, <5>2
            <4>3. CASE parent[x] \in Fold
                <5> DEFINE T == {x} \union Ancestry(parent[x])
                <5>1. parent[x] \in Root
                    BY <4>3 DEF Fold
                <5>2. T \in SUBSET Root /\ x \in T /\ Closed(T)
                    BY <4>1, <5>1, AncestryClosed DEF Closed
                <5>3. Ancestry(x) \subseteq T
                    BY <4>1, <5>2, AncestryLeast
                <5> QED
                    BY <3>2, <4>3, <5>3
            <4> QED
                BY <4>1, <4>2, <4>3
        <3> QED
            BY <3>1, <3>2
    <2>3. S \in (SUBSET Fold) \ {{}}
        BY <2>1
    <2> QED
        BY <2>2, <2>3 DEF FoldInv, LineageInv
<1> QED
    BY <1>1, <1>2

LEMMA ParentShallower ==
    ASSUME TypeOK, FoldInv, NEW r \in Fold, parent[r] # NoRoot
    PROVE  /\ Cardinality(Ancestry(parent[r])) \in Nat /\ Cardinality(Ancestry(r)) \in Nat
           /\ Cardinality(Ancestry(parent[r])) < Cardinality(Ancestry(r))
<1>1. r \in Root /\ parent[r] \in Root
    BY DEF Fold, TypeOK
<1>2. r \in Ancestry(r) /\ Ancestry(r) \in SUBSET Root
    BY <1>1, AncestryClosed
<1>3. IsFiniteSet(Ancestry(r)) /\ IsFiniteSet(Ancestry(parent[r]))
    BY <1>1, <1>2, AncestryClosed, FiniteAssumption, FS_Subset
<1>4. Ancestry(parent[r]) \in SUBSET Ancestry(r) /\ Ancestry(parent[r]) # Ancestry(r)
    BY <1>2, AncestryOfParent
<1>5. Cardinality(Ancestry(parent[r])) \in Nat /\ Cardinality(Ancestry(r)) \in Nat
    BY <1>3, FS_CardinalityType
<1>6. /\ Cardinality(Ancestry(parent[r])) <= Cardinality(Ancestry(r))
      /\ Cardinality(Ancestry(parent[r])) # Cardinality(Ancestry(r))
    BY <1>3, <1>4, FS_Subset
<1> QED
    BY <1>5, <1>6

\* A root on the list whose parent is on it comes after its parent.
LEMMA ParentListedBefore ==
    ASSUME TypeOK, FoldInv, NEW roots \in SUBSET Fold, NEW s \in Orders(roots),
           NEW i \in DOMAIN s, parent[s[i]] \in roots
    PROVE  \E j \in DOMAIN s : j < i /\ s[j] = parent[s[i]]
<1>1. PICK j \in DOMAIN s : s[j] = parent[s[i]]
    BY DEF Orders
<1>2. s[i] \in Fold /\ parent[s[i]] # NoRoot
    BY RootAssumption DEF Orders, Fold
<1>3. ~ (i < j) /\ i # j
    <2>1. Cardinality(Ancestry(s[j])) < Cardinality(Ancestry(s[i]))
        BY <1>1, <1>2, ParentShallower
    <2>2. Cardinality(Ancestry(s[j])) \in Nat /\ Cardinality(Ancestry(s[i])) \in Nat
        BY <1>1, <1>2, ParentShallower
    <2> QED
        BY <2>1, <2>2 DEF Orders
<1>4. IsFiniteSet(roots)
    BY FiniteAssumption, FS_Subset DEF Fold
<1>5. i \in Nat /\ j \in Nat
    BY <1>4, FS_CardinalityType DEF Orders
<1> QED
    BY <1>1, <1>3, <1>5

LEMMA EntriesTyped ==
    ASSUME TypeOK, NEW roots \in SUBSET Root, NEW s \in Orders(roots)
    PROVE  /\ Entries(s) \in Seq(Entry) /\ DOMAIN Entries(s) = DOMAIN s
           /\ \A i \in DOMAIN s : s[i] \in roots
                 /\ Entries(s)[i].root = s[i] /\ Entries(s)[i].blobs = blobs[s[i]]
<1>1. IsFiniteSet(roots)
    BY FiniteAssumption, FS_Subset
<1> DEFINE n == Cardinality(roots)
<1>2. n \in Nat
    BY <1>1, FS_CardinalityType
<1>3. s \in [1..n -> roots]
    BY DEF Orders
<1> HIDE DEF n
<1>4. /\ DOMAIN Entries(s) = DOMAIN s
      /\ \A i \in DOMAIN s : Entries(s)[i] = [root |-> s[i], blobs |-> blobs[s[i]]]
    BY DEF Entries
<1>5. \A i \in DOMAIN s : s[i] \in roots /\ Entries(s)[i] \in Entry
    BY <1>3, <1>4 DEF Entry, TypeOK
<1>6. Entries(s) = [i \in 1..n |-> Entries(s)[i]]
    BY <1>3 DEF Entries
<1>7. Entries(s) \in [1..n -> Entry]
    BY <1>3, <1>5, <1>6
<1>8. Entries(s) \in Seq(Entry)
    BY <1>2, <1>7
<1> QED
    BY <1>4, <1>5, <1>8

\* A fresh list covers what its roots reach, if the parents that are not on
\* it have their trees on safe ground.
LEMMA EntriesCovered ==
    ASSUME TypeOK, FoldInv, NEW roots \in SUBSET Fold, NEW s \in Orders(roots),
           NEW ground, Foreign \subseteq ground,
           \A r \in roots : parent[r] \in Fold \ roots => Reach[parent[r]] \subseteq ground
    PROVE  Covered(Entries(s), ground)
<1> SUFFICES ASSUME NEW i \in DOMAIN s, NEW b \in Reach[s[i]],
                    b \notin blobs[s[i]] \union ground
             PROVE  \E j \in DOMAIN s : j < i /\ b \in Reach[s[j]]
    <2> DEFINE e == Entries(s)
    <2>1. roots \in SUBSET Root
        BY DEF Fold
    <2>2. /\ DOMAIN e = DOMAIN s
          /\ \A i \in DOMAIN s : e[i].root = s[i] /\ e[i].blobs = blobs[s[i]]
        BY <2>1, EntriesTyped
    <2> HIDE DEF e
    <2>3. Covered(e, ground)
        BY <2>2 DEF Covered
    <2> QED
        BY <2>3 DEF e
<1>1. s[i] \in roots
    BY DEF Orders
<1>2. parent[s[i]] # NoRoot /\ parent[s[i]] \in Fold /\ b \in Reach[parent[s[i]]]
    BY <1>1 DEF FoldInv, LineageInv, Owed
<1>3. parent[s[i]] \in roots
    BY <1>1, <1>2
<1> QED
    BY <1>2, <1>3, ParentListedBefore

LEMMA HeadTyped ==
    ASSUME NEW e \in Seq(Entry), e # <<>>
    PROVE  Head(e).root \in Root /\ Head(e).blobs \in SUBSET Blob /\ Tail(e) \in Seq(Entry)
<1>1. Head(e) \in Entry /\ Tail(e) \in Seq(Entry)
    OBVIOUS
<1> QED
    BY <1>1 DEF Entry

LEMMA CoveredHead ==
    ASSUME NEW e \in Seq(Entry), e # <<>>, NEW ground, Covered(e, ground)
    PROVE  Reach[Head(e).root] \subseteq Head(e).blobs \union ground
<1>1. 1 \in DOMAIN e /\ Head(e) = e[1] /\ \A j \in DOMAIN e : ~ (j < 1)
    OBVIOUS
<1> QED
    BY <1>1 DEF Covered

LEMMA CoveredTail ==
    ASSUME NEW e \in Seq(Entry), e # <<>>, NEW ground, Covered(e, ground),
           Reach[Head(e).root] \subseteq ground
    PROVE  Covered(Tail(e), ground)
<1> DEFINE t == Tail(e)
<1>1. /\ DOMAIN t = 1..(Len(e) - 1) /\ DOMAIN e = 1..Len(e) /\ Len(e) \in Nat
      /\ \A i \in DOMAIN t : t[i] = e[i + 1]
      /\ Head(e) = e[1]
    OBVIOUS
<1> HIDE DEF t
<1> SUFFICES ASSUME NEW i \in DOMAIN t, NEW b \in Reach[t[i].root],
                    b \notin t[i].blobs \union ground
             PROVE  \E j \in DOMAIN t : j < i /\ b \in Reach[t[j].root]
    BY DEF Covered, t
<1>2. i + 1 \in DOMAIN e /\ t[i] = e[i + 1]
    BY <1>1
<1>3. PICK j \in DOMAIN e : j < i + 1 /\ b \in Reach[e[j].root]
    BY <1>2 DEF Covered
<1>4. j # 1
    BY <1>1, <1>3
<1>5. j - 1 \in DOMAIN t /\ t[j - 1] = e[j] /\ j - 1 < i
    BY <1>1, <1>2, <1>3, <1>4
<1> QED
    BY <1>3, <1>5

LEMMA CoveredGrows ==
    ASSUME NEW e, NEW ground, NEW wider, Covered(e, ground), ground \subseteq wider
    PROVE  Covered(e, wider)
BY DEF Covered

(***************************************************************************)
(* What the worker does to the store is what LocalStore lets its worker do.*)
(***************************************************************************)
LEMMA StoreStep ==
    ASSUME TypeOK, FoldInv, SyncInv, [SyncNext]_syncVars
    PROVE  [Next]_vars
<1>1. ASSUME Commits \/ Squashes \/ UsesStore PROVE Next
    BY <1>1 DEF Commits, Squashes, UsesStore, Next, Application
<1>2. ASSUME SyncCalls \/ SyncReturns \/ Stop PROVE UNCHANGED vars
    BY <1>2 DEF SyncCalls, SyncReturns, Stop
<1>3. ASSUME Reopens PROVE Next
    BY <1>3 DEF Reopens, Next, Environment
<1>4. ASSUME Looks \/ Decides \/ Wakes \/ ListsPushes \/ ListsChecks \/ Checks \/ Repairs
      PROVE  UNCHANGED vars
    BY <1>4 DEF Looks, Decides, Wakes, ListsPushes, ListsChecks, Checks, Repairs, WorkerOnly
<1>5. ASSUME NEW b \in Blob, PushHeals(b) \/ PushesHealed(b) PROVE Next
    BY <1>5 DEF PushHeals, PushesHealed, Next, Application
<1>6. ASSUME NEW b \in Blob, PushesLocal(b) \/ PushSkipped(b) \/ Strands(b) PROVE UNCHANGED vars
    BY <1>6 DEF PushesLocal, PushSkipped, Strands
<1>7. CASE PushRaises
    <2>1. CASE healing = {}
        BY <1>7, <2>1 DEF PushRaises, vars, sessionVars, journalVars
    <2>2. CASE healing # {}
        <3>1. HealRaises
            BY <1>7, <2>2 DEF PushRaises, HealRaises, SyncInv
        <3> QED
            BY <3>1 DEF Next, Application
    <2> QED
        BY <2>1, <2>2
<1>8. CASE Pushed
    <2>1. (\E r \in Root : MarkPushed(r)) \/ UNCHANGED vars
        <3>1. Head(todo).root \in Root
            BY <1>8, HeadTyped DEF Pushed, SyncInv, SyncTypeOK, Entry
        <3> QED
            BY <1>8, <3>1 DEF Pushed
    <2> QED
        BY <2>1 DEF Next, Worker
<1>9. CASE Marks
    <2>1. CASE UNCHANGED vars
        BY <2>1
    <2>2. CASE \E low \in BOOLEAN : RecordConfirmed(Head(todo).root, low)
        <3> DEFINE r == Head(todo).root
        <3>1. todo \in Seq(Entry) /\ todo # <<>> /\ task = "marking"
            BY <1>9 DEF Marks, SyncInv, SyncTypeOK, Entry
        <3>2. r \in Root
            BY <3>1, HeadTyped
        <3>3. Reach[r] \subseteq swarm
            BY <3>1, CoveredHead DEF SyncInv, CheckInv
        <3>4. r \in Fold
            BY <2>2 DEF RecordConfirmed
        <3>5. blobs[r] \subseteq swarm
            BY <3>3, <3>4 DEF FoldInv, LineageInv
        <3>6. \E low \in BOOLEAN : MarkConfirmed(r, low)
            BY <2>2, <3>5 DEF MarkConfirmed
        <3> QED
            BY <3>2, <3>6 DEF Next, Worker
    <2> QED
        BY <1>9, <2>1, <2>2 DEF Marks
<1>10. ASSUME NEW b \in Blob, Arrives(b) PROVE Next
    BY <1>10 DEF Arrives, Next, Environment
<1>11. ASSUME UNCHANGED syncVars PROVE UNCHANGED vars
    BY <1>11 DEF syncVars, vars
<1> QED
    BY <1>1, <1>2, <1>3, <1>4, <1>5, <1>6, <1>7, <1>8, <1>9, <1>10, <1>11
    DEF SyncNext, App, Loop, Network

(***************************************************************************)
(* The types.                                                              *)
(***************************************************************************)
LEMMA InitSyncTyped == SyncInit => SyncTypeOK
<1> SUFFICES ASSUME SyncInit PROVE SyncTypeOK
    OBVIOUS
<1>1. calls \in 0..MaxCalls /\ trouble \in 0..MaxTrouble
    BY BoundsAssumption DEF SyncInit
<1>2. todo \in Seq([root : Root, blobs : SUBSET Blob])
    BY DEF SyncInit
<1> QED
    BY <1>1, <1>2 DEF SyncInit, SyncTypeOK

LEMMA CallTyped == ASSUME SyncTypeOK, Call PROVE calls' \in 0..MaxCalls
<1>1. calls \in 0..MaxCalls
    BY DEF SyncTypeOK
<1> QED
    BY <1>1, BoundsAssumption DEF Call

LEMMA TroubleTyped ==
    ASSUME SyncTypeOK, Trouble \/ trouble' = trouble PROVE trouble' \in 0..MaxTrouble
<1>1. trouble \in 0..MaxTrouble
    BY DEF SyncTypeOK
<1> QED
    BY <1>1, BoundsAssumption DEF Trouble

\* A list that is not done is a list of entries; what is left of its first.
LEMMA FirstTyped ==
    ASSUME NEW e \in Seq(Entry)
    PROVE  BlobsOfFirst(e) \in SUBSET Blob
<1>1. CASE e = <<>>
    BY <1>1 DEF BlobsOfFirst
<1>2. CASE e # <<>>
    BY <1>2, HeadTyped DEF BlobsOfFirst
<1> QED
    BY <1>1, <1>2

LEMMA NextSyncTyped ==
    ASSUME TypeOK, FoldInv, SyncInv, [SyncNext]_syncVars
    PROVE  SyncTypeOK'
<1> USE DEF SyncTypeOK, workerVars, nodeVars
<1>i. SyncTypeOK
    BY DEF SyncInv
<1>e. todo \in Seq(Entry) /\ (todo # <<>> => Tail(todo) \in Seq(Entry))
    BY <1>i, HeadTyped DEF Entry
<1>1. ASSUME Commits PROVE SyncTypeOK'
    BY <1>1, <1>i, CallTyped DEF Commits
<1>2. ASSUME Squashes PROVE SyncTypeOK'
    BY <1>2, <1>i, CallTyped DEF Squashes
<1>3. ASSUME UsesStore \/ SyncCalls \/ SyncReturns PROVE SyncTypeOK'
    BY <1>3, <1>i DEF UsesStore, SyncCalls, SyncReturns
<1>4. ASSUME Stop PROVE SyncTypeOK'
    BY <1>4, <1>i, CallTyped DEF Stop
<1>5. ASSUME Reopens PROVE SyncTypeOK'
    <2>1. /\ task' = "looking" /\ due' = "nothing" /\ todo' = <<>> /\ left' = {}
          /\ urgent' = FALSE /\ wake' = FALSE /\ stopping' = FALSE /\ syncing' = FALSE
          /\ UNCHANGED <<accepted, stranded, trouble>>
        BY <1>5 DEF Reopens
    <2>2. calls' \in 0..MaxCalls
        BY <1>5, <1>i, CallTyped DEF Reopens
    <2>3. todo' \in Seq([root : Root, blobs : SUBSET Blob])
        BY <2>1
    <2> QED
        BY <1>i, <2>1, <2>2, <2>3
<1>6. ASSUME Looks \/ Decides \/ Wakes PROVE SyncTypeOK'
    <2>1. CASE Looks
        <3>1. due' \in {"nothing", "later", "now"}
            BY <2>1 DEF Looks
        <3>2. task' \in {"stopped", "deciding"}
            BY <2>1 DEF Looks, Goto
        <3> QED
            BY <2>1, <1>i, <3>1, <3>2 DEF Looks, WorkerOnly
    <2>2. CASE Decides
        <3>1. urgent' \in BOOLEAN
            BY <2>2, <1>i, Zenon DEF Decides
        <3>2. task' \in {"listing pushes", "waiting"}
            BY <2>2 DEF Decides, Goto
        <3> QED
            BY <2>2, <1>i, <3>1, <3>2 DEF Decides, WorkerOnly
    <2>3. CASE Wakes
        BY <2>3, <1>i DEF Wakes, Goto, WorkerOnly
    <2> QED
        BY <1>6, <2>1, <2>2, <2>3
<1>7. ASSUME ListsPushes PROVE SyncTypeOK'
    <2>1. Below({"committed"}) \in SUBSET Root
        BY DEF Below, Fold
    <2>2. todo' \in Seq(Entry)
        BY <1>7, <2>1, EntriesTyped DEF ListsPushes
    <2>3. left' \in SUBSET Blob
        BY <1>7, <2>2, FirstTyped DEF ListsPushes
    <2>4. task' = AfterPush(todo')
        BY <1>7 DEF ListsPushes, Goto
    <2> QED
        BY <1>7, <1>i, <2>2, <2>3, <2>4 DEF ListsPushes, AfterPush, WorkerOnly, Entry
<1>8. ASSUME NEW b \in Blob, PushesLocal(b) \/ PushHeals(b) \/ PushesHealed(b) \/ PushSkipped(b)
      PROVE  SyncTypeOK'
    BY <1>8, <1>i DEF PushesLocal, PushHeals, PushesHealed, PushSkipped
<1>9. ASSUME PushRaises PROVE SyncTypeOK'
    <2>1. trouble' \in 0..MaxTrouble
        BY <1>9, <1>i, TroubleTyped DEF PushRaises
    <2> QED
        BY <1>9, <1>i, <2>1 DEF PushRaises, Raises, Goto
<1>10. ASSUME Pushed PROVE SyncTypeOK'
    <2>1. CASE todo' = Tail(todo) /\ left' = BlobsOfFirst(todo') /\ Goto(AfterPush(todo'))
        <3>1. todo' \in Seq(Entry)
            BY <1>10, <1>e, <1>i, <2>1 DEF Pushed
        <3>2. left' \in SUBSET Blob
            BY <2>1, <3>1, FirstTyped
        <3> QED
            BY <1>10, <1>i, <2>1, <3>1, <3>2 DEF Pushed, Goto, AfterPush, Entry
    <2>2. CASE Raises
        BY <1>10, <1>i, <2>2 DEF Pushed, Raises, Goto
    <2>3. CASE Goto("stopped") /\ UNCHANGED <<todo, left>>
        BY <1>10, <1>i, <2>3 DEF Pushed, Goto
    <2> QED
        BY <1>10, <2>1, <2>2, <2>3 DEF Pushed
<1>11. ASSUME ListsChecks PROVE SyncTypeOK'
    <2>1. Below({"pushed"}) \in SUBSET Root
        BY DEF Below, Fold
    <2>2. PICK s \in Orders(Below({"pushed"})) :
              todo' = Entries(s) /\ Goto(IF s = <<>> THEN "looking" ELSE "checking")
        BY <1>11 DEF ListsChecks
    <2>3. todo' \in Seq(Entry) /\ DOMAIN todo' = DOMAIN s
        BY <2>1, <2>2, EntriesTyped
    <2>4. s # <<>> => todo' # <<>>
        <3>1. s \in [1..Cardinality(Below({"pushed"})) -> Below({"pushed"})]
            BY DEF Orders
        <3> QED
            BY <2>3, <3>1
    <2> QED
        BY <1>11, <1>i, <2>2, <2>3, <2>4 DEF ListsChecks, Goto, WorkerOnly, Entry
<1>12. ASSUME Checks PROVE SyncTypeOK'
    <2>1. trouble' \in 0..MaxTrouble
        BY <1>12, <1>i, TroubleTyped DEF Checks
    <2>2. CASE Raises
        BY <1>12, <1>i, <2>1, <2>2 DEF Checks, Raises, Goto, WorkerOnly
    <2>3. CASE ~ Raises
        BY <1>12, <1>i, <2>1, <2>3 DEF Checks, Goto, WorkerOnly
    <2> QED
        BY <2>2, <2>3
<1>13. ASSUME Repairs PROVE SyncTypeOK'
    <2>1. trouble' \in 0..MaxTrouble
        BY <1>13, <1>i, TroubleTyped DEF Repairs
    <2>2. accepted' \subseteq Blob /\ stranded' \subseteq accepted'
        BY <1>13, <1>i DEF Repairs, TakesUp, Good
    <2>3. CASE Raises
        BY <1>13, <1>i, <2>1, <2>2, <2>3 DEF Repairs, Raises, Goto
    <2>4. CASE ~ Raises
        BY <1>13, <1>i, <2>1, <2>2, <2>4 DEF Repairs, Goto
    <2> QED
        BY <2>3, <2>4
<1>14. ASSUME Marks PROVE SyncTypeOK'
    <2>1. trouble' \in 0..MaxTrouble
        BY <1>14, <1>i, TroubleTyped DEF Marks
    <2>2. CASE Raises
        BY <1>14, <1>i, <2>1, <2>2 DEF Marks, Raises, Goto
    <2>3. CASE ~ Raises
        <3>1. /\ todo' = Tail(todo) /\ UNCHANGED left
              /\ Goto(IF todo' = <<>> THEN "looking" ELSE "checking")
            BY <1>14, <2>3 DEF Marks
        <3>2. todo' \in Seq(Entry)
            BY <1>14, <1>e, <1>i, <3>1 DEF Marks
        <3> QED
            BY <1>14, <1>i, <2>1, <3>1, <3>2 DEF Marks, Goto, Entry
    <2> QED
        BY <2>2, <2>3
<1>15. ASSUME NEW b \in Blob, Arrives(b) PROVE SyncTypeOK'
    BY <1>15, <1>i DEF Arrives
<1>16. ASSUME NEW b \in Blob, Strands(b) PROVE SyncTypeOK'
    BY <1>16, <1>i, TroubleTyped DEF Strands
<1>17. ASSUME UNCHANGED syncVars PROVE SyncTypeOK'
    BY <1>17, <1>i DEF syncVars
<1> QED
    BY <1>1, <1>2, <1>3, <1>4, <1>5, <1>6, <1>7, <1>8, <1>9, <1>10, <1>11, <1>12,
       <1>13, <1>14, <1>15, <1>16, <1>17
    DEF SyncNext, App, Loop, Network

(***************************************************************************)
(* The rounds.                                                             *)
(***************************************************************************)
RoundInv == PushedMeansAccepted /\ PushInv /\ ParentsFirst /\ CheckInv

Safe == accepted \union swarm

LEMMA InitRound == SyncInit => RoundInv
<1> SUFFICES ASSUME SyncInit PROVE RoundInv
    OBVIOUS
<1>1. Fold = {} /\ task = "looking"
    BY DEF SyncInit, Init, Fold
<1> QED
    BY <1>1 DEF RoundInv, PushedMeansAccepted, PushInv, ParentsFirst, CheckInv

\* What the node and Swarm have only grows.
LEMMA GroundGrows ==
    ASSUME SyncInv, [SyncNext]_syncVars
    PROVE  swarm \subseteq swarm' /\ accepted \subseteq accepted'
<1>1. ASSUME Commits \/ Squashes \/ Reopens
      PROVE  UNCHANGED <<swarm, accepted>>
    BY <1>1 DEF Commits, Squashes, Reopens, CommitRoot, RebaseRoot, Restart, NewSession, nodeVars
<1>2. ASSUME UsesStore PROVE UNCHANGED <<swarm, accepted>>
    BY <1>2 DEF UsesStore, GcOrphans, Put, nodeVars
<1>3. ASSUME SyncCalls \/ SyncReturns \/ Stop PROVE UNCHANGED <<swarm, accepted>>
    BY <1>3 DEF SyncCalls, SyncReturns, Stop, vars, nodeVars
<1>4. ASSUME Looks \/ Decides \/ Wakes \/ ListsPushes \/ ListsChecks \/ Checks
      PROVE  UNCHANGED <<swarm, accepted>>
    BY <1>4 DEF Looks, Decides, Wakes, ListsPushes, ListsChecks, Checks, WorkerOnly, vars, nodeVars
<1>5. ASSUME NEW b, PushesLocal(b) \/ PushSkipped(b) \/ Strands(b)
      PROVE  swarm' = swarm /\ accepted \subseteq accepted'
    BY <1>5 DEF PushesLocal, PushSkipped, Strands, vars, nodeVars
<1>6. ASSUME NEW b, PushHeals(b) \/ PushesHealed(b)
      PROVE  swarm' = swarm /\ accepted \subseteq accepted'
    BY <1>6 DEF PushHeals, PushesHealed, Get, Heal, nodeVars
<1>7. ASSUME PushRaises PROVE swarm' = swarm /\ accepted \subseteq accepted'
    BY <1>7 DEF PushRaises
<1>8. ASSUME Pushed PROVE UNCHANGED <<swarm, accepted>>
    BY <1>8 DEF Pushed, MarkPushed, vars, nodeVars
<1>9. ASSUME Repairs PROVE swarm' = swarm /\ accepted \subseteq accepted'
    BY <1>9 DEF Repairs, vars, nodeVars
<1>10. ASSUME Marks PROVE UNCHANGED <<swarm, accepted>>
    BY <1>10 DEF Marks, RecordConfirmed, vars, nodeVars
<1>11. ASSUME NEW b, Arrives(b) PROVE swarm \subseteq swarm' /\ accepted' = accepted
    BY <1>11 DEF Arrives, Deliver, nodeVars
<1>12. ASSUME UNCHANGED syncVars PROVE UNCHANGED <<swarm, accepted>>
    BY <1>12 DEF syncVars, vars, nodeVars
<1> QED
    BY <1>1, <1>2, <1>3, <1>4, <1>5, <1>6, <1>7, <1>8, <1>9, <1>10, <1>11, <1>12
    DEF SyncNext, App, Loop, Network

\* A step that leaves the journal alone and takes the worker off its list.
LEMMA RoundLeft ==
    ASSUME RoundInv, UNCHANGED <<rung, parent>>, swarm \subseteq swarm', accepted \subseteq accepted',
           task' \notin {"pushing", "checking", "repairing", "marking"}
    PROVE  RoundInv'
<1>1. Fold' = Fold
    BY DEF Fold
<1> QED
    BY <1>1 DEF RoundInv, PushedMeansAccepted, PushInv, ParentsFirst, CheckInv

\* A step that leaves the journal and the list alone.
LEMMA RoundKept ==
    ASSUME RoundInv, UNCHANGED <<rung, parent, task, todo>>,
           swarm \subseteq swarm', accepted \subseteq accepted', stopping => stopping',
           task = "pushing" => stopping \/ Head(todo).blobs \ left' \subseteq accepted'
    PROVE  RoundInv'
<1>1. Fold' = Fold
    BY DEF Fold
<1>2. PushedMeansAccepted'
    BY <1>1 DEF RoundInv, PushedMeansAccepted
<1>3. PushInv'
    <2>1. task = "pushing" => Covered(todo, accepted' \union swarm')
        BY CoveredGrows DEF RoundInv, PushInv
    <2> QED
        BY <2>1 DEF RoundInv, PushInv, Covered
<1>4. ParentsFirst'
    BY <1>1 DEF RoundInv, ParentsFirst
<1>5. CheckInv'
    <2>1. task \in {"checking", "repairing", "marking"} => Covered(todo, swarm')
        BY CoveredGrows DEF RoundInv, CheckInv
    <2> QED
        BY <2>1 DEF RoundInv, CheckInv, Covered
<1> QED
    BY <1>2, <1>3, <1>4, <1>5 DEF RoundInv

LEMMA CommitsKeepRound ==
    ASSUME ~ Recommits, TypeOK, FoldInv, RoundInv, Commits
    PROVE  RoundInv'
<1>1. PICK r \in Root, p \in Root \union {NoRoot}, refs \in SUBSET Blob :
          CommitRoot(r, p, refs) /\ ~ OnTheList(r)
    BY DEF Commits
<1>2. /\ r \notin Fold /\ Fold' = Fold \union {r} /\ rung'[r] = "committed"
      /\ \A x \in Fold : x # r /\ rung'[x] = rung[x] /\ parent'[x] = parent[x]
      /\ UNCHANGED <<swarm, accepted, task, todo, left, stopping>>
    BY <1>1 DEF CommitRoot, CommitAllowed, Commits, nodeVars, Fold, TypeOK
<1>3. \A x \in Fold : parent[x] # NoRoot => parent[x] \in Fold
    BY DEF FoldInv, LineageInv
<1>4. PushedMeansAccepted'
    BY <1>2 DEF RoundInv, PushedMeansAccepted
<1>5. PushInv' /\ CheckInv'
    BY <1>2 DEF RoundInv, PushInv, CheckInv, Covered
<1>6. ParentsFirst'
    <2>1. ASSUME NEW x \in Fold', rung'[x] # "committed", parent'[x] # NoRoot
          PROVE  rung'[parent'[x]] # "committed"
        BY <1>2, <1>3, <2>1 DEF RoundInv, ParentsFirst
    <2>2. ASSUME task = "pushing", NEW i \in DOMAIN todo, todo[i].root \in Fold',
                 parent'[todo[i].root] # NoRoot, rung'[parent'[todo[i].root]] = "committed"
          PROVE  \E j \in DOMAIN todo : j < i /\ todo[j].root = parent'[todo[i].root]
        <3>1. todo[i].root \in Fold
            BY <1>1, <1>2, <2>2 DEF OnTheList
        <3> QED
            BY <1>2, <1>3, <2>2, <3>1 DEF RoundInv, ParentsFirst
    <2> QED
        BY <1>2, <2>1, <2>2 DEF ParentsFirst
<1> QED
    BY <1>4, <1>5, <1>6 DEF RoundInv

LEMMA SquashesKeepRound ==
    ASSUME TypeOK, FoldInv, RoundInv, Squashes
    PROVE  RoundInv'
<1>1. PICK r \in Root, refs \in SUBSET Blob : RebaseRoot(r, refs)
    BY DEF Squashes
<1>2. /\ r \in Fold /\ Fold' = {r} /\ rung'[r] = rung[r] /\ parent'[r] = NoRoot
      /\ UNCHANGED <<swarm, accepted, task, todo, left, stopping>>
    BY <1>1 DEF RebaseRoot, RebaseAllowed, RungsOfTip, ParentsOfTip, Squashes, workerVars,
       nodeVars, Fold, TypeOK
<1>3. PushedMeansAccepted'
    BY <1>2 DEF RoundInv, PushedMeansAccepted
<1>4. PushInv' /\ CheckInv'
    BY <1>2 DEF RoundInv, PushInv, CheckInv, Covered
<1>5. ParentsFirst'
    BY <1>2 DEF ParentsFirst
<1> QED
    BY <1>3, <1>4, <1>5 DEF RoundInv

LEMMA ListsPushesKeepsRound ==
    ASSUME TypeOK, FoldInv, SyncTypeOK, RoundInv, ListsPushes
    PROVE  RoundInv'
<1> DEFINE roots == Below({"committed"})
<1>1. PICK s \in Orders(roots) :
          /\ todo' = Entries(s)
          /\ left' = BlobsOfFirst(todo')
          /\ task' = AfterPush(todo')
    BY DEF ListsPushes, Goto
<1>2. UNCHANGED <<rung, parent, swarm, accepted, stopping>>
    BY DEF ListsPushes, WorkerOnly, vars, journalVars, nodeVars
<1>3. Fold' = Fold
    BY <1>2 DEF Fold
<1>4. roots \in SUBSET Fold /\ roots \in SUBSET Root
    BY DEF Below, Fold
<1>5. /\ DOMAIN todo' = DOMAIN s
      /\ \A i \in DOMAIN s : s[i] \in roots /\ todo'[i].root = s[i]
    BY <1>1, <1>4, EntriesTyped
<1>6. PushedMeansAccepted'
    BY <1>2, <1>3 DEF RoundInv, PushedMeansAccepted
<1>7. PushInv'
    <2>1. Covered(todo', Safe)
        <3>1. \A r \in roots : parent[r] \in Fold \ roots => Reach[parent[r]] \subseteq Safe
            BY DEF Below, Safe, RoundInv, PushedMeansAccepted
        <3>2. Foreign \subseteq Safe
            BY DEF FoldInv, ConfirmedInv, Safe
        <3> QED
            BY <1>1, <1>4, <3>1, <3>2, EntriesCovered
    <2>2. Covered(todo', accepted' \union swarm')
        BY <1>2, <2>1 DEF Safe
    <2>3. todo' # <<>> => left' = Head(todo').blobs
        BY <1>1 DEF BlobsOfFirst
    <2>4. task' = "pushing" => todo' # <<>>
        BY <1>1 DEF AfterPush
    <2> QED
        BY <2>2, <2>3, <2>4 DEF PushInv, Covered
<1>8. ParentsFirst'
    <2>1. \A i \in DOMAIN s : parent[s[i]] \in Fold /\ rung[parent[s[i]]] = "committed"
              => \E j \in DOMAIN s : j < i /\ s[j] = parent[s[i]]
        BY <1>4, ParentListedBefore DEF Below
    <2>2. \A i \in DOMAIN s : parent[s[i]] \in Fold \union {NoRoot}
        BY <1>4, <1>5 DEF FoldInv, LineageInv
    <2> QED
        BY <1>2, <1>3, <1>5, <2>1, <2>2 DEF RoundInv, ParentsFirst
<1>9. CheckInv'
    BY <1>1 DEF CheckInv, AfterPush
<1> QED
    BY <1>6, <1>7, <1>8, <1>9 DEF RoundInv

LEMMA ListsChecksKeepsRound ==
    ASSUME TypeOK, FoldInv, RoundInv, ListsChecks
    PROVE  RoundInv'
<1> DEFINE roots == Below({"pushed"})
<1>1. PICK s \in Orders(roots) :
          todo' = Entries(s) /\ task' \in {"looking", "checking"}
    BY DEF ListsChecks, Goto
<1>2. UNCHANGED <<rung, parent, swarm, accepted>>
    BY DEF ListsChecks, WorkerOnly, vars, journalVars, nodeVars
<1>3. Fold' = Fold
    BY <1>2 DEF Fold
<1>4. roots \in SUBSET Fold
    BY DEF Below
<1>5. \A r \in roots : parent[r] \in Fold \ roots => Reach[parent[r]] \subseteq swarm
    <2> TAKE r \in roots
    <2> HAVE parent[r] \in Fold \ roots
    <2>1. rung[parent[r]] # "committed"
        BY RootAssumption DEF RoundInv, ParentsFirst, Below, Fold
    <2>2. rung[parent[r]] = "confirmed"
        BY <2>1 DEF Below, Fold, TypeOK
    <2> QED
        BY <2>2 DEF FoldInv, ConfirmedInv
<1>6. Covered(todo', swarm')
    BY <1>1, <1>2, <1>4, <1>5, EntriesCovered DEF FoldInv, ConfirmedInv
<1>7. CheckInv'
    BY <1>1, <1>6 DEF CheckInv, Covered
<1> QED
    BY <1>1, <1>2, <1>3, <1>7 DEF RoundInv, PushedMeansAccepted, PushInv, ParentsFirst

\* The first root of the list goes up to pushed, or is up there already, once
\* the node has accepted its blobs.
LEMMA PushedKeepsRound ==
    ASSUME TypeOK, FoldInv, SyncTypeOK, RoundInv, Pushed
    PROVE  RoundInv'
<1> DEFINE r == Head(todo).root
<1>1. /\ task = "pushing" /\ left = {} /\ todo # <<>> /\ todo \in Seq(Entry)
      /\ UNCHANGED <<stopping, accepted>>
    BY DEF Pushed, SyncTypeOK, Entry, nodeVars
<1>2. r \in Root /\ Head(todo).blobs \in SUBSET Blob
    BY <1>1, HeadTyped
<1>3. CASE task' \in {"backoff", "stopped"} /\ UNCHANGED vars
    BY <1>1, <1>3, RoundLeft DEF vars, journalVars
<1>4. CASE /\ ~ stopping
           /\ MarkPushed(r) \/ (r \in Fold /\ ~ PushedApplies(r) /\ UNCHANGED vars)
           /\ todo' = Tail(todo)
           /\ left' = BlobsOfFirst(todo')
           /\ task' = AfterPush(todo')
    <2>1. /\ UNCHANGED <<parent, swarm>> /\ rung'[r] # "committed" /\ r \in Fold /\ Fold' = Fold
          /\ \A x \in Root \ {r} : rung'[x] = rung[x]
          /\ rung'[r] = "pushed" \/ rung'[r] = rung[r]
        BY <1>2, <1>4 DEF MarkPushed, PushedApplies, Fold, TypeOK, vars, journalVars
    <2>2. Reach[r] \subseteq Safe
        <3>1. Head(todo).blobs \subseteq accepted
            BY <1>1, <1>2, <1>4 DEF RoundInv, PushInv
        <3>2. Reach[r] \subseteq Head(todo).blobs \union Safe
            BY <1>1, CoveredHead DEF RoundInv, PushInv, Safe
        <3> QED
            BY <3>1, <3>2 DEF Safe
    <2>3. PushedMeansAccepted'
        BY <1>1, <2>1, <2>2 DEF RoundInv, PushedMeansAccepted, Safe, Fold
    <2>4. PushInv'
        <3>1. Covered(todo', Safe)
            BY <1>1, <1>4, <2>2, CoveredTail DEF RoundInv, PushInv, Safe
        <3>2. Covered(todo', accepted' \union swarm')
            BY <1>1, <2>1, <3>1 DEF Safe
        <3>3. todo' # <<>> => left' = Head(todo').blobs
            BY <1>4 DEF BlobsOfFirst
        <3>4. task' = "pushing" => todo' # <<>>
            BY <1>4 DEF AfterPush
        <3> QED
            BY <3>2, <3>3, <3>4 DEF PushInv, Covered
    <2>p. parent[r] # NoRoot => parent[r] \in Fold /\ rung[parent[r]] # "committed"
        <3>1. parent[r] # NoRoot => parent[r] \in Fold
            BY <2>1 DEF FoldInv, LineageInv
        <3>2. 1 \in DOMAIN todo /\ todo[1].root = r /\ \A j \in DOMAIN todo : ~ (j < 1)
            BY <1>1
        <3> QED
            BY <1>1, <2>1, <3>1, <3>2 DEF RoundInv, ParentsFirst
    <2>5. ASSUME NEW x \in Fold', rung'[x] # "committed", parent'[x] # NoRoot
          PROVE  rung'[parent'[x]] # "committed"
        <3>1. parent[x] \in Fold /\ parent[x] \in Root
            BY <2>1, <2>5 DEF FoldInv, LineageInv, Fold
        <3>2. x = r \/ rung[x] # "committed"
            BY <2>1, <2>5 DEF Fold
        <3>3. rung[parent[x]] # "committed"
            BY <2>1, <2>5, <2>p, <3>2 DEF RoundInv, ParentsFirst
        <3> QED
            BY <2>1, <3>1, <3>3
    <2>6. ASSUME NEW i \in DOMAIN todo', todo'[i].root \in Fold', parent'[todo'[i].root] # NoRoot,
                 rung'[parent'[todo'[i].root]] = "committed"
          PROVE  \E j \in DOMAIN todo' : j < i /\ todo'[j].root = parent'[todo'[i].root]
        <3> DEFINE t == Tail(todo)
        <3>t. /\ DOMAIN t = 1..(Len(todo) - 1) /\ DOMAIN todo = 1..Len(todo) /\ Len(todo) \in Nat
              /\ \A k \in DOMAIN t : t[k] = todo[k + 1]
              /\ r = todo[1].root
            BY <1>1
        <3> HIDE DEF t
        <3>1. i + 1 \in DOMAIN todo /\ todo'[i] = todo[i + 1] /\ todo' = t /\ i \in Nat
            BY <1>4, <2>6, <3>t DEF t
        <3> DEFINE x == todo[i + 1].root
        <3>2. x \in Fold /\ parent[x] # NoRoot /\ parent[x] # r /\ parent[x] \in Root
            BY <2>1, <2>6, <3>1 DEF FoldInv, LineageInv, Fold
        <3>3. rung[parent[x]] = "committed"
            BY <2>1, <2>6, <3>1, <3>2
        <3>4. PICK j \in DOMAIN todo : j < i + 1 /\ todo[j].root = parent[x]
            BY <1>1, <3>1, <3>2, <3>3 DEF RoundInv, ParentsFirst
        <3>5. j # 1
            BY <3>2, <3>4, <3>t
        <3>6. j - 1 \in DOMAIN t /\ t[j - 1] = todo[j] /\ j - 1 < i
            BY <3>1, <3>4, <3>5, <3>t
        <3> QED
            BY <2>1, <3>1, <3>4, <3>6
    <2>7. ParentsFirst'
        BY <2>5, <2>6 DEF ParentsFirst
    <2>8. CheckInv'
        BY <1>4 DEF CheckInv, AfterPush
    <2> QED
        BY <2>3, <2>4, <2>7, <2>8 DEF RoundInv
<1> QED
    BY <1>1, <1>3, <1>4 DEF Pushed, PushComplete, Raises, Goto

\* The steps of a check that stay with its list.
LEMMA CheckGoesOn ==
    ASSUME RoundInv, UNCHANGED <<rung, parent, todo, swarm>>, accepted \subseteq accepted',
           task \in {"checking", "repairing"},
           task' \in {"marking", "repairing"},
           task' = "marking" => Head(todo).blobs \subseteq swarm
    PROVE  RoundInv'
<1>1. Fold' = Fold
    BY DEF Fold
<1> QED
    BY <1>1 DEF RoundInv, PushedMeansAccepted, PushInv, ParentsFirst, CheckInv, Covered

LEMMA ChecksKeepsRound ==
    ASSUME RoundInv, Checks
    PROVE  RoundInv'
<1>1. task = "checking" /\ UNCHANGED <<rung, parent, swarm, accepted>>
    BY DEF Checks, WorkerOnly, vars, journalVars, nodeVars
<1>2. CASE task' \in {"backoff", "stopped"}
    BY <1>1, <1>2, RoundLeft
<1>3. CASE /\ task' = (IF Head(todo).blobs \subseteq Retrievable THEN "marking" ELSE "repairing")
           /\ UNCHANGED todo
    BY <1>1, <1>3, CheckGoesOn DEF Retrievable
<1> QED
    BY <1>2, <1>3 DEF Checks, Raises, Goto

LEMMA RepairsKeepsRound ==
    ASSUME RoundInv, Repairs
    PROVE  RoundInv'
<1>1. /\ task = "repairing" /\ UNCHANGED <<rung, parent, swarm>>
      /\ accepted \subseteq accepted'
    BY DEF Repairs, vars, journalVars, nodeVars
<1>2. CASE task' \in {"backoff", "stopped"}
    BY <1>1, <1>2, RoundLeft
<1>3. CASE task' = "marking" /\ UNCHANGED todo /\ Head(todo).blobs \ Retrievable = {}
    BY <1>1, <1>3, CheckGoesOn DEF Retrievable
<1> QED
    BY <1>2, <1>3 DEF Repairs, Raises, Goto

LEMMA MarksKeepsRound ==
    ASSUME TypeOK, FoldInv, SyncTypeOK, RoundInv, Marks
    PROVE  RoundInv'
<1> DEFINE r == Head(todo).root
<1>1. /\ task = "marking" /\ todo # <<>> /\ todo \in Seq(Entry)
      /\ UNCHANGED accepted
    BY DEF Marks, SyncTypeOK, Entry, nodeVars
<1>2. CASE task' = "backoff" /\ UNCHANGED vars
    BY <1>1, <1>2, RoundLeft DEF vars, journalVars
<1>3. CASE /\ \E low \in BOOLEAN : RecordConfirmed(r, low)
           /\ todo' = Tail(todo)
           /\ task' \in {"looking", "checking"}
    <2>1. /\ r \in Root /\ r \in Fold /\ Fold' = Fold /\ UNCHANGED <<parent, swarm>>
          /\ rung'[r] = "confirmed" /\ \A x \in Root \ {r} : rung'[x] = rung[x]
          /\ ParentConfirmed(r)
        BY <1>3, <1>1, HeadTyped DEF RecordConfirmed, Fold, TypeOK
    <2>2. Reach[r] \subseteq swarm
        BY <1>1, CoveredHead DEF RoundInv, CheckInv
    <2>3. PushedMeansAccepted'
        BY <1>1, <2>1, <2>2 DEF RoundInv, PushedMeansAccepted, Fold
    <2>4. PushInv'
        BY <1>3 DEF PushInv
    <2>5. ParentsFirst'
        <3>1. ASSUME NEW x \in Fold', rung'[x] # "committed", parent'[x] # NoRoot
              PROVE  rung'[parent'[x]] # "committed"
            <4>1. parent[x] \in Fold /\ parent[x] \in Root
                BY <2>1, <3>1 DEF FoldInv, LineageInv, Fold
            <4>2. rung[parent[x]] # "committed" \/ parent[x] = r
                BY <2>1, <3>1 DEF RoundInv, ParentsFirst, ParentConfirmed, Fold
            <4> QED
                BY <2>1, <4>1, <4>2
        <3> QED
            BY <1>3, <3>1 DEF ParentsFirst
    <2>6. CheckInv'
        <3>1. Covered(todo', swarm)
            BY <1>1, <1>3, <2>2, CoveredTail DEF RoundInv, CheckInv
        <3> QED
            BY <1>3, <2>1, <3>1 DEF CheckInv, Covered
    <2> QED
        BY <2>3, <2>4, <2>5, <2>6 DEF RoundInv
<1> QED
    BY <1>2, <1>3 DEF Marks, Raises, Goto

LEMMA NextRound ==
    ASSUME ~ Recommits, TypeOK, FoldInv, SyncInv, [SyncNext]_syncVars
    PROVE  RoundInv'
<1>i. RoundInv /\ SyncTypeOK
    BY DEF SyncInv, RoundInv
<1>g. swarm \subseteq swarm' /\ accepted \subseteq accepted'
    BY GroundGrows
<1>p. task = "pushing" => stopping \/ Head(todo).blobs \ left \subseteq accepted
    BY <1>i DEF RoundInv, PushInv
<1>1. ASSUME Commits \/ Squashes PROVE RoundInv'
    BY <1>1, <1>i, CommitsKeepRound, SquashesKeepRound
<1>2. ASSUME UsesStore PROVE RoundInv'
    BY <1>2, <1>i, <1>g, <1>p, RoundKept DEF UsesStore, GcOrphans, Put, workerVars, nodeVars, journalVars
<1>3. ASSUME SyncCalls \/ SyncReturns \/ Stop PROVE RoundInv'
    BY <1>3, <1>i, <1>g, <1>p, RoundKept
    DEF SyncCalls, SyncReturns, Stop, vars, nodeVars, journalVars
<1>4. ASSUME Reopens PROVE RoundInv'
    BY <1>4, <1>i, <1>g, RoundLeft DEF Reopens, Restart, NewSession, journalVars
<1>5. ASSUME Looks \/ Decides \/ Wakes PROVE RoundInv'
    <2>1. task' \notin {"pushing", "checking", "repairing", "marking"}
        BY <1>5 DEF Looks, Decides, Wakes, Goto
    <2> QED
        BY <1>5, <2>1, <1>i, <1>g, RoundLeft DEF Looks, Decides, Wakes, WorkerOnly, vars, journalVars
<1>6. ASSUME ListsPushes \/ ListsChecks PROVE RoundInv'
    BY <1>6, <1>i, ListsPushesKeepsRound, ListsChecksKeepsRound
<1>7. ASSUME NEW b \in Blob, PushesLocal(b) PROVE RoundInv'
    BY <1>7, <1>i, <1>g, <1>p, RoundKept DEF PushesLocal, vars, journalVars
<1>8. ASSUME NEW b \in Blob, PushHeals(b) PROVE RoundInv'
    BY <1>8, <1>i, <1>g, <1>p, RoundKept DEF PushHeals, Get, journalVars, workerVars, nodeVars
<1>9. ASSUME NEW b \in Blob, PushesHealed(b) PROVE RoundInv'
    BY <1>9, <1>i, <1>g, <1>p, RoundKept DEF PushesHealed, Heal, journalVars
<1>10. ASSUME NEW b \in Blob, PushSkipped(b) PROVE RoundInv'
    BY <1>10, <1>i, <1>g, <1>p, RoundKept DEF PushSkipped, vars, journalVars, nodeVars
<1>11. ASSUME PushRaises PROVE RoundInv'
    BY <1>11, <1>i, <1>g, RoundLeft DEF PushRaises, Raises, Goto, journalVars
<1>12. ASSUME Pushed PROVE RoundInv'
    BY <1>12, <1>i, PushedKeepsRound
<1>13. ASSUME Checks \/ Repairs PROVE RoundInv'
    BY <1>13, <1>i, ChecksKeepsRound, RepairsKeepsRound
<1>14. ASSUME Marks PROVE RoundInv'
    BY <1>14, <1>i, MarksKeepsRound
<1>15. ASSUME NEW b \in Blob, Arrives(b) PROVE RoundInv'
    BY <1>15, <1>i, <1>g, <1>p, RoundKept DEF Arrives, Deliver, journalVars, workerVars, nodeVars
<1>16. ASSUME NEW b \in Blob, Strands(b) PROVE RoundInv'
    BY <1>16, <1>i, <1>g, <1>p, RoundKept DEF Strands, vars, journalVars, workerVars
<1>17. ASSUME UNCHANGED syncVars PROVE RoundInv'
    BY <1>17, <1>i, <1>g, <1>p, RoundKept DEF syncVars, vars, journalVars, workerVars, nodeVars
<1> QED
    BY <1>1, <1>2, <1>3, <1>4, <1>5, <1>6, <1>7, <1>8, <1>9, <1>10, <1>11, <1>12,
       <1>13, <1>14, <1>15, <1>16, <1>17
    DEF SyncNext, App, Loop, Network

\* The worker never makes a batch of its own.
LEMMA NextUnbatched ==
    ASSUME ~ batched, [SyncNext]_syncVars
    PROVE  ~ batched'
<1>1. ASSUME Commits \/ Squashes \/ UsesStore \/ Reopens PROVE ~ batched'
    BY <1>1 DEF Commits, Squashes, UsesStore, Reopens, CommitRoot, RebaseRoot, GcOrphans, Put,
       Restart, NewSession, sessionVars
<1>2. ASSUME SyncCalls \/ SyncReturns \/ Stop PROVE ~ batched'
    BY <1>2 DEF SyncCalls, SyncReturns, Stop, vars, sessionVars
<1>3. ASSUME Looks \/ Decides \/ Wakes \/ ListsPushes \/ ListsChecks \/ Checks \/ Repairs
      PROVE  ~ batched'
    BY <1>3 DEF Looks, Decides, Wakes, ListsPushes, ListsChecks, Checks, Repairs, WorkerOnly,
       vars, sessionVars
<1>4. ASSUME NEW b, PushesLocal(b) \/ PushHeals(b) \/ PushesHealed(b) \/ PushSkipped(b)
      PROVE  ~ batched'
    BY <1>4 DEF PushesLocal, PushHeals, PushesHealed, PushSkipped, Get, Heal, vars, sessionVars
<1>5. ASSUME PushRaises \/ Pushed \/ Marks PROVE ~ batched'
    BY <1>5 DEF PushRaises, Pushed, Marks, MarkPushed, RecordConfirmed, vars, sessionVars
<1>6. ASSUME NEW b, Arrives(b) \/ Strands(b) PROVE ~ batched'
    BY <1>6 DEF Arrives, Strands, Deliver, vars, sessionVars
<1>7. ASSUME UNCHANGED syncVars PROVE ~ batched'
    BY <1>7 DEF syncVars, vars, sessionVars
<1> QED
    BY <1>1, <1>2, <1>3, <1>4, <1>5, <1>6, <1>7 DEF SyncNext, App, Loop, Network

AllInv == TypeOK /\ FoldInv /\ SyncInv

LEMMA SpecSync == ASSUME ~ Recommits PROVE SyncSpec => []AllInv
<1>1. SyncInit => AllInv
    BY InitTyped, InitFold, InitSyncTyped, InitRound
    DEF AllInv, SyncInit, Init, SyncInv, RoundInv
<1>2. AllInv /\ [SyncNext]_syncVars => AllInv'
    BY StoreStep, NextTyped, NextFold, NextSyncTyped, NextRound, NextUnbatched
    DEF AllInv, SyncInv, RoundInv
<1> QED
    BY <1>1, <1>2, PTL DEF SyncSpec

\* Every variable of the worker and of the node keeps its type.
THEOREM SyncTyping == ASSUME ~ Recommits PROVE SyncSpec => []SyncTypeOK
<1>1. AllInv => SyncTypeOK
    BY DEF AllInv, SyncInv
<1> QED
    BY <1>1, SpecSync, PTL

\* A root stands at pushed only if the node or Swarm has everything it
\* reaches, whatever was squashed since its list was made
\* (localsync.py:334-344).
THEOREM PushedIsTrue == ASSUME ~ Recommits PROVE SyncSpec => []PushedMeansAccepted
<1>1. AllInv => PushedMeansAccepted
    BY DEF AllInv, SyncInv
<1> QED
    BY <1>1, SpecSync, PTL

\* The worker, the application and the network together drive the store as
\* LocalStore says: mark_confirmed is called for what is on Swarm and for
\* nothing else (localsync.py:346-363), so all that is proved of the store
\* holds of the store under its worker.
THEOREM StoreImplemented == ASSUME ~ Recommits PROVE SyncSpec => ImplementsLocalStore
<1>1. SyncInit => Init
    BY DEF SyncInit
<1>2. AllInv /\ [SyncNext]_syncVars => [Next]_vars
    BY StoreStep DEF AllInv
<1> QED
    BY <1>1, <1>2, SpecSync, PTL DEF SyncSpec, ImplementsLocalStore, Spec
===============================================================================
