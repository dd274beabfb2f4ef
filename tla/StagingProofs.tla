----------------------------- MODULE StagingProofs -----------------------------
(***************************************************************************)
(* One manifest and any number of callers that write it, with commits that *)
(* fail and transactions that end well or badly; or one caller that writes, *)
(* removes and lists.  Nothing that was staged is lost, the roots form one *)
(* lineage, removals can be applied, and listings are fresh.               *)
(***************************************************************************)
EXTENDS Staging, Recursion, TLAPS

(***************************************************************************)
(* _resolve_head: a loop over the map of roots.                            *)
(***************************************************************************)
\* The handles it comes across, and where it ends.
After(map, h) == CHOOSE f : f = [n \in 0..Cardinality(Handle) |-> IF n = 0 THEN h ELSE map[f[n - 1]]]

Final(map, h) == After(map, h)[Cardinality(Handle)]

LEMMA HeadIs == ASSUME NEW h PROVE Head(h) = Final(rootMap, h) /\ Head(h)' = Final(rootMap', h)
BY Zenon DEF Head, Final, After

LEMMA HandlesFinite == IsFiniteSet(Handle) /\ Cardinality(Handle) \in Nat
<1> DEFINE Cells == Path \X (Value \union {NoFile})
           graph == [r \in Root |-> {<<p, r[p]>> : p \in Path}]
<1>1. IsFiniteSet(Value \union {NoFile})
    BY FiniteAssumption, FS_AddElement
<1>2. IsFiniteSet(Cells)
    BY <1>1, FiniteAssumption, FS_Product
<1>3. IsFiniteSet(SUBSET Cells)
    BY <1>2, FS_SUBSET
<1>4. graph \in Injection(Root, SUBSET Cells)
    <2>1. \A r \in Root : {<<p, r[p]>> : p \in Path} \subseteq Cells
        BY DEF Root
    <2>2. ASSUME NEW q \in Root, NEW r \in Root, graph[q] = graph[r] PROVE q = r
        <3>1. ASSUME NEW p \in Path PROVE q[p] = r[p]
            <4>1. <<p, q[p]>> \in {<<o, r[o]>> : o \in Path}
                BY <2>2
            <4> QED
                BY <4>1
        <3> QED
            BY <3>1 DEF Root
    <2> QED
        BY <2>1, <2>2 DEF Injection, IsInjective
<1>5. IsFiniteSet(Root)
    <2> HIDE DEF graph, Cells
    <2> QED
        BY <1>3, <1>4, FS_Injection
<1>6. IsFiniteSet(Handle)
    BY <1>5, FiniteAssumption, FS_Union DEF Handle
<1> QED
    BY <1>6, FS_CardinalityType

LEMMA AfterRecurs ==
    ASSUME NEW map \in [Handle -> Handle], NEW h \in Handle
    PROVE  After(map, h) = [n \in 0..Cardinality(Handle) |-> IF n = 0 THEN h ELSE map[After(map, h)[n - 1]]]
<1> DEFINE D == 0..Cardinality(Handle)
           H == [g \in [D -> Handle] |-> [n \in D |-> IF n = 0 THEN h ELSE map[g[n - 1]]]]
           size == [n \in D |-> n]
<1>1. size \in [D -> Nat] /\ Handle # {}
    BY HandlesFinite
<1>2. ASSUME NEW g \in [D -> Handle], NEW n \in D PROVE (IF n = 0 THEN h ELSE map[g[n - 1]]) \in Handle
    BY HandlesFinite
<1>3. H \in [[D -> Handle] -> [D -> Handle]]
    BY <1>2
<1>4. ASSUME NEW f \in [D -> Handle], NEW g \in [D -> Handle], NEW n \in D,
             \A k \in D : size[k] < size[n] => f[k] = g[k]
      PROVE  H[f][n] = H[g][n]
    <2>1. n # 0 => f[n - 1] = g[n - 1]
        BY <1>4, HandlesFinite
    <2> QED
        BY <2>1
<1>5. Descends(H, D, Handle, size)
    <2> HIDE DEF D, H, size
    <2> QED
        BY <1>1, <1>3, <1>4 DEF Descends
<1>6. \E f \in [D -> Handle] : f = H[f]
    <2> HIDE DEF D, H, size
    <2> QED
        BY <1>5, RecursionDefines
<1>7. \E f : f = [n \in 0..Cardinality(Handle) |-> IF n = 0 THEN h ELSE map[f[n - 1]]]
    BY <1>6
<1> QED
    BY <1>7 DEF After

LEMMA FinalStays ==
    ASSUME NEW map \in [Handle -> Handle], NEW S \in SUBSET Handle, \A x \in S : map[x] \in S, NEW h \in S
    PROVE  Final(map, h) \in S
<1> DEFINE f == After(map, h)
           Good == {n \in Nat : n \in 0..Cardinality(Handle) => f[n] \in S}
<1>1. \A n \in 0..Cardinality(Handle) : f[n] = IF n = 0 THEN h ELSE map[f[n - 1]]
    <2>1. f = [n \in 0..Cardinality(Handle) |-> IF n = 0 THEN h ELSE map[f[n - 1]]]
        BY AfterRecurs
    <2> HIDE DEF f
    <2> QED
        BY <2>1
<1> HIDE DEF f
<1>2. 0 \in Good
    BY <1>1
<1>3. ASSUME NEW n \in Good PROVE n + 1 \in Good
    BY <1>1, HandlesFinite
<1>4. Good = Nat
    <2>1. Good \in SUBSET Nat
        OBVIOUS
    <2> HIDE DEF Good
    <2> QED
        BY <1>2, <1>3, <2>1, SetInduction
<1>5. f[Cardinality(Handle)] \in S
    BY <1>4, HandlesFinite
<1> QED
    BY <1>5 DEF Final, f

(***************************************************************************)
(* A lineage: the handle it began with, and the roots of its commits in    *)
(* their order.                                                            *)
(***************************************************************************)
IsLineage(map, from, u, last, s) ==
    /\ last \in Nat /\ s \in [0..last -> Handle] /\ s[0] = u
    /\ \A i, j \in 0..last : s[i] = s[j] => i = j
    /\ \A i \in 0..last : from[s[i]] = u /\ map[s[i]] = IF i < last THEN s[i + 1] ELSE s[i]
    /\ \A h \in Handle : from[h] = u => \E i \in 0..last : s[i] = h

LEMMA LineageEnds ==
    ASSUME NEW map \in [Handle -> Handle], NEW from \in [Handle -> Handle], NEW u, NEW last, NEW s,
           IsLineage(map, from, u, last, s), NEW i \in 0..last
    PROVE  Final(map, s[i]) = s[last]
<1> DEFINE f == After(map, s[i])
           At(n) == IF i + n <= last THEN i + n ELSE last
           Good == {n \in Nat : n \in 0..Cardinality(Handle) => f[n] = s[At(n)]}
<1>0. /\ last \in Nat /\ s \in [0..last -> Handle] /\ (\A j, k \in 0..last : s[j] = s[k] => j = k)
      /\ \A j \in 0..last : map[s[j]] = IF j < last THEN s[j + 1] ELSE s[j]
    BY DEF IsLineage
<1>1. \A n \in 0..Cardinality(Handle) : f[n] = IF n = 0 THEN s[i] ELSE map[f[n - 1]]
    <2>1. s[i] \in Handle
        BY <1>0
    <2>2. f = [n \in 0..Cardinality(Handle) |-> IF n = 0 THEN s[i] ELSE map[f[n - 1]]]
        BY <2>1, AfterRecurs
    <2> HIDE DEF f
    <2> QED
        BY <2>2
<1> HIDE DEF f
<1>2. last + 1 <= Cardinality(Handle)
    <2>1. s \in Injection(0..last, Handle)
        BY <1>0 DEF Injection, IsInjective
    <2>2. Cardinality(0..last) <= Cardinality(Handle)
        BY <2>1, HandlesFinite, FS_Injection
    <2>3. Cardinality(0..last) = last + 1
        BY <1>0, FS_Interval
    <2> QED
        BY <2>2, <2>3
<1>3. 0 \in Good
    BY <1>0, <1>1
<1>4. ASSUME NEW n \in Good PROVE n + 1 \in Good
    <2> SUFFICES ASSUME n + 1 \in 0..Cardinality(Handle) PROVE f[n + 1] = s[At(n + 1)]
        OBVIOUS
    <2>1. n \in 0..Cardinality(Handle) /\ f[n + 1] = map[f[n]] /\ f[n] = s[At(n)]
        BY <1>1, HandlesFinite
    <2>2. At(n) \in 0..last /\ At(n + 1) = IF At(n) < last THEN At(n) + 1 ELSE At(n)
        BY <1>0
    <2> HIDE DEF At
    <2> QED
        BY <1>0, <2>1, <2>2
<1>5. Good = Nat
    <2>1. Good \in SUBSET Nat
        OBVIOUS
    <2> HIDE DEF Good
    <2> QED
        BY <1>3, <1>4, <2>1, SetInduction
<1>6. Cardinality(Handle) \in Good
    BY <1>5, HandlesFinite
<1>7. f[Cardinality(Handle)] = s[last]
    BY <1>0, <1>2, <1>6, HandlesFinite
<1> QED
    BY <1>7 DEF Final, f

\* The map leads from the head on to r, and r counts as one of the lineage.
LeadsOn(map, from, u, last, s, r, longer, more) ==
    /\ map \in [Handle -> Handle] /\ from \in [Handle -> Handle] /\ u \in Handle /\ r \in Handle
    /\ IsLineage(map, from, u, last, s)
    /\ longer \in [Handle -> Handle] /\ \A h \in Handle : longer[h] = IF h = s[last] THEN r ELSE map[h]
    /\ more \in [Handle -> Handle] /\ \A h \in Handle : more[h] = IF h = r THEN u ELSE from[h]

\* A root that is new to it becomes its head.
LEMMA LineageGrows ==
    ASSUME NEW map, NEW from, NEW u, NEW last, NEW s, NEW r, NEW longer, NEW more,
           LeadsOn(map, from, u, last, s, r, longer, more), from[r] # u, map[r] = r
    PROVE  \E t : IsLineage(longer, more, u, last + 1, t) /\ t[last + 1] = r
<1> DEFINE t == [i \in 0..last + 1 |-> IF i = last + 1 THEN r ELSE s[i]]
<1>0. /\ last \in Nat /\ s \in [0..last -> Handle] /\ s[0] = u
      /\ (\A j, k \in 0..last : s[j] = s[k] => j = k)
      /\ (\A j \in 0..last : from[s[j]] = u /\ map[s[j]] = IF j < last THEN s[j + 1] ELSE s[j])
      /\ \A h \in Handle : from[h] = u => \E i \in 0..last : s[i] = h
      /\ u \in Handle /\ r \in Handle
    BY DEF IsLineage, LeadsOn
<1>1. \A i \in 0..last : s[i] # r /\ s[i] \in Handle
    BY <1>0
<1>2. last + 1 \in Nat /\ t \in [0..last + 1 -> Handle] /\ t[0] = u /\ t[last + 1] = r /\ \A i \in 0..last : t[i] = s[i]
    BY <1>0, <1>1
<1>3. \A i, j \in 0..last + 1 : t[i] = t[j] => i = j
    BY <1>0, <1>1, <1>2
<1>4. \A h \in Handle : /\ more[h] = IF h = r THEN u ELSE from[h]
                       /\ longer[h] = IF h = s[last] THEN r ELSE map[h]
    BY DEF LeadsOn
<1> HIDE DEF t
<1>5. ASSUME NEW i \in 0..last + 1
      PROVE  more[t[i]] = u /\ longer[t[i]] = IF i < last + 1 THEN t[i + 1] ELSE t[i]
    <2>1. CASE i = last + 1
        BY <1>0, <1>1, <1>2, <1>4, <2>1
    <2>2. CASE i = last
        BY <1>0, <1>1, <1>2, <1>4, <2>2
    <2>3. CASE i # last /\ i # last + 1
        <3>1. i \in 0..last /\ i < last /\ i + 1 \in 0..last
            BY <1>0, <2>3
        <3>2. s[i] # s[last] /\ map[s[i]] = s[i + 1] /\ from[s[i]] = u /\ s[i] \in Handle
            BY <1>0, <3>1
        <3> QED
            BY <1>1, <1>2, <1>4, <3>1, <3>2
    <2> QED
        BY <2>1, <2>2, <2>3
<1>6. ASSUME NEW h \in Handle, more[h] = u PROVE \E i \in 0..last + 1 : t[i] = h
    <2>1. CASE h = r
        BY <1>0, <1>2, <2>1
    <2>2. CASE h # r
        <3>1. PICK i \in 0..last : s[i] = h
            BY <1>0, <1>4, <1>6, <2>2
        <3> QED
            BY <1>0, <1>2, <3>1
    <2> QED
        BY <2>1, <2>2
<1>7. IsLineage(longer, more, u, last + 1, t)
    BY <1>2, <1>3, <1>5, <1>6 DEF IsLineage
<1> QED
    BY <1>2, <1>7

\* One that it has been at before closes the map into a cycle.
LEMMA LineageCloses ==
    ASSUME NEW map, NEW from, NEW u, NEW last, NEW s, NEW r, NEW closed, NEW more,
           LeadsOn(map, from, u, last, s, r, closed, more), from[r] = u, r # s[last]
    PROVE  closed[Final(closed, u)] # Final(closed, u)
<1> DEFINE S == {h \in Handle : from[h] = u}
<1>0. /\ last \in Nat /\ s \in [0..last -> Handle] /\ s[0] = u
      /\ (\A j, k \in 0..last : s[j] = s[k] => j = k)
      /\ (\A j \in 0..last : from[s[j]] = u /\ map[s[j]] = IF j < last THEN s[j + 1] ELSE s[j])
      /\ \A h \in Handle : from[h] = u => \E i \in 0..last : s[i] = h
      /\ u \in Handle /\ r \in Handle
    BY DEF IsLineage, LeadsOn
<1>1. closed \in [Handle -> Handle] /\ \A h \in Handle : closed[h] = IF h = s[last] THEN r ELSE map[h]
    BY DEF LeadsOn
<1>2. u \in S /\ r \in S
    BY <1>0
<1>3. ASSUME NEW h \in S PROVE closed[h] \in S /\ closed[h] # h
    <2>1. PICK i \in 0..last : s[i] = h
        BY <1>0
    <2>2. CASE i = last
        BY <1>1, <1>2, <2>1, <2>2
    <2>3. CASE i # last
        <3>1. i < last /\ i + 1 \in 0..last /\ last \in 0..last
            BY <1>0, <2>3
        <3>2. closed[h] = s[i + 1] /\ s[i + 1] \in S /\ s[i + 1] # s[i]
            BY <1>0, <1>1, <2>1, <2>3, <3>1
        <3> QED
            BY <2>1, <3>2
    <2> QED
        BY <2>2, <2>3
<1>4. Final(closed, u) \in S
    BY <1>1, <1>2, <1>3, FinalStays
<1> QED
    BY <1>3, <1>4

(***************************************************************************)
(* The inductive invariant, of one handle, and of one caller where files   *)
(* are removed or listed.                                                  *)
(***************************************************************************)
Opened == CHOOSE h \in User : TRUE

\* Lineages that are opened apart can join (LineageFusion.cfg), and a removal or
\* a listing that waits beside another caller's commit is late (PoisonedRemoval.cfg,
\* StaleListing.cfg).
Calm == User = {Opened} /\ (Removes \/ Lists => \A t, o \in Task : t = o)

Overlay ==
    [head : Handle, key : {Opened}, holdsWrites : BOOLEAN, writes : Root, holdsRemovals : BOOLEAN, removals : SUBSET Path]

AtLocks == [at : {"lock"}, keys : SUBSET {Opened}, ends : BOOLEAN]
AtEngines ==
    [at : {"engine"}, key : {Opened}, keys : SUBSET {Opened}, ends : BOOLEAN, head : Handle, writes : Root,
     removals : SUBSET Path]
AtRms == [at : {"rm"}, user : {Opened}, path : Path, overlay : Overlay]
AtLss == [at : {"ls"}, user : {Opened}, overlay : Overlay]
AtSizes == [at : {"sizes"}, user : {Opened}, entries : Root]

Places == {AtRest} \union AtLocks \union AtEngines \union AtRms \union AtLss \union AtSizes

MapsOK ==
    /\ rootMap \in [Handle -> Handle] /\ origin \in [Handle -> Handle] /\ origin[Opened] = Opened
    /\ \A k \in Handle \ {Opened} : origin[k] # Opened => rootMap[k] = k

\* The dictionaries have an entry for the lineage's first handle only.
DictionariesOK ==
    /\ staged \in [Handle -> Root \union {Nothing}] /\ stagedRm \in [Handle -> (SUBSET Path) \union {Nothing}]
    /\ \A k \in Handle \ {Opened} : staged[k] = Nothing /\ stagedRm[k] = Nothing
    /\ listing \in [User -> Root \union {Nothing}] /\ asked \in [User -> Root]

StagingTypeOK == MapsOK /\ DictionariesOK /\ hung \in BOOLEAN /\ task \in [Task -> Places]

\* One commit at a time, and what is not used is not there.
Disciplined ==
    /\ \A t, o \in Task : task[t].at = "engine" /\ task[o].at = "engine" => t = o
    /\ \A t \in Task : (task[t].at = "rm" => Removes) /\ (task[t].at \in {"ls", "sizes"} => Lists)
    /\ ~Removes => /\ Removals(Opened) = {}
                   /\ \A t \in Task : task[t].at = "engine" => task[t].removals = {}

\* The lineage has a head, or has closed into a cycle, and then no call but a
\* hung one gets as far as the engine (core.py 405-410).
Ordered ==
    /\ ~Endless(Opened) => \E last, s : IsLineage(rootMap, origin, Opened, last, s)
    /\ Endless(Opened) => \A t \in Task : task[t].at # "ls" /\ task[t].at # "rm" /\ (task[t].at = "engine" => hung)

\* What a commit took out is for the head it found, and while it is at work
\* nobody removes (core.py 731-746).
EngineOnHead ==
    \A t \in Task : task[t].at = "engine" =>
        /\ task[t].head = Head(Opened) /\ Removals(Opened) = {}
        /\ \A p \in task[t].removals :
              Content(Head(Opened))[p] # NoFile /\ task[t].writes[p] = NoFile /\ Writes(Opened)[p] = NoFile

\* A removal is of a file that the head has, and that is not written again.
RemovalsAreThere == \A p \in Removals(Opened) : Content(Head(Opened))[p] # NoFile /\ Writes(Opened)[p] = NoFile

\* What rm and ls hold while they wait is what there is.
OverlaysCurrent ==
    \A t \in Task : task[t].at \in {"rm", "ls"} =>
        LET o == task[t].overlay
        IN  o.head = Head(Opened) /\ SeenWrites(o) = Writes(Opened) /\ SeenRemovals(o) = Removals(Opened)

ListedAsAsked ==
    /\ listing[Opened] \in {Nothing, asked[Opened]}
    /\ \A t \in Task : task[t].at = "sizes" => task[t].entries = asked[Opened]

Sound == EngineOnHead /\ RemovalsAreThere /\ OverlaysCurrent /\ Pending(Opened) = asked[Opened] /\ ListedAsAsked

StagingInv == StagingTypeOK /\ Disciplined /\ Ordered /\ (~Endless(Opened) => Sound)

(***************************************************************************)
(* Manifests, and what is staged over them.                                *)
(***************************************************************************)
LEMMA Manifests ==
    /\ Empty \in Root /\ (\A p \in Path : Empty[p] = NoFile)
    /\ \A r, q \in Root : Over(r, q) \in Root /\ \A p \in Path : Over(r, q)[p] = IF r[p] # NoFile THEN r[p] ELSE q[p]
    /\ \A r \in Root : \A paths : Less(r, paths) \in Root /\ \A p \in Path : Less(r, paths)[p] = IF p \in paths THEN NoFile ELSE r[p]
    /\ \A h \in Handle : Content(h) \in Root
BY DEF Empty, Over, Less, Content, Root, Handle

LEMMA SameManifest == ASSUME NEW r \in Root, NEW q \in Root, \A p \in Path : r[p] = q[p] PROVE r = q
BY DEF Root

LEMMA OpenedIsHandle == ASSUME Calm PROVE Opened \in User /\ Opened \in Handle
BY NamesAssumption DEF Calm, User, Handle

LEMMA Dictionaries ==
    Calm /\ StagingTypeOK => Writes(Opened) \in Root /\ Removals(Opened) \in SUBSET Path /\ Head(Opened) \in Handle
<1> SUFFICES ASSUME Calm, StagingTypeOK
             PROVE  Writes(Opened) \in Root /\ Removals(Opened) \in SUBSET Path /\ Head(Opened) \in Handle
    OBVIOUS
<1>1. Opened \in Handle
    BY OpenedIsHandle
<1>2. Writes(Opened) \in Root /\ Removals(Opened) \in SUBSET Path
    BY <1>1, Manifests DEF Writes, Removals, StagingTypeOK, DictionariesOK
<1>3. Final(rootMap, Opened) \in Handle
    BY <1>1, FinalStays DEF StagingTypeOK, MapsOK
<1> QED
    BY <1>2, <1>3, HeadIs

LEMMA HeadOfLineage ==
    ASSUME Calm, StagingTypeOK, NEW last, NEW s, IsLineage(rootMap, origin, Opened, last, s)
    PROVE  ~Endless(Opened) /\ Head(Opened) = s[last] /\ Key(Opened) = Opened
<1>1. last \in Nat /\ s[0] = Opened /\ origin[s[last]] = Opened /\ rootMap[s[last]] = s[last]
    BY DEF IsLineage
<1>2. Final(rootMap, s[0]) = s[last]
    BY <1>1, LineageEnds DEF StagingTypeOK, MapsOK
<1> QED
    BY <1>1, <1>2, HeadIs DEF Endless, Key

\* What a task can say of itself.
LEMMA AtPlaces ==
    ASSUME NEW c \in Places
    PROVE  /\ c.at = "lock" => c.keys \in SUBSET {Opened} /\ c.ends \in BOOLEAN
           /\ c.at = "engine" => /\ c.key = Opened /\ c.keys \in SUBSET {Opened} /\ c.ends \in BOOLEAN
                                 /\ c.head \in Handle /\ c.writes \in Root /\ c.removals \in SUBSET Path
           /\ c.at = "rm" => c.user = Opened /\ c.path \in Path /\ c.overlay \in Overlay
           /\ c.at = "ls" => c.user = Opened /\ c.overlay \in Overlay
           /\ c.at = "sizes" => c.user = Opened /\ c.entries \in Root
BY DEF Places, AtRest, AtLocks, AtEngines, AtRms, AtLss, AtSizes

(***************************************************************************)
(* The commit in flight, if there is one, is of the lineage.               *)
(***************************************************************************)
Orderly == Calm /\ StagingTypeOK /\ Disciplined /\ Ordered /\ ~Endless(Opened)

InSight ==
    /\ Key(Opened) = Opened
    /\ Writes(Opened) \in Root /\ Removals(Opened) \in SUBSET Path /\ Head(Opened) \in Handle
    /\ (\A t \in Task : task[t].at # "engine") => InFlight(Opened) = {} /\ Committing(Opened) = Content(Head(Opened))
    /\ \A t \in Task : task[t].at = "engine" =>
          Committing(Opened) = Over(task[t].writes, Less(Content(Head(Opened)), task[t].removals))

LEMMA Flight == Orderly => InSight
<1> SUFFICES ASSUME Orderly PROVE InSight
    OBVIOUS
<1>1. Key(Opened) = Opened
    BY HeadOfLineage DEF Orderly, Ordered
<1>2. ASSUME \A t \in Task : task[t].at # "engine"
      PROVE  InFlight(Opened) = {} /\ Committing(Opened) = Content(Head(Opened))
    BY <1>1, <1>2 DEF InFlight, Committing
<1>3. ASSUME NEW t \in Task, task[t].at = "engine"
      PROVE  Committing(Opened) = Over(task[t].writes, Less(Content(Head(Opened)), task[t].removals))
    <2>1. task[t].key = Opened
        BY <1>3, AtPlaces DEF Orderly, StagingTypeOK
    <2>2. InFlight(Opened) = {t}
        BY <1>3, <2>1 DEF InFlight, Orderly, Disciplined
    <2>3. (CHOOSE o \in {t} : TRUE) = t
        OBVIOUS
    <2> QED
        BY <1>1, <2>2, <2>3 DEF Committing
<1>4. Writes(Opened) \in Root /\ Removals(Opened) \in SUBSET Path /\ Head(Opened) \in Handle
    BY Dictionaries DEF Orderly
<1> QED
    BY <1>1, <1>2, <1>3, <1>4 DEF InSight

LEMMA FlightNext == Orderly' => InSight'
BY Flight, PTL

\* A step that leaves the roots alone leaves the head where it is.
LEMMA SameHead ==
    ASSUME UNCHANGED lineageVars
    PROVE  Head(Opened)' = Head(Opened) /\ Endless(Opened)' = Endless(Opened)
BY HeadIs DEF lineageVars, Endless

(***************************************************************************)
(* A step of a task that is not with the engine, after which it is at rest *)
(* or at the lock.                                                         *)
(***************************************************************************)
Settles(t) ==
    /\ UNCHANGED lineageVars
    /\ task[t].at # "engine"
    /\ \E place \in {AtRest} \union AtLocks : task' = [task EXCEPT ![t] = place]
    /\ hung' \in BOOLEAN /\ (hung => hung')

\* What it may do to what is staged.
Amends ==
    /\ \A p \in Removals(Opened)' : Content(Head(Opened))[p] # NoFile /\ Writes(Opened)'[p] = NoFile
    /\ Over(Writes(Opened)', Less(Committing(Opened), Removals(Opened)')) = asked'[Opened]
    /\ listing'[Opened] \in {Nothing, asked'[Opened]}

\* The other tasks stay where they are, and where files are removed or listed
\* there are none.
LEMMA Others ==
    ASSUME Calm, StagingTypeOK, NEW t \in Task, Settles(t)
    PROVE  /\ task' \in [Task -> Places]
           /\ \A o \in Task : /\ o # t => task'[o] = task[o]
                              /\ task'[t].at \in {"rest", "lock"}
                              /\ o # t => ~Removes /\ ~Lists
<1>1. PICK place \in {AtRest} \union AtLocks : task' = [task EXCEPT ![t] = place]
    BY DEF Settles
<1>2. place \in Places /\ place.at \in {"rest", "lock"}
    BY DEF Places, AtLocks, AtRest
<1>3. task \in [Task -> Places]
    BY DEF StagingTypeOK
<1>4. \A o \in Task : o # t => ~Removes /\ ~Lists
    BY DEF Calm
<1> QED
    BY <1>1, <1>2, <1>3, <1>4

LEMMA Settled ==
    ASSUME Calm, StagingInv, NEW t \in Task, Settles(t), DictionariesOK', ~Removes => Removals(Opened)' = {},
           ~Endless(Opened) => Amends
    PROVE  StagingInv'
<1>1. StagingTypeOK /\ Disciplined /\ Ordered /\ (~Endless(Opened) => Sound)
    BY DEF StagingInv
<1>2. /\ task' \in [Task -> Places]
      /\ \A o \in Task : o # t => task'[o] = task[o] /\ ~Removes /\ ~Lists
      /\ task'[t].at \in {"rest", "lock"}
    BY <1>1, Others
<1>3. /\ Head(Opened)' = Head(Opened) /\ Endless(Opened)' = Endless(Opened)
      /\ rootMap' = rootMap /\ origin' = origin
      /\ task[t].at # "engine" /\ hung' \in BOOLEAN /\ (hung => hung')
    BY SameHead DEF Settles, lineageVars
<1>4. StagingTypeOK'
    <2>1. MapsOK'
        BY <1>1, <1>3 DEF StagingTypeOK, MapsOK
    <2> QED
        BY <1>2, <1>3, <2>1 DEF StagingTypeOK
<1>5. \A o \in Task : task'[o].at \notin {"rm", "ls", "sizes"}
    BY <1>1, <1>2 DEF Disciplined
<1>6. Disciplined'
    BY <1>1, <1>2, <1>3, <1>5 DEF Disciplined
<1>7. Ordered'
    BY <1>1, <1>2, <1>3, <1>5 DEF Ordered
<1>8. ASSUME ~Endless(Opened) PROVE Sound'
    <2>1. Sound /\ InSight /\ InSight'
        BY <1>1, <1>3, <1>4, <1>6, <1>7, <1>8, Flight, FlightNext DEF Orderly
    <2>2. \A o \in Task : /\ task[o].at = "engine" => o # t /\ task'[o] = task[o] /\ Removals(Opened)' = {}
                          /\ task'[o].at = "engine" => o # t /\ task'[o] = task[o] /\ Removals(Opened)' = {}
        BY <1>2, <1>3
    <2>3. EngineOnHead'
        <3> SUFFICES ASSUME NEW o \in Task, task'[o].at = "engine"
                     PROVE  /\ task'[o].head = Head(Opened)' /\ Removals(Opened)' = {}
                            /\ \A p \in task'[o].removals : /\ Content(Head(Opened)')[p] # NoFile
                                                            /\ task'[o].writes[p] = NoFile
                                                            /\ Writes(Opened)'[p] = NoFile
            BY DEF EngineOnHead, Content
        <3>1. task'[o] = task[o] /\ Removals(Opened)' = {} /\ ~Removes
            BY <1>2, <2>2
        <3>2. task'[o].head = Head(Opened)' /\ task'[o].removals = {}
            BY <1>1, <1>3, <2>1, <3>1 DEF Sound, EngineOnHead, Disciplined
        <3> QED
            BY <3>1, <3>2
    <2>4. RemovalsAreThere'
        BY <1>3, <1>8 DEF RemovalsAreThere, Amends, Content
    <2>5. OverlaysCurrent'
        BY <1>5 DEF OverlaysCurrent
    <2>6. ListedAsAsked'
        BY <1>5, <1>8 DEF ListedAsAsked, Amends
    <2>7. Committing(Opened)' = Committing(Opened) /\ Key(Opened)' = Opened
        <3>1. CASE \A o \in Task : task[o].at # "engine"
            BY <1>3, <2>1, <2>2, <3>1 DEF InSight, Content
        <3>2. CASE \E o \in Task : task[o].at = "engine"
            BY <1>3, <2>1, <2>2, <3>2 DEF InSight, Content
        <3> QED
            BY <3>1, <3>2
    <2>8. Pending(Opened)' = asked'[Opened]
        BY <1>8, <2>7 DEF Pending, Amends, Writes, Removals
    <2> QED
        BY <2>3, <2>4, <2>5, <2>6, <2>8 DEF Sound
<1> QED
    BY <1>3, <1>4, <1>6, <1>7, <1>8 DEF StagingInv

LEMMA DictionariesNext ==
    ASSUME Calm, DictionariesOK'
    PROVE  Writes(Opened)' \in Root /\ Removals(Opened)' \in SUBSET Path /\ asked'[Opened] \in Root
<1>1. Opened \in Handle /\ Opened \in User
    BY OpenedIsHandle
<1> QED
    BY <1>1, Manifests DEF Writes, Removals, DictionariesOK

LEMMA Kept ==
    ASSUME Calm, StagingInv, NEW t \in Task, Settles(t), DictionariesOK',
           Writes(Opened)' = Writes(Opened), Removals(Opened)' = Removals(Opened), asked' = asked,
           listing' = listing \/ listing' = Uncached
    PROVE  StagingInv'
<1>1. ~Removes => Removals(Opened)' = {}
    BY DEF StagingInv, Disciplined
<1>2. ASSUME ~Endless(Opened) PROVE Amends
    <2>1. Sound /\ Key(Opened) = Opened
        BY <1>2, Flight DEF StagingInv, Orderly, InSight
    <2>2. Opened \in User
        BY OpenedIsHandle
    <2> QED
        BY <2>1, <2>2 DEF Sound, RemovalsAreThere, ListedAsAsked, Pending, Amends, Uncached
<1> QED
    BY <1>1, <1>2, Settled

\* What is staged changes at one path: x is what is written there, gone is
\* {p} if the path is removed.
LEMMA StagedAt ==
    ASSUME Calm, StagingInv, NEW t \in Task, Settles(t), DictionariesOK',
           NEW p \in Path, NEW x \in Value \union {NoFile}, NEW gone \in SUBSET {p},
           listing' = Uncached,
           \A q \in Path : Writes(Opened)'[q] = IF q = p THEN x ELSE Writes(Opened)[q],
           Removals(Opened)' = (Removals(Opened) \ {p}) \union gone,
           \A q \in Path : asked'[Opened][q] = IF q = p THEN x ELSE asked[Opened][q],
           gone # {} => Removes /\ x = NoFile /\ Content(Head(Opened))[p] # NoFile,
           ~Endless(Opened) /\ x = NoFile /\ gone = {} => Committing(Opened)[p] = NoFile
    PROVE  StagingInv'
<1>1. ~Removes => Removals(Opened)' = {}
    BY DEF StagingInv, Disciplined
<1>2. ASSUME ~Endless(Opened) PROVE Amends
    <2>1. Sound /\ InSight
        BY <1>2, Flight DEF StagingInv, Orderly
    <2>2. Opened \in User
        BY OpenedIsHandle
    <2>3. /\ Writes(Opened)' \in Root /\ Removals(Opened)' \in SUBSET Path /\ asked'[Opened] \in Root
          /\ Writes(Opened) \in Root
        BY <2>1, DictionariesNext DEF InSight
    <2>4. Content(Head(Opened)) \in Root /\ Committing(Opened) \in Root
        <3>1. Content(Head(Opened)) \in Root
            BY <2>1, Manifests DEF InSight
        <3>2. CASE \A o \in Task : task[o].at # "engine"
            BY <2>1, <3>1, <3>2 DEF InSight
        <3>3. CASE \E o \in Task : task[o].at = "engine"
            <4>1. PICK o \in Task : task[o].at = "engine"
                BY <3>3
            <4>2. task[o].writes \in Root
                BY <4>1, AtPlaces DEF StagingInv, StagingTypeOK
            <4> QED
                BY <2>1, <3>1, <4>1, <4>2, Manifests DEF InSight
        <3> QED
            BY <3>1, <3>2, <3>3
    <2> DEFINE W == Writes(Opened)  R == Removals(Opened)  C == Committing(Opened)
               W2 == Writes(Opened)'  R2 == Removals(Opened)'
    <2>5. \A q \in R : Content(Head(Opened))[q] # NoFile /\ W[q] = NoFile
        BY <2>1 DEF Sound, RemovalsAreThere
    <2>6. Over(W, Less(C, R)) = asked[Opened]
        BY <2>1 DEF Sound, Pending, InSight
    <2>7. \A q \in R2 : q \in Path /\ Content(Head(Opened))[q] # NoFile /\ W2[q] = NoFile
        BY <2>3, <2>5
    <2>8. Over(W2, Less(C, R2)) = asked'[Opened]
        <3>1. Less(C, R) \in Root /\ Less(C, R2) \in Root /\ Over(W2, Less(C, R2)) \in Root
            BY <2>3, <2>4, Manifests
        <3>2. ASSUME NEW q \in Path, q # p PROVE Over(W2, Less(C, R2))[q] = asked'[Opened][q]
            <4>1. W2[q] = W[q] /\ (q \in R2 <=> q \in R) /\ asked'[Opened][q] = asked[Opened][q]
                BY <3>2
            <4>2. /\ Over(W2, Less(C, R2))[q] = IF W2[q] # NoFile THEN W2[q] ELSE IF q \in R2 THEN NoFile ELSE C[q]
                  /\ Over(W, Less(C, R))[q] = IF W[q] # NoFile THEN W[q] ELSE IF q \in R THEN NoFile ELSE C[q]
                BY <2>3, <2>4, <3>1, Manifests
            <4> QED
                BY <2>6, <4>1, <4>2
        <3>3. Over(W2, Less(C, R2))[p] = asked'[Opened][p]
            <4>1. W2[p] = x /\ (p \in R2 <=> gone # {}) /\ asked'[Opened][p] = x
                OBVIOUS
            <4>2. Over(W2, Less(C, R2))[p] = IF W2[p] # NoFile THEN W2[p] ELSE IF p \in R2 THEN NoFile ELSE C[p]
                BY <2>3, <2>4, <3>1, Manifests
            <4> QED
                BY <1>2, <4>1, <4>2
        <3> HIDE DEF W2, R2, C
        <3> QED
            BY <2>3, <3>1, <3>2, <3>3, SameManifest
    <2> QED
        BY <2>2, <2>7, <2>8 DEF Amends, Uncached
<1> QED
    BY <1>1, <1>2, Settled

(***************************************************************************)
(* One lemma per action.                                                   *)
(***************************************************************************)
LEMMA AtRestIs ==
    ASSUME StagingTypeOK, NEW t \in Task, task[t].at = "rest"
    PROVE  task[t] = AtRest /\ task = [task EXCEPT ![t] = AtRest]
<1>1. task[t] = AtRest
    BY DEF StagingTypeOK, Places, AtRest, AtLocks, AtEngines, AtRms, AtLss, AtSizes
<1> QED
    BY <1>1 DEF StagingTypeOK

LEMMA LocksAre == ASSUME NEW keys \in SUBSET {Opened}, NEW ends \in BOOLEAN PROVE AtLock(keys, ends) \in AtLocks
BY DEF AtLock, AtLocks

\* Only the lineage has anything staged.
LEMMA StagedIs == ASSUME Calm, StagingTypeOK PROVE {origin[k] : k \in Staged} \in SUBSET {Opened}
BY DEF Staged, StagingTypeOK, MapsOK, DictionariesOK

\* With nothing staged but the task in another place.
LEMMA Moves ==
    ASSUME Calm, StagingInv, NEW t \in Task, NEW place \in {AtRest} \union AtLocks,
           task' = [task EXCEPT ![t] = place], task[t].at # "engine", UNCHANGED <<lineageVars, stageVars, listing, asked>>,
           hung' \in BOOLEAN, hung => hung'
    PROVE  StagingInv'
<1>1. Settles(t)
    BY DEF Settles, lineageVars
<1>2. DictionariesOK' /\ Writes(Opened)' = Writes(Opened) /\ Removals(Opened)' = Removals(Opened)
    BY DEF StagingInv, StagingTypeOK, DictionariesOK, stageVars, Writes, Removals
<1> QED
    BY <1>1, <1>2, Kept

LEMMA HangsSound == ASSUME Calm, StagingInv, NEW t \in Task, NEW h \in User, Hangs(t, h) PROVE StagingInv'
<1>1. task' = [task EXCEPT ![t] = AtRest] /\ task[t].at # "engine"
    BY AtRestIs DEF Hangs, Call, StagingInv
<1>2. UNCHANGED <<lineageVars, stageVars, listing, asked>> /\ hung' \in BOOLEAN /\ (hung => hung')
    BY DEF Hangs
<1> QED
    BY <1>1, <1>2, Moves

LEMMA BeginSound == ASSUME Calm, StagingInv, NEW t \in Task, Begin(t) PROVE StagingInv'
<1>1. task' = [task EXCEPT ![t] = AtRest] /\ task[t].at # "engine"
    BY AtRestIs DEF Begin, Call, StagingInv
<1>2. UNCHANGED <<lineageVars, stageVars, listing, asked>> /\ hung' \in BOOLEAN /\ (hung => hung')
    BY DEF Begin, StagingInv, StagingTypeOK
<1> QED
    BY <1>1, <1>2, Moves

LEMMA EndCommitsSound == ASSUME Calm, StagingInv, NEW t \in Task, EndCommits(t) PROVE StagingInv'
<1>1. task[t].at # "engine" /\ \E place \in {AtRest} \union AtLocks : task' = [task EXCEPT ![t] = place]
    <2>1. CASE Staged = {}
        BY <2>1, AtRestIs DEF EndCommits, StagingInv
    <2>2. CASE Staged # {}
        <3>1. AtLock({origin[k] : k \in Staged}, TRUE) \in AtLocks
            BY StagedIs, LocksAre DEF StagingInv
        <3> QED
            BY <2>2, <3>1 DEF EndCommits, Goes
    <2> QED
        BY <2>1, <2>2
<1>2. UNCHANGED <<lineageVars, stageVars, listing, asked>> /\ hung' \in BOOLEAN /\ (hung => hung')
    BY DEF EndCommits, StagingInv, StagingTypeOK
<1> QED
    BY <1>1, <1>2, Moves

LEMMA CommitAllSound == ASSUME Calm, StagingInv, NEW t \in Task, CommitAll(t) PROVE StagingInv'
<1>1. AtLock({origin[k] : k \in Staged}, FALSE) \in AtLocks
    BY StagedIs, LocksAre DEF StagingInv
<1>2. task' = [task EXCEPT ![t] = AtLock({origin[k] : k \in Staged}, FALSE)] /\ task[t].at # "engine"
    BY DEF CommitAll, Call, Goes
<1>3. UNCHANGED <<lineageVars, stageVars, listing, asked>> /\ hung' \in BOOLEAN /\ (hung => hung')
    BY DEF CommitAll, StagingInv, StagingTypeOK
<1> QED
    BY <1>1, <1>2, <1>3, Moves

LEMMA AfterStagingIs == AfterStaging(Opened) \in {AtRest} \union AtLocks
BY LocksAre DEF AfterStaging

LEMMA WriteSound ==
    ASSUME Calm, StagingInv, NEW t \in Task, NEW h \in User, NEW p \in Path, NEW v \in Value, Write(t, h, p, v)
    PROVE  StagingInv'
<1>0. h = Opened /\ StagingTypeOK /\ ~Endless(Opened) /\ Key(Opened) = Opened /\ Opened \in Handle /\ Opened \in User
    BY OpenedIsHandle, Flight DEF StagingInv, Orderly, InSight, Write, Calm
<1>1. Settles(t)
    BY <1>0, AfterStagingIs DEF Settles, Write, Call, Goes, StagingTypeOK
<1>2. Writes(Opened) \in Root /\ Removals(Opened) \in SUBSET Path
    BY <1>0, Dictionaries
<1>3. /\ staged' = [staged EXCEPT ![Opened] = [Writes(Opened) EXCEPT ![p] = v]]
      /\ stagedRm' = [stagedRm EXCEPT ![Opened] = IF @ = Nothing THEN Nothing ELSE @ \ {p}]
      /\ listing' = Uncached /\ asked' = [asked EXCEPT ![Opened][p] = v]
    BY <1>0 DEF Write, StageWrite
<1>4. [Writes(Opened) EXCEPT ![p] = v] \in Root /\ \A q \in Path : [Writes(Opened) EXCEPT ![p] = v][q] = IF q = p THEN v ELSE Writes(Opened)[q]
    BY <1>2 DEF Root
<1>5. /\ Writes(Opened)' = [Writes(Opened) EXCEPT ![p] = v]
      /\ Removals(Opened)' = Removals(Opened) \ {p}
    BY <1>0, <1>3, <1>4, NamesAssumption DEF Writes, Removals, StagingTypeOK, DictionariesOK
<1>6. asked'[Opened] \in Root /\ \A q \in Path : asked'[Opened][q] = IF q = p THEN v ELSE asked[Opened][q]
    BY <1>0, <1>3 DEF StagingTypeOK, DictionariesOK, Root
<1>7. DictionariesOK'
    BY <1>0, <1>3, <1>4, <1>6 DEF StagingTypeOK, DictionariesOK, Uncached
<1>8. v # NoFile
    BY NamesAssumption
<1>9. \A q \in Path : Writes(Opened)'[q] = IF q = p THEN v ELSE Writes(Opened)[q]
    BY <1>4, <1>5
<1> DEFINE gone == {}
<1>10. gone \in SUBSET {p} /\ gone = {} /\ v \in Value \union {NoFile} /\ Removals(Opened)' = (Removals(Opened) \ {p}) \union gone
    BY <1>5
<1> HIDE DEF gone
<1> QED
    BY <1>1, <1>3, <1>6, <1>7, <1>8, <1>9, <1>10, StagedAt

LEMMA RemovedAt ==
    ASSUME Calm, StagingInv, ~Endless(Opened), NEW t \in Task, Settles(t), Removes,
           NEW p \in Path, NEW gone \in SUBSET {p}, NEW dict \in (SUBSET Path) \union {Nothing},
           staged' = WithoutWrite(Opened, p), stagedRm' = [stagedRm EXCEPT ![Opened] = dict],
           (IF dict = Nothing THEN {} ELSE dict) = (Removals(Opened) \ {p}) \union gone,
           listing' = Uncached, asked' = [asked EXCEPT ![Opened][p] = NoFile],
           gone # {} <=> Content(Head(Opened))[p] # NoFile
    PROVE  StagingInv'
<1>0. StagingTypeOK /\ Opened \in Handle /\ Opened \in User /\ InSight
    BY OpenedIsHandle, Flight DEF StagingInv, Orderly
<1>1. Committing(Opened) = Content(Head(Opened))
    <2>1. \A o \in Task : task[o].at # "engine"
        BY <1>0, Others DEF Settles
    <2> QED
        BY <1>0, <2>1 DEF InSight
<1>2. staged'[Opened] = IF staged[Opened] = Nothing THEN Nothing ELSE [staged[Opened] EXCEPT ![p] = NoFile]
    BY <1>0 DEF WithoutWrite, StagingTypeOK, DictionariesOK
<1>3. staged[Opened] # Nothing =>
        /\ staged[Opened] \in Root /\ [staged[Opened] EXCEPT ![p] = NoFile] \in Root
        /\ \A q \in Path : [staged[Opened] EXCEPT ![p] = NoFile][q] = IF q = p THEN NoFile ELSE staged[Opened][q]
    BY <1>0 DEF StagingTypeOK, DictionariesOK, Root
<1>4. \A q \in Path : Writes(Opened)'[q] = IF q = p THEN NoFile ELSE Writes(Opened)[q]
    BY <1>2, <1>3, Manifests, NamesAssumption DEF Writes
<1>5. Removals(Opened)' = (Removals(Opened) \ {p}) \union gone
    BY <1>0 DEF Removals, StagingTypeOK, DictionariesOK
<1>6. asked'[Opened] \in Root /\ \A q \in Path : asked'[Opened][q] = IF q = p THEN NoFile ELSE asked[Opened][q]
    BY <1>0 DEF StagingTypeOK, DictionariesOK, Root
<1>7. DictionariesOK'
    <2>1. staged' \in [Handle -> Root \union {Nothing}] /\ \A k \in Handle \ {Opened} : staged'[k] = Nothing
        BY <1>0, <1>2, <1>3 DEF WithoutWrite, StagingTypeOK, DictionariesOK
    <2> QED
        BY <1>0, <1>6, <2>1 DEF StagingTypeOK, DictionariesOK, Uncached
<1>8. gone # {} => Removes /\ NoFile = NoFile /\ Content(Head(Opened))[p] # NoFile
    OBVIOUS
<1>9. ~Endless(Opened) /\ NoFile = NoFile /\ gone = {} => Committing(Opened)[p] = NoFile
    BY <1>1
<1> DEFINE x == NoFile
<1>10. x \in Value \union {NoFile} /\ x = NoFile
    OBVIOUS
<1> HIDE DEF x
<1>11. /\ \A q \in Path : Writes(Opened)'[q] = IF q = p THEN x ELSE Writes(Opened)[q]
       /\ \A q \in Path : asked'[Opened][q] = IF q = p THEN x ELSE asked[Opened][q]
       /\ gone # {} => Removes /\ x = NoFile /\ Content(Head(Opened))[p] # NoFile
       /\ ~Endless(Opened) /\ x = NoFile /\ gone = {} => Committing(Opened)[p] = NoFile
    BY <1>4, <1>6, <1>8, <1>9, <1>10
<1> QED
    BY <1>5, <1>7, <1>10, <1>11, StagedAt

\* The entry of a path, without it.
LEMMA WithoutRemoval ==
    ASSUME Calm, StagingTypeOK, NEW p \in Path
    PROVE  LET dict == IF stagedRm[Opened] = Nothing THEN Nothing ELSE stagedRm[Opened] \ {p}
           IN  /\ dict \in (SUBSET Path) \union {Nothing}
               /\ (IF dict = Nothing THEN {} ELSE dict) = Removals(Opened) \ {p}
BY OpenedIsHandle, NamesAssumption DEF StagingTypeOK, DictionariesOK, Removals

LEMMA UnstagesSound ==
    ASSUME Calm, StagingInv, ~Endless(Opened), NEW t \in Task, Settles(t), Removes, NEW p \in Path,
           Unstages(t, Opened, Opened, p), Content(Head(Opened))[p] = NoFile
    PROVE  StagingInv'
<1> DEFINE dict == IF stagedRm[Opened] = Nothing THEN Nothing ELSE stagedRm[Opened] \ {p}
           gone == {}
<1>0. StagingTypeOK /\ Opened \in Handle
    BY OpenedIsHandle DEF StagingInv
<1>1. dict \in (SUBSET Path) \union {Nothing} /\ (IF dict = Nothing THEN {} ELSE dict) = (Removals(Opened) \ {p}) \union gone
    BY <1>0, WithoutRemoval
<1>2. /\ staged' = WithoutWrite(Opened, p) /\ stagedRm' = [stagedRm EXCEPT ![Opened] = dict]
      /\ listing' = Uncached /\ asked' = [asked EXCEPT ![Opened][p] = NoFile]
    BY <1>0 DEF Unstages, StagingTypeOK, DictionariesOK
<1>3. gone \in SUBSET {p} /\ (gone # {} <=> Content(Head(Opened))[p] # NoFile)
    OBVIOUS
<1> HIDE DEF dict, gone
<1> QED
    BY <1>1, <1>2, <1>3, RemovedAt

LEMMA RmFreshSound ==
    ASSUME Calm, StagingInv, NEW t \in Task, NEW h \in User, NEW p \in Path, RmFresh(t, h, p)
    PROVE  StagingInv'
<1>1. h = Opened /\ ~Endless(Opened) /\ Key(Opened) = Opened /\ Removes
    BY Flight DEF StagingInv, Orderly, InSight, RmFresh, Calm
<1>2. Unstages(t, Opened, Opened, p)
    BY <1>1 DEF RmFresh
<1>3. Settles(t)
    BY <1>2 DEF RmFresh, Call, Unstages, Settles, Goes, StagingInv, StagingTypeOK
<1>4. Content(Head(Opened))[p] = NoFile
    BY <1>1, Manifests DEF RmFresh, Content
<1> QED
    BY <1>1, <1>2, <1>3, <1>4, UnstagesSound

LEMMA RmSound == ASSUME Calm, StagingInv, NEW t \in Task, Rm(t) PROVE StagingInv'
<1> DEFINE o == task[t].overlay
           p == task[t].path
<1>1. ~hung /\ task[t].at = "rm" /\ StagingTypeOK /\ Opened \in Handle
    BY OpenedIsHandle DEF Rm, StagingInv
<1>2. ~Endless(Opened)
    BY <1>1 DEF StagingInv, Ordered
<1>3. Removes /\ task[t].user = Opened /\ p \in Path
    BY <1>1, AtPlaces DEF StagingInv, StagingTypeOK, Disciplined
<1>4. Sound /\ InSight
    BY <1>2, Flight DEF StagingInv, Orderly
<1>5. o.head = Head(Opened) /\ SeenWrites(o) = Writes(Opened) /\ SeenRemovals(o) = Removals(Opened) /\ origin[o.head] = Opened
    BY <1>1, <1>4 DEF Sound, OverlaysCurrent, InSight, Key
<1>6. p \in Removals(Opened) => Content(Head(Opened))[p] # NoFile /\ Writes(Opened)[p] = NoFile
    BY <1>4 DEF Sound, RemovalsAreThere
<1>7. \/ InManifest(o, p) /\ staged' = WithoutWrite(Opened, p)
         /\ stagedRm' = [stagedRm EXCEPT ![Opened] = Removals(Opened) \union {p}]
         /\ listing' = Uncached /\ asked' = [asked EXCEPT ![Opened][p] = NoFile] /\ Goes(t, AfterStaging(Opened))
      \/ ~InManifest(o, p) /\ SeenWrites(o)[p] # NoFile /\ Unstages(t, Opened, Opened, p)
      \/ Goes(t, AtRest) /\ UNCHANGED <<stageVars, listing, asked>>
    BY <1>3, <1>5 DEF Rm
<1>8. UNCHANGED lineageVars /\ hung' = hung
    BY DEF Rm
<1>9. Settles(t)
    BY <1>1, <1>7, <1>8, AfterStagingIs DEF Goes, Unstages, Settles, StagingTypeOK
<1> HIDE DEF o, p
<1>10. CASE InManifest(o, p) /\ staged' = WithoutWrite(Opened, p)
            /\ stagedRm' = [stagedRm EXCEPT ![Opened] = Removals(Opened) \union {p}]
            /\ listing' = Uncached /\ asked' = [asked EXCEPT ![Opened][p] = NoFile]
    <2> DEFINE gone == {p}
               dict == Removals(Opened) \union {p}
    <2>1. gone \in SUBSET {p} /\ (gone # {} <=> Content(Head(Opened))[p] # NoFile)
        BY <1>5, <1>10 DEF InManifest
    <2>2. dict \in (SUBSET Path) \union {Nothing} /\ (IF dict = Nothing THEN {} ELSE dict) = (Removals(Opened) \ {p}) \union gone
        BY <1>3, <1>4, NamesAssumption DEF InSight
    <2>3. stagedRm' = [stagedRm EXCEPT ![Opened] = dict]
        BY <1>10
    <2> HIDE DEF gone, dict
    <2> QED
        BY <1>2, <1>3, <1>9, <1>10, <2>1, <2>2, <2>3, RemovedAt
<1>11. CASE ~InManifest(o, p) /\ SeenWrites(o)[p] # NoFile /\ Unstages(t, Opened, Opened, p)
    <2>1. Content(Head(Opened))[p] = NoFile
        BY <1>5, <1>6, <1>11 DEF InManifest
    <2> QED
        BY <1>2, <1>3, <1>9, <1>11, <2>1, UnstagesSound
<1>12. CASE Goes(t, AtRest) /\ UNCHANGED <<stageVars, listing, asked>>
    <2>1. task' = [task EXCEPT ![t] = AtRest] /\ task[t].at # "engine"
        BY <1>1, <1>12 DEF Goes
    <2>2. hung' \in BOOLEAN /\ (hung => hung')
        BY <1>1, <1>8 DEF StagingTypeOK
    <2> QED
        BY <1>8, <1>12, <2>1, <2>2, Moves
<1> QED
    BY <1>7, <1>10, <1>11, <1>12

\* Where a task takes the dictionaries away there is none that holds them.
LEMMA LetGoNone ==
    ASSUME Calm, StagingInv, NEW t \in Task, task[t].at \notin {"rm", "ls"}, NEW keys
    PROVE  LetGo(task, keys) = task
<1>1. ASSUME NEW o \in Task PROVE task[o].at \notin {"rm", "ls"}
    BY DEF StagingInv, Disciplined, Calm
<1> QED
    BY <1>1 DEF LetGo, StagingInv, StagingTypeOK

LEMMA EndDiscardsSound == ASSUME Calm, StagingInv, NEW t \in Task, EndDiscards(t) PROVE StagingInv'
<1>0. StagingTypeOK /\ Opened \in Handle /\ Opened \in User
    BY OpenedIsHandle DEF StagingInv
<1>1. task' = task /\ task[t].at = "rest"
    BY LetGoNone DEF EndDiscards
<1>2. Settles(t)
    BY <1>0, <1>1, AtRestIs DEF EndDiscards, Settles, StagingTypeOK
<1>3. Writes(Opened)' = Empty /\ Removals(Opened)' = {}
    BY <1>0 DEF EndDiscards, Writes, Removals
<1>4. asked'[Opened] = Committing(Opened) /\ listing'[Opened] = Nothing
    BY <1>0 DEF EndDiscards, Uncached
<1>5. ASSUME NEW h \in User PROVE Committing(h) \in Root
    <2>1. h = Opened
        BY DEF Calm
    <2>2. Head(Opened) \in Handle
        BY <1>0, Dictionaries
    <2>3. Content(Head(Opened)) \in Root
        BY <2>2, Manifests
    <2>4. CASE InFlight(Key(Opened)) = {}
        BY <2>1, <2>3, <2>4 DEF Committing
    <2>5. CASE InFlight(Key(Opened)) # {}
        <3> DEFINE c == CHOOSE o \in InFlight(Key(Opened)) : TRUE
        <3>1. c \in InFlight(Key(Opened))
            BY <2>5
        <3> HIDE DEF c
        <3>2. c \in Task /\ task[c].at = "engine"
            BY <3>1 DEF InFlight
        <3>3. task[c].writes \in Root
            BY <1>0, <3>2, AtPlaces DEF StagingTypeOK
        <3>4. Committing(Opened) = Over(task[c].writes, Less(Content(Head(Opened)), task[c].removals))
            BY <2>5 DEF Committing, c
        <3> QED
            BY <2>1, <2>3, <3>3, <3>4, Manifests
    <2> QED
        BY <2>4, <2>5
<1>6. DictionariesOK'
    BY <1>5 DEF EndDiscards, DictionariesOK, Uncached
<1>7. Over(Empty, Less(Committing(Opened), {})) = Committing(Opened)
    <2>1. Committing(Opened) \in Root /\ Less(Committing(Opened), {}) \in Root
        BY <1>0, <1>5, Manifests
    <2>2. Over(Empty, Less(Committing(Opened), {})) \in Root
        BY <2>1, Manifests
    <2>3. \A q \in Path : Over(Empty, Less(Committing(Opened), {}))[q] = Committing(Opened)[q]
        BY <2>1, Manifests
    <2> QED
        BY <2>1, <2>2, <2>3, SameManifest
<1>8. Amends
    BY <1>3, <1>4, <1>7 DEF Amends
<1> QED
    BY <1>2, <1>3, <1>6, <1>8, Settled

(***************************************************************************)
(* Looking up and listing, by the only caller there is.                    *)
(***************************************************************************)
\* What a call finds when it looks up is what there is, and a listing of it is
\* what was asked for.
LEMMA LooksUpIs ==
    ASSUME Calm, StagingInv, ~Endless(Opened)
    PROVE  /\ LooksUp(Opened) \in Overlay /\ LooksUp(Opened).head = Head(Opened)
           /\ SeenWrites(LooksUp(Opened)) = Writes(Opened) /\ SeenRemovals(LooksUp(Opened)) = Removals(Opened)
<1>1. InSight
    BY Flight DEF StagingInv, Orderly
<1> QED
    BY <1>1, Manifests DEF InSight, LooksUp, Overlay, SeenWrites, SeenRemovals, Writes, Removals

LEMMA ListingIs ==
    ASSUME Calm, StagingInv, ~Endless(Opened), \A t \in Task : task[t].at # "engine",
           NEW o, o.head = Head(Opened), SeenWrites(o) = Writes(Opened), SeenRemovals(o) = Removals(Opened)
    PROVE  Listing(o) = asked[Opened] /\ asked[Opened] \in Root
<1>1. InSight /\ Sound
    BY Flight DEF StagingInv, Orderly
<1>2. Over(Writes(Opened), Less(Content(Head(Opened)), Removals(Opened))) = asked[Opened]
    BY <1>1 DEF InSight, Sound, Pending
<1> QED
    BY <1>2, OpenedIsHandle DEF Listing, StagingInv, StagingTypeOK, DictionariesOK

\* A step of that caller which leaves everything as it is but its own place.
LEMMA Waits ==
    ASSUME Calm, StagingInv, ~Endless(Opened), NEW t \in Task, NEW place \in Places,
           task' = [task EXCEPT ![t] = place], task[t].at # "engine", UNCHANGED <<lineageVars, stageVars, listing, asked, hung>>,
           (place.at = "rm" /\ Removes) \/ (place.at \in {"ls", "sizes"} /\ Lists),
           place.at \in {"rm", "ls"} => /\ place.overlay.head = Head(Opened)
                                        /\ SeenWrites(place.overlay) = Writes(Opened)
                                        /\ SeenRemovals(place.overlay) = Removals(Opened),
           place.at = "sizes" => place.entries = asked[Opened]
    PROVE  StagingInv'
<1>1. StagingTypeOK /\ Disciplined /\ Ordered /\ Sound /\ InSight
    BY Flight DEF StagingInv, Orderly
<1>2. task' \in [Task -> Places] /\ \A o \in Task : o = t /\ task'[o] = place /\ task[o].at # "engine" /\ task'[o].at # "engine"
    BY <1>1 DEF Calm, StagingTypeOK
<1>3. /\ Head(Opened)' = Head(Opened) /\ Endless(Opened)' = Endless(Opened)
      /\ rootMap' = rootMap /\ origin' = origin /\ hung' = hung /\ listing' = listing /\ asked' = asked
      /\ Writes(Opened)' = Writes(Opened) /\ Removals(Opened)' = Removals(Opened)
    BY SameHead DEF lineageVars, stageVars, Writes, Removals
<1>4. StagingTypeOK'
    BY <1>1, <1>2, <1>3 DEF StagingTypeOK, MapsOK, DictionariesOK, stageVars
<1>5. Disciplined'
    BY <1>1, <1>2, <1>3 DEF Disciplined
<1>6. Ordered'
    BY <1>1, <1>3 DEF Ordered
<1>7. InSight'
    BY <1>3, <1>4, <1>5, <1>6, FlightNext DEF Orderly
<1>8. Committing(Opened)' = Committing(Opened) /\ Key(Opened)' = Key(Opened)
    BY <1>1, <1>2, <1>3, <1>7 DEF InSight, Content
<1>9. Pending(Opened)' = asked'[Opened]
    BY <1>1, <1>3, <1>7, <1>8 DEF Pending, Sound, InSight, Writes, Removals
<1>10. EngineOnHead' /\ RemovalsAreThere'
    BY <1>1, <1>2, <1>3 DEF EngineOnHead, RemovalsAreThere, Sound, Content
<1>11. OverlaysCurrent'
    <2>1. SeenWrites(place.overlay)' = SeenWrites(place.overlay) /\ SeenRemovals(place.overlay)' = SeenRemovals(place.overlay)
        BY DEF SeenWrites, SeenRemovals, Writes, Removals, stageVars
    <2> QED
        BY <1>2, <1>3, <2>1 DEF OverlaysCurrent, SeenWrites, SeenRemovals
<1>12. ListedAsAsked'
    BY <1>1, <1>2, <1>3 DEF ListedAsAsked, Sound
<1> QED
    BY <1>3, <1>4, <1>5, <1>6, <1>9, <1>10, <1>11, <1>12 DEF StagingInv, Sound

LEMMA RmLooksUpSound ==
    ASSUME Calm, StagingInv, NEW t \in Task, NEW h \in User, NEW p \in Path, RmLooksUp(t, h, p)
    PROVE  StagingInv'
<1> DEFINE place == [at |-> "rm", user |-> Opened, path |-> p, overlay |-> LooksUp(Opened)]
<1>1. h = Opened /\ ~Endless(Opened) /\ Removes /\ task' = [task EXCEPT ![t] = place] /\ task[t].at # "engine"
    BY DEF RmLooksUp, Calm, Call, Goes
<1>2. UNCHANGED <<lineageVars, stageVars, listing, asked, hung>>
    BY DEF RmLooksUp
<1>3. place \in Places /\ place.at = "rm" /\ place.overlay = LooksUp(Opened)
    BY <1>1, LooksUpIs DEF Places, AtRms
<1>4. /\ place.overlay.head = Head(Opened)
      /\ SeenWrites(place.overlay) = Writes(Opened) /\ SeenRemovals(place.overlay) = Removals(Opened)
    BY <1>1, <1>3, LooksUpIs
<1> HIDE DEF place
<1> QED
    BY <1>1, <1>2, <1>3, <1>4, Waits

LEMMA LsLooksUpSound ==
    ASSUME Calm, StagingInv, NEW t \in Task, NEW h \in User, LsLooksUp(t, h)
    PROVE  StagingInv'
<1>1. /\ h = Opened /\ ~Endless(Opened) /\ Lists /\ task[t].at = "rest"
      /\ UNCHANGED <<lineageVars, stageVars, hung, asked>>
    BY DEF LsLooksUp, Calm
<1>2. StagingTypeOK /\ Opened \in User
    BY OpenedIsHandle DEF StagingInv
<1>3. \A o \in Task : task[o].at # "engine"
    BY <1>1 DEF Calm
<1>4. CASE Head(Opened) \in Pseudo
    <2>1. listing' = [listing EXCEPT ![Opened] = asked[Opened]] /\ task' = task /\ asked[Opened] \in Root
        BY <1>1, <1>3, <1>4, LooksUpIs, ListingIs DEF LsLooksUp
    <2>2. Settles(t)
        BY <1>1, <1>2, <2>1, AtRestIs DEF Settles, StagingTypeOK
    <2>3. /\ DictionariesOK' /\ Writes(Opened)' = Writes(Opened) /\ Removals(Opened)' = Removals(Opened)
          /\ listing'[Opened] = asked[Opened]
        BY <1>1, <1>2, <2>1 DEF StagingTypeOK, DictionariesOK, stageVars, Writes, Removals
    <2>4. ~Removes => Removals(Opened)' = {}
        BY <2>3 DEF StagingInv, Disciplined
    <2>5. Sound /\ Key(Opened) = Opened
        BY <1>1, Flight DEF StagingInv, Orderly, InSight
    <2>6. Amends
        BY <1>1, <2>3, <2>5 DEF Sound, RemovalsAreThere, Pending, Amends
    <2> QED
        BY <2>2, <2>3, <2>4, <2>6, Settled
<1>5. CASE Head(Opened) \notin Pseudo
    <2> DEFINE place == [at |-> "ls", user |-> Opened, overlay |-> LooksUp(Opened)]
    <2>1. task' = [task EXCEPT ![t] = place] /\ UNCHANGED listing
        BY <1>1, <1>5 DEF LsLooksUp, Goes
    <2>2. place \in Places /\ place.at = "ls" /\ place.overlay = LooksUp(Opened)
        BY <1>1, LooksUpIs DEF Places, AtLss
    <2> HIDE DEF place
    <2> QED
        BY <1>1, <1>3, <2>1, <2>2, LooksUpIs, Waits
<1> QED
    BY <1>4, <1>5

LEMMA LsOverlaysSound == ASSUME Calm, StagingInv, NEW t \in Task, LsOverlays(t) PROVE StagingInv'
<1> DEFINE o == task[t].overlay
           place == [at |-> "sizes", user |-> task[t].user, entries |-> Listing(o)]
<1>1. /\ task[t].at = "ls" /\ task' = [task EXCEPT ![t] = place]
      /\ UNCHANGED <<lineageVars, stageVars, listing, asked, hung>>
    BY DEF LsOverlays, Goes
<1>2. StagingTypeOK /\ ~Endless(Opened) /\ Lists
    BY <1>1 DEF StagingInv, Ordered, Disciplined
<1>3. \A u \in Task : task[u].at # "engine"
    BY <1>1, <1>2 DEF Calm
<1>4. o.head = Head(Opened) /\ SeenWrites(o) = Writes(Opened) /\ SeenRemovals(o) = Removals(Opened)
    BY <1>1, <1>2 DEF StagingInv, Sound, OverlaysCurrent
<1> HIDE DEF o
<1>5. Listing(o) = asked[Opened] /\ asked[Opened] \in Root
    BY <1>2, <1>3, <1>4, ListingIs
<1>6. task[t].user = Opened
    BY <1>1, <1>2, AtPlaces DEF StagingTypeOK
<1>7. place \in Places /\ place.at = "sizes" /\ place.entries = asked[Opened]
    BY <1>5, <1>6 DEF Places, AtSizes
<1> HIDE DEF place
<1> QED
    BY <1>1, <1>2, <1>7, Waits

LEMMA LsCachesSound == ASSUME Calm, StagingInv, NEW t \in Task, LsCaches(t) PROVE StagingInv'
<1>1. /\ task[t].at = "sizes" /\ StagingTypeOK /\ Opened \in User
      /\ task' = [task EXCEPT ![t] = AtRest] /\ listing' = [listing EXCEPT ![task[t].user] = task[t].entries]
      /\ UNCHANGED <<lineageVars, stageVars, hung, asked>>
    BY OpenedIsHandle DEF LsCaches, Goes, StagingInv
<1>2. task[t].user = Opened /\ task[t].entries \in Root
    BY <1>1, AtPlaces DEF StagingTypeOK
<1>3. Settles(t)
    BY <1>1 DEF Settles, StagingTypeOK
<1>4. /\ DictionariesOK' /\ Writes(Opened)' = Writes(Opened) /\ Removals(Opened)' = Removals(Opened)
      /\ listing'[Opened] = task[t].entries
    BY <1>1, <1>2 DEF StagingTypeOK, DictionariesOK, stageVars, Writes, Removals
<1>5. ~Removes => Removals(Opened)' = {}
    BY <1>4 DEF StagingInv, Disciplined
<1>6. ASSUME ~Endless(Opened) PROVE Amends
    <2>1. Sound /\ Key(Opened) = Opened
        BY <1>6, Flight DEF StagingInv, Orderly, InSight
    <2> QED
        BY <1>1, <1>4, <2>1 DEF Sound, RemovalsAreThere, ListedAsAsked, Pending, Amends
<1> QED
    BY <1>3, <1>4, <1>5, <1>6, Settled

(***************************************************************************)
(* The commit engine.                                                      *)
(***************************************************************************)
LEMMA OverNothing ==
    ASSUME NEW r \in Root PROVE Over(Empty, Less(r, {})) = r
<1>1. Empty \in Root /\ Less(r, {}) \in Root
    BY Manifests
<1>2. Over(Empty, Less(r, {})) \in Root /\ \A q \in Path : Over(Empty, Less(r, {}))[q] = r[q]
    BY <1>1, Manifests
<1> QED
    BY <1>2, SameManifest

\* A commit of nothing.
LEMMA TakesNothing ==
    ASSUME Calm, StagingInv, NEW t \in Task, task[t].at = "lock",
           staged' = [staged EXCEPT ![Opened] = Nothing], stagedRm' = [stagedRm EXCEPT ![Opened] = Nothing],
           Writes(Opened) = Empty, Removals(Opened) = {},
           NEW keys \in SUBSET {Opened}, NEW ends \in BOOLEAN, Onward(t, keys, ends, task),
           UNCHANGED <<lineageVars, listing, asked, hung>>
    PROVE  StagingInv'
<1>0. StagingTypeOK /\ Opened \in Handle
    BY OpenedIsHandle DEF StagingInv
<1>1. \E place \in {AtRest} \union AtLocks : task' = [task EXCEPT ![t] = place]
    BY LocksAre DEF Onward
<1>2. Settles(t)
    BY <1>0, <1>1 DEF Settles, StagingTypeOK
<1>3. Writes(Opened)' = Writes(Opened) /\ Removals(Opened)' = Removals(Opened) /\ DictionariesOK'
    BY <1>0 DEF Writes, Removals, StagingTypeOK, DictionariesOK
<1> QED
    BY <1>2, <1>3, Kept

LEMMA TakesSomething ==
    ASSUME Calm, StagingInv, NEW t \in Task, LockFree, task[t].at = "lock",
           staged' = [staged EXCEPT ![Opened] = Nothing], stagedRm' = [stagedRm EXCEPT ![Opened] = Nothing],
           NEW c \in AtEngines, c.head = Head(Opened), c.writes = Writes(Opened), c.removals = Removals(Opened),
           task' = [task EXCEPT ![t] = c], hung' = Endless(Opened), UNCHANGED <<lineageVars, listing, asked>>
    PROVE  StagingInv'
<1>0. StagingTypeOK /\ Disciplined /\ Ordered /\ Opened \in Handle /\ Opened \in User
    BY OpenedIsHandle DEF StagingInv
<1>1. /\ Head(Opened)' = Head(Opened) /\ Endless(Opened)' = Endless(Opened)
      /\ rootMap' = rootMap /\ origin' = origin
    BY SameHead DEF lineageVars
<1>2. Writes(Opened)' = Empty /\ Removals(Opened)' = {}
    BY <1>0 DEF Writes, Removals, StagingTypeOK, DictionariesOK
<1>3. c.at = "engine" /\ c \in Places
    BY DEF AtEngines, Places
<1>4. /\ task' \in [Task -> Places] /\ task'[t] = c
      /\ \A o \in Task : o # t => task'[o] = task[o] /\ ~Removes /\ ~Lists
      /\ \A o \in Task : task[o].at # "engine" /\ (task'[o].at = "engine" => o = t)
    BY <1>0, <1>3 DEF Calm, StagingTypeOK, LockFree
<1>5. StagingTypeOK'
    <2>1. MapsOK'
        BY <1>0, <1>1 DEF StagingTypeOK, MapsOK
    <2>2. DictionariesOK'
        BY <1>0 DEF StagingTypeOK, DictionariesOK
    <2>3. hung' \in BOOLEAN
        BY DEF Endless
    <2> QED
        BY <1>4, <2>1, <2>2, <2>3 DEF StagingTypeOK
<1>6. \A o \in Task : task'[o].at \notin {"rm", "ls", "sizes"}
    BY <1>0, <1>3, <1>4 DEF Disciplined
<1>7. Disciplined'
    BY <1>0, <1>2, <1>3, <1>4, <1>6 DEF Disciplined
<1>8. Ordered'
    BY <1>0, <1>1, <1>4, <1>6 DEF Ordered
<1>9. ASSUME ~Endless(Opened) PROVE Sound'
    <2>1. Sound /\ InSight /\ InSight'
        BY <1>0, <1>1, <1>5, <1>7, <1>8, <1>9, Flight, FlightNext DEF Orderly, StagingInv
    <2>2. EngineOnHead'
        <3>1. \A p \in Removals(Opened) : Content(Head(Opened))[p] # NoFile /\ Writes(Opened)[p] = NoFile /\ Empty[p] = NoFile
            BY <1>0, <2>1, Dictionaries, Manifests DEF Sound, RemovalsAreThere
        <3>2. \A o \in Task : task'[o].at = "engine" => o = t /\ task'[o] = c
            BY <1>4
        <3> QED
            BY <1>1, <1>2, <3>1, <3>2 DEF EngineOnHead, Content
    <2>3. RemovalsAreThere'
        BY <1>2 DEF RemovalsAreThere
    <2>4. OverlaysCurrent'
        BY <1>6 DEF OverlaysCurrent
    <2>5. ListedAsAsked'
        BY <1>6, <2>1 DEF ListedAsAsked, Sound
    <2>6. Committing(Opened)' = asked[Opened]
        <3>1. Committing(Opened)' = Over(Writes(Opened), Less(Content(Head(Opened)), Removals(Opened)))
            BY <1>1, <1>3, <1>4, <2>1 DEF InSight, Content
        <3>2. Committing(Opened) = Content(Head(Opened))
            BY <1>4, <2>1 DEF InSight
        <3> QED
            BY <2>1, <3>1, <3>2 DEF Sound, Pending, InSight
    <2>7. asked[Opened] \in Root
        BY <1>0 DEF StagingTypeOK, DictionariesOK
    <2>8. Pending(Opened)' = Over(Empty, Less(asked[Opened], {}))
        BY <1>2, <2>1, <2>6 DEF Pending, InSight, Writes, Removals
    <2>9. Pending(Opened)' = asked'[Opened]
        BY <2>7, <2>8, OverNothing
    <2> QED
        BY <2>2, <2>3, <2>4, <2>5, <2>9 DEF Sound
<1> QED
    BY <1>1, <1>5, <1>7, <1>8, <1>9 DEF StagingInv

LEMMA TakesSound == ASSUME Calm, StagingInv, NEW t \in Task, Takes(t) PROVE StagingInv'
<1>0. StagingTypeOK /\ task[t].at = "lock" /\ LockFree
    BY DEF StagingInv, Takes
<1>1. task[t].keys \in SUBSET {Opened} /\ task[t].ends \in BOOLEAN
    BY <1>0, AtPlaces DEF StagingTypeOK
<1>2. LetGo(task, {Opened}) = task
    BY <1>0, LetGoNone
<1> DEFINE rest == task[t].keys \ {Opened}
           c == [at |-> "engine", key |-> Opened, keys |-> rest, ends |-> task[t].ends,
                 head |-> Head(Opened), writes |-> Writes(Opened), removals |-> Removals(Opened)]
<1>3. /\ staged' = [staged EXCEPT ![Opened] = Nothing] /\ stagedRm' = [stagedRm EXCEPT ![Opened] = Nothing]
      /\ UNCHANGED <<lineageVars, listing, asked>>
      /\ IF Writes(Opened) = Empty /\ Removals(Opened) = {}
         THEN Onward(t, rest, task[t].ends, task) /\ UNCHANGED hung
         ELSE hung' = Endless(Opened) /\ task' = [task EXCEPT ![t] = c]
    BY <1>1, <1>2 DEF Takes
<1>4. c \in AtEngines /\ c.head = Head(Opened) /\ c.writes = Writes(Opened) /\ c.removals = Removals(Opened)
    BY <1>0, <1>1, Dictionaries DEF AtEngines
<1>5. rest \in SUBSET {Opened}
    BY <1>1
<1> HIDE DEF rest, c
<1>6. CASE Writes(Opened) = Empty /\ Removals(Opened) = {}
    BY <1>0, <1>1, <1>3, <1>5, <1>6, TakesNothing
<1>7. CASE ~(Writes(Opened) = Empty /\ Removals(Opened) = {})
    BY <1>0, <1>3, <1>4, <1>7, TakesSomething
<1> QED
    BY <1>6, <1>7

\* The engine is done, and nobody else is with it.
LEMMA Leaves ==
    ASSUME Calm, StagingInv, NEW t \in Task, ~hung, task[t].at = "engine",
           NEW place \in {AtRest} \union AtLocks, task' = [task EXCEPT ![t] = place]
    PROVE  /\ StagingTypeOK /\ Disciplined /\ Ordered /\ ~Endless(Opened) /\ Sound /\ InSight
           /\ task[t] \in Places /\ task' \in [Task -> Places]
           /\ \A o \in Task : task'[o].at \notin {"engine", "rm", "ls", "sizes"} /\ (o # t => ~Removes /\ ~Lists)
<1>1. StagingTypeOK /\ Disciplined /\ Ordered /\ ~Endless(Opened)
    BY DEF StagingInv, Ordered
<1>2. Sound /\ InSight
    BY <1>1, Flight DEF StagingInv, Orderly
<1>3. place \in Places /\ place.at \in {"rest", "lock"}
    BY DEF Places, AtLocks, AtRest
<1>4. task[t] \in Places /\ task' \in [Task -> Places] /\ task'[t] = place /\ \A o \in Task : o # t => task'[o] = task[o]
    BY <1>1, <1>3 DEF StagingTypeOK
<1>5. \A o \in Task : o # t => ~Removes /\ ~Lists /\ task[o].at # "engine"
    BY <1>1 DEF Calm, Disciplined
<1> QED
    BY <1>1, <1>2, <1>3, <1>4, <1>5 DEF Disciplined

LEMMA CommitFailsSound == ASSUME Calm, StagingInv, NEW t \in Task, CommitFails(t) PROVE StagingInv' /\ Pending(Opened)' = Pending(Opened)
<1> DEFINE c == task[t]
           W == Writes(Opened)
           H == Content(Head(Opened))
           restored == Over(W, c.writes)
<1>0. ~hung /\ task[t].at = "engine" /\ task' = [task EXCEPT ![t] = AtRest] /\ Opened \in Handle /\ Opened \in User
    BY OpenedIsHandle DEF CommitFails, Goes
<1>1. /\ StagingTypeOK /\ Disciplined /\ Ordered /\ ~Endless(Opened) /\ Sound /\ InSight
      /\ c \in Places /\ task' \in [Task -> Places]
      /\ \A o \in Task : task'[o].at \notin {"engine", "rm", "ls", "sizes"} /\ (o # t => ~Removes /\ ~Lists)
    BY <1>0, Leaves
<1>2. c.key = Opened /\ c.writes \in Root /\ c.removals \in SUBSET Path
    BY <1>0, <1>1, AtPlaces
<1>3. /\ Removals(Opened) = {} /\ W \in Root /\ H \in Root
      /\ \A p \in c.removals : H[p] # NoFile /\ c.writes[p] = NoFile /\ W[p] = NoFile
    BY <1>0, <1>1, Manifests DEF Sound, EngineOnHead, InSight
<1>4. /\ staged' = [staged EXCEPT ![Opened] = restored] /\ stagedRm' = [stagedRm EXCEPT ![Opened] = c.removals]
      /\ UNCHANGED <<lineageVars, listing, hung, asked>>
    BY <1>2, <1>3 DEF CommitFails, Restore
<1>5. restored \in Root /\ \A p \in Path : restored[p] = IF W[p] # NoFile THEN W[p] ELSE c.writes[p]
    BY <1>2, <1>3, Manifests
<1>6. Over(W, Less(Over(c.writes, Less(H, c.removals)), {})) = Over(restored, Less(H, c.removals))
    <2> DEFINE below == Less(H, c.removals)
               engine == Over(c.writes, below)
    <2>1. below \in Root
        BY <1>3, Manifests
    <2> HIDE DEF below
    <2>2. engine \in Root /\ \A p \in Path : engine[p] = IF c.writes[p] # NoFile THEN c.writes[p] ELSE below[p]
        BY <1>2, <2>1, Manifests
    <2> HIDE DEF engine
    <2>3. Less(engine, {}) \in Root /\ \A p \in Path : Less(engine, {})[p] = engine[p]
        BY <2>2, Manifests
    <2>4. /\ Over(W, Less(engine, {})) \in Root
          /\ \A p \in Path : Over(W, Less(engine, {}))[p] = IF W[p] # NoFile THEN W[p] ELSE engine[p]
        BY <1>3, <2>3, Manifests
    <2> HIDE DEF restored, W, c, H
    <2>5. /\ Over(restored, below) \in Root
          /\ \A p \in Path : Over(restored, below)[p] = IF restored[p] # NoFile THEN restored[p] ELSE below[p]
        BY <1>5, <2>1, Manifests
    <2>6. \A p \in Path : Over(W, Less(engine, {}))[p] = Over(restored, below)[p]
        BY <1>5, <2>2, <2>4, <2>5
    <2>7. Over(W, Less(engine, {})) = Over(restored, below)
        BY <2>4, <2>5, <2>6, SameManifest
    <2> QED
        BY <2>7 DEF engine, below
<1>7. Pending(Opened) = Over(restored, Less(H, c.removals)) /\ Pending(Opened) = asked[Opened]
    BY <1>0, <1>1, <1>3, <1>6 DEF Pending, InSight, Sound
<1>8. /\ Head(Opened)' = Head(Opened) /\ Endless(Opened)' = Endless(Opened)
      /\ rootMap' = rootMap /\ origin' = origin
    BY <1>4, SameHead DEF lineageVars
<1>9. Writes(Opened)' = restored /\ Removals(Opened)' = c.removals
    BY <1>0, <1>1, <1>2, <1>4, <1>5, NamesAssumption DEF Writes, Removals, StagingTypeOK, DictionariesOK
<1>10. StagingTypeOK'
    <2>1. MapsOK'
        BY <1>1, <1>8 DEF StagingTypeOK, MapsOK
    <2>2. DictionariesOK'
        <3> HIDE DEF c, restored
        <3> QED
            BY <1>1, <1>2, <1>4, <1>5 DEF StagingTypeOK, DictionariesOK
    <2> QED
        BY <1>1, <1>4, <2>1, <2>2 DEF StagingTypeOK
<1>11. Disciplined'
    <2>1. ~Removes => c.removals = {}
        BY <1>0, <1>1 DEF Disciplined
    <2> HIDE DEF c, restored
    <2> QED
        BY <1>1, <1>9, <2>1 DEF Disciplined
<1>12. Ordered'
    BY <1>1, <1>8 DEF Ordered
<1>13. InSight'
    BY <1>1, <1>8, <1>10, <1>11, <1>12, FlightNext DEF Orderly
<1> HIDE DEF c, restored
<1>14. EngineOnHead' /\ OverlaysCurrent'
    BY <1>1 DEF EngineOnHead, OverlaysCurrent
<1>15. RemovalsAreThere'
    BY <1>2, <1>3, <1>5, <1>8, <1>9 DEF RemovalsAreThere, Content
<1>16. ListedAsAsked'
    BY <1>1, <1>4 DEF ListedAsAsked, Sound
<1>17. Pending(Opened)' = Over(restored, Less(H, c.removals))
    <2>1. Committing(Opened)' = H /\ Key(Opened)' = Opened
        BY <1>1, <1>8, <1>13 DEF InSight, Content
    <2> HIDE DEF H
    <2> QED
        BY <1>9, <2>1 DEF Pending, Writes, Removals
<1> QED
    BY <1>4, <1>7, <1>8, <1>10, <1>11, <1>12, <1>14, <1>15, <1>16, <1>17 DEF StagingInv, Sound

\* A commit that succeeds leaves everything as it was but the head, which is
\* now the manifest it committed.
LEMMA Commits ==
    ASSUME Calm, StagingInv, NEW t \in Task, ~hung, task[t].at = "engine",
           NEW place \in {AtRest} \union AtLocks, task' = [task EXCEPT ![t] = place],
           UNCHANGED <<stageVars, hung, asked>>, listing' = Uncached,
           MapsOK', Ordered', ~Endless(Opened)' => Content(Head(Opened))' = Committing(Opened)
    PROVE  StagingInv'
<1>1. /\ StagingTypeOK /\ Disciplined /\ Ordered /\ ~Endless(Opened) /\ Sound /\ InSight
      /\ task[t] \in Places /\ task' \in [Task -> Places]
      /\ \A o \in Task : task'[o].at \notin {"engine", "rm", "ls", "sizes"} /\ (o # t => ~Removes /\ ~Lists)
    BY Leaves
<1>2. Opened \in User
    BY OpenedIsHandle
<1>3. Writes(Opened)' = Writes(Opened) /\ Removals(Opened)' = {} /\ Removals(Opened) = {}
    BY <1>1 DEF Writes, Removals, stageVars, Sound, EngineOnHead
<1>4. StagingTypeOK'
    BY <1>1 DEF StagingTypeOK, DictionariesOK, stageVars, Uncached
<1>5. Disciplined'
    BY <1>1, <1>3 DEF Disciplined
<1>6. ASSUME ~Endless(Opened)' PROVE Sound'
    <2>1. InSight'
        BY <1>4, <1>5, <1>6, FlightNext DEF Orderly
    <2>2. Committing(Opened)' = Committing(Opened) /\ Key(Opened)' = Opened
        BY <1>1, <1>6, <2>1 DEF InSight
    <2>3. Pending(Opened)' = asked'[Opened]
        BY <1>1, <1>3, <2>2 DEF Pending, Sound, InSight, Writes, Removals
    <2>4. EngineOnHead' /\ RemovalsAreThere' /\ OverlaysCurrent'
        BY <1>1, <1>3 DEF EngineOnHead, RemovalsAreThere, OverlaysCurrent
    <2>5. ListedAsAsked'
        BY <1>1, <1>2 DEF ListedAsAsked, Uncached
    <2> QED
        BY <2>3, <2>4, <2>5 DEF Sound
<1> QED
    BY <1>4, <1>5, <1>6 DEF StagingInv

LEMMA CommitSucceedsSound == ASSUME Calm, StagingInv, NEW t \in Task, CommitSucceeds(t) PROVE StagingInv'
<1> DEFINE c == task[t]
           new == NewRoot(c)
<1>0. ~hung /\ c.at = "engine" /\ Opened \in Handle
    BY OpenedIsHandle DEF CommitSucceeds
<1>1. StagingTypeOK /\ Disciplined /\ Ordered /\ ~Endless(Opened) /\ Sound /\ InSight /\ c \in Places
    BY <1>0, Flight DEF StagingInv, Ordered, Orderly, StagingTypeOK
<1>2. c.key = Opened /\ c.keys \in SUBSET {Opened} /\ c.ends \in BOOLEAN /\ c.writes \in Root /\ c.head = Head(Opened)
    BY <1>0, <1>1, AtPlaces DEF Sound, EngineOnHead
<1>3. PICK place \in {AtRest} \union AtLocks : task' = [task EXCEPT ![t] = place]
    BY <1>2, LocksAre DEF CommitSucceeds, Onward
<1>4. new = Committing(Opened) /\ new \in Root /\ Content(new) = new /\ new \in Handle
    <2>1. new = Committing(Opened)
        BY <1>0, <1>1, <1>2 DEF NewRoot, InSight
    <2>2. new \in Root
        BY <1>1, <1>2, Manifests DEF NewRoot, InSight
    <2> QED
        BY <2>1, <2>2, NamesAssumption DEF Content, Handle
<1>5. /\ UNCHANGED <<stageVars, hung, asked>> /\ listing' = Uncached
      /\ \/ new = c.head /\ UNCHANGED lineageVars
         \/ new # c.head /\ rootMap' = [rootMap EXCEPT ![c.head] = new] /\ origin' = [origin EXCEPT ![new] = c.key]
    BY DEF CommitSucceeds
<1>6. \A o \in Task : task'[o].at \notin {"engine", "rm", "ls", "sizes"}
    BY <1>0, <1>3, Leaves
<1>7. /\ Head(Opened)' = Final(rootMap', Opened) /\ Head(Opened) \in Handle
      /\ Endless(Opened)' = (rootMap'[Head(Opened)'] # Head(Opened)')
    BY <1>1, HeadIs DEF InSight, Endless
<1> HIDE DEF new, c
<1>8. MapsOK' /\ Ordered' /\ (~Endless(Opened)' => Content(Head(Opened))' = Committing(Opened))
    <2>1. CASE new = c.head /\ UNCHANGED lineageVars
        <3>1. Head(Opened)' = Head(Opened) /\ Endless(Opened)' = Endless(Opened) /\ rootMap' = rootMap /\ origin' = origin
            BY <2>1, SameHead DEF lineageVars
        <3>2. MapsOK' /\ Ordered'
            BY <1>1, <3>1 DEF StagingTypeOK, MapsOK, Ordered
        <3> QED
            BY <1>2, <1>4, <2>1, <3>1, <3>2 DEF Content
    <2>2. CASE new # c.head /\ rootMap' = [rootMap EXCEPT ![c.head] = new] /\ origin' = [origin EXCEPT ![new] = c.key]
        <3>1. rootMap' = [rootMap EXCEPT ![Head(Opened)] = new] /\ origin' = [origin EXCEPT ![new] = Opened]
            BY <1>2, <2>2
        <3>2. rootMap \in [Handle -> Handle] /\ origin \in [Handle -> Handle]
            BY <1>1 DEF StagingTypeOK, MapsOK
        <3>3. PICK last, s : IsLineage(rootMap, origin, Opened, last, s)
            BY <1>1 DEF Ordered
        <3>4. Head(Opened) = s[last] /\ origin[Head(Opened)] = Opened
            BY <1>1, <3>3, HeadOfLineage DEF InSight, Key
        <3>5. MapsOK'
            BY <1>1, <1>4, <1>7, <3>1, <3>4 DEF StagingTypeOK, MapsOK
        <3>6. /\ rootMap' \in [Handle -> Handle] /\ \A h \in Handle : rootMap'[h] = IF h = s[last] THEN new ELSE rootMap[h]
              /\ origin' \in [Handle -> Handle] /\ \A h \in Handle : origin'[h] = IF h = new THEN Opened ELSE origin[h]
            BY <1>0, <1>4, <3>2, <3>1, <3>4
        <3>7. LeadsOn(rootMap, origin, Opened, last, s, new, rootMap', origin')
            BY <1>0, <1>4, <3>2, <3>3, <3>6 DEF LeadsOn
        <3>8. CASE origin[new] # Opened
            <4>1. rootMap[new] = new
                BY <1>1, <1>4, <3>8 DEF StagingTypeOK, MapsOK
            <4>2. PICK longer : IsLineage(rootMap', origin', Opened, last + 1, longer) /\ longer[last + 1] = new
                BY <3>8, <3>7, <4>1, LineageGrows
            <4>3. last \in Nat /\ longer[0] = Opened /\ rootMap'[longer[last + 1]] = longer[last + 1]
                BY <3>3, <4>2 DEF IsLineage
            <4>4. Final(rootMap', longer[0]) = longer[last + 1]
                BY <3>5, <4>2, <4>3, LineageEnds DEF MapsOK
            <4>5. Head(Opened)' = new /\ ~Endless(Opened)'
                BY <1>7, <4>2, <4>3, <4>4
            <4>6. Ordered'
                BY <4>2, <4>5 DEF Ordered
            <4> QED
                BY <1>4, <3>5, <4>5, <4>6 DEF Content
        <3>9. CASE origin[new] = Opened
            <4>1. new # s[last]
                BY <1>2, <2>2, <3>4
            <4>2. rootMap'[Final(rootMap', Opened)] # Final(rootMap', Opened)
                BY <3>9, <3>7, <4>1, LineageCloses
            <4>3. Endless(Opened)'
                BY <1>7, <4>2
            <4>4. Ordered'
                BY <1>6, <4>3 DEF Ordered
            <4> QED
                BY <3>5, <4>3, <4>4
        <3> QED
            BY <3>8, <3>9
    <2> QED
        BY <1>5, <2>1, <2>2
<1> QED
    BY <1>0, <1>3, <1>5, <1>8, Commits DEF c

LEMMA InitSound == ASSUME Calm, Init PROVE StagingInv
<1> DEFINE s == [i \in 0..0 |-> Opened]
<1>0. Opened \in Handle /\ Opened \in User
    BY OpenedIsHandle
<1>1. IsLineage(rootMap, origin, Opened, 0, s)
    <2>1. rootMap = [h \in Handle |-> h] /\ origin = [h \in Handle |-> h]
        BY DEF Init
    <2> QED
        BY <1>0, <2>1 DEF IsLineage
<1> HIDE DEF s
<1>2. StagingTypeOK
    <2>1. MapsOK
        BY <1>0 DEF Init, MapsOK
    <2>2. \A h \in User : h \in Handle /\ Content(h) \in Root
        BY NamesAssumption, Manifests DEF User, Handle
    <2>3. DictionariesOK
        BY <2>2 DEF Init, DictionariesOK
    <2>4. task \in [Task -> Places] /\ hung \in BOOLEAN
        BY DEF Init, Places
    <2> QED
        BY <2>1, <2>3, <2>4 DEF StagingTypeOK
<1>3. Disciplined
    BY <1>0 DEF Init, Disciplined, AtRest, Removals
<1>4. Ordered /\ ~Endless(Opened)
    BY <1>1, <1>2, HeadOfLineage DEF Ordered
<1>5. Head(Opened) = Opened
    <2>1. rootMap[Opened] = Opened
        BY <1>0 DEF Init
    <2> DEFINE S == {Opened}
    <2>2. S \in SUBSET Handle /\ Opened \in S /\ rootMap \in [Handle -> Handle] /\ \A x \in S : rootMap[x] \in S
        BY <1>0, <1>2, <2>1 DEF StagingTypeOK, MapsOK
    <2> HIDE DEF S
    <2>3. Final(rootMap, Opened) \in S
        BY <2>2, FinalStays
    <2> USE DEF S
    <2> QED
        BY <2>3, HeadIs
<1>6. InSight
    BY <1>2, <1>3, <1>4, Flight DEF Orderly
<1>7. Writes(Opened) = Empty /\ Removals(Opened) = {} /\ \A t \in Task : task[t].at = "rest"
    BY <1>0 DEF Init, Writes, Removals, AtRest
<1>8. Pending(Opened) = asked[Opened]
    <2>1. Committing(Opened) = Content(Opened) /\ Content(Opened) \in Root
        BY <1>0, <1>5, <1>6, <1>7, Manifests DEF InSight
    <2>2. asked[Opened] = Content(Opened)
        BY <1>0 DEF Init
    <2> QED
        BY <1>6, <1>7, <2>1, <2>2, OverNothing DEF Pending, InSight
<1>9. EngineOnHead /\ RemovalsAreThere /\ OverlaysCurrent /\ ListedAsAsked
    <2>1. listing[Opened] = Nothing
        BY <1>0 DEF Init
    <2> QED
        BY <1>7, <2>1 DEF EngineOnHead, RemovalsAreThere, OverlaysCurrent, ListedAsAsked
<1> QED
    BY <1>2, <1>3, <1>4, <1>8, <1>9 DEF StagingInv, Sound

LEMMA NextSound == ASSUME Calm, StagingInv, Next PROVE StagingInv'
BY HangsSound, LsLooksUpSound, RmFreshSound, RmLooksUpSound, WriteSound, RmSound, BeginSound, EndCommitsSound,
   EndDiscardsSound, CommitAllSound, TakesSound, CommitSucceedsSound, CommitFailsSound, LsOverlaysSound, LsCachesSound
   DEF Next

LEMMA StuttersSound == ASSUME StagingInv, UNCHANGED vars PROVE StagingInv'
<1>1. Head(Opened)' = Head(Opened) /\ Endless(Opened)' = Endless(Opened)
    BY SameHead DEF vars, lineageVars
<1>2. /\ rootMap' = rootMap /\ origin' = origin /\ staged' = staged /\ stagedRm' = stagedRm /\ listing' = listing
      /\ task' = task /\ hung' = hung /\ asked' = asked
    BY DEF vars
<1>3. StagingTypeOK' /\ Disciplined' /\ Ordered'
    BY <1>1, <1>2 DEF StagingInv, StagingTypeOK, MapsOK, DictionariesOK, Disciplined, Ordered, Removals
<1>4. Writes(Opened)' = Writes(Opened) /\ Removals(Opened)' = Removals(Opened) /\ Key(Opened)' = Key(Opened)
    BY <1>1, <1>2 DEF Writes, Removals, Key
<1>5. InFlight(Key(Opened))' = InFlight(Key(Opened))
    BY <1>2, <1>4 DEF InFlight
<1>6. Committing(Opened)' = Committing(Opened)
    BY <1>1, <1>2, <1>5 DEF Committing, Content
<1>7. Pending(Opened)' = Pending(Opened)
    BY <1>2, <1>4, <1>6 DEF Pending, Writes, Removals
<1>8. Sound => Sound'
    BY <1>1, <1>2, <1>4, <1>7 DEF Sound, EngineOnHead, RemovalsAreThere, OverlaysCurrent, ListedAsAsked, SeenWrites, SeenRemovals,
       Writes, Removals, Content
<1> QED
    BY <1>1, <1>3, <1>8 DEF StagingInv

(***************************************************************************)
(* Theorems.                                                               *)
(***************************************************************************)
THEOREM StagingInvariant == ASSUME Calm PROVE Spec => []StagingInv
<1>1. Init => StagingInv
    BY InitSound
<1>2. StagingInv /\ [Next]_vars => StagingInv'
    BY NextSound, StuttersSound
<1> QED
    BY <1>1, <1>2, PTL DEF Spec

\* Concurrent commits extend one lineage, one at a time (core.py 731-733).
THEOREM CommitsInLine == ASSUME Calm PROVE Spec => []OneLineage
<1>1. StagingInv => OneLineage
    <2> SUFFICES ASSUME StagingInv PROVE OneLineage
        OBVIOUS
    <2> DEFINE working == {t \in Task : task[t].at = "engine"}
    <2>1. Cardinality(working) <= 1
        <3>1. working = {} \/ \E t \in Task : working = {t}
            BY DEF StagingInv, Disciplined
        <3> HIDE DEF working
        <3> QED
            BY <3>1, FS_EmptySet, FS_Singleton
    <2>2. ASSUME ~Endless(Opened), NEW r \in Root, origin[r] = origin[Head(Opened)] PROVE Head(r) = Head(Opened)
        <3>1. PICK last, s : IsLineage(rootMap, origin, Opened, last, s)
            BY <2>2 DEF StagingInv, Ordered
        <3>2. Head(Opened) = s[last] /\ origin[r] = Opened /\ r \in Handle
            BY <2>2, <3>1, HeadOfLineage DEF StagingInv, Key, Handle
        <3>3. PICK i \in 0..last : s[i] = r
            BY <3>1, <3>2 DEF IsLineage
        <3>4. Final(rootMap, s[i]) = s[last]
            BY <3>1, LineageEnds DEF StagingInv, StagingTypeOK, MapsOK
        <3> QED
            BY <3>2, <3>3, <3>4, HeadIs
    <2> QED
        BY <2>1, <2>2 DEF OneLineage, Calm
<1> QED
    BY <1>1, StagingInvariant, PTL

\* What the calls asked for is committed, in flight or staged (core.py 748).
THEOREM NothingIsLost == ASSUME Calm PROVE Spec => []NothingStagedIsLost
<1>1. StagingInv => NothingStagedIsLost
    BY DEF StagingInv, Sound, NothingStagedIsLost, Calm
<1> QED
    BY <1>1, StagingInvariant, PTL

\* Nor does a commit that fails change what will be there (core.py 748-753).
THEOREM FailuresLoseNothing == ASSUME Calm PROVE Spec => FailedCommitsLoseNothing
<1>1. StagingInv /\ [Next]_vars =>
        [(\E t \in Task : CommitFails(t)) => \A h \in User : ~Endless(h) => Pending(h)' = Pending(h)]_vars
    BY CommitFailsSound DEF Calm
<1> QED
    BY <1>1, StagingInvariant, PTL DEF Spec, FailedCommitsLoseNothing

\* A staged removal is of a file that is there (core.py 731-733, commit.py 282-284).
THEOREM RemovalsStand == ASSUME Calm PROVE Spec => []RemovalsApply
<1>1. StagingInv => RemovalsApply
    BY DEF StagingInv, Sound, RemovalsAreThere, RemovalsApply, StagingTypeOK, DictionariesOK, Removals
<1> QED
    BY <1>1, StagingInvariant, PTL

\* With nothing at work, a cached listing is what a new one would be (core.py 13-15).
THEOREM ListingsStayFresh == ASSUME Calm PROVE Spec => []ListingsFresh
<1>1. StagingInv => ListingsFresh
    <2> SUFFICES ASSUME StagingInv, NEW h \in User, listing[h] # Nothing, ~Endless(h), \A t \in Task : task[t].at = "rest"
                 PROVE  listing[h] = Listing(LooksUp(h))
        BY DEF ListingsFresh
    <2>1. h = Opened
        BY DEF Calm
    <2>2. Listing(LooksUp(Opened)) = asked[Opened]
        BY <2>1, LooksUpIs, ListingIs
    <2> QED
        BY <2>1, <2>2 DEF StagingInv, Sound, ListedAsAsked
<1> QED
    BY <1>1, StagingInvariant, PTL

===============================================================================
