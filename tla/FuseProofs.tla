------------------------------ MODULE FuseProofs ------------------------------
(***************************************************************************)
(* The writable mount shows what was written and commits what is closed,   *)
(* for any directories, names, handles and lengths of files, and whichever *)
(* commits are refused.                                                    *)
(***************************************************************************)
EXTENDS FuseWrite, SequenceTheorems, TLAPS

\* What the mount copes with: refused commits.  Each of the other faults has
\* its counterexample (FuseInFlight.cfg and its variants), the rename of a
\* committed file that a handle is bound to among them (fuse.py 530-532).
OnlyRefusals == Faults \subseteq {"refuses"}

(***************************************************************************)
(* The inductive invariant.                                                *)
(***************************************************************************)
\* No transaction outlives its operation, and what a refused commit leaves
\* staged is a write of a file that waits for a retry (core.py 748-753).
StagedWaits ==
    /\ ~intrans
    /\ \A p \in Path : staged[p] # Removed /\ (staged[p] # Nothing => p \in dirty)

\* What was written to a name is in its buffer, or committed.
ShownAsWritten == \A p \in Path : want[p] = IF InFlight(p) THEN pending[p] ELSE files[p]

\* A buffer without a mark is what is committed (_materialize, fuse.py 310-321).
CleanBuffers == \A p \in Path : InFlight(p) /\ p \notin dirty \union created => pending[p] = files[p]

\* A buffer no handle is bound to waits for a retry (release, fuse.py 469-479).
UnboundWait == \A p \in Path : InFlight(p) /\ Bound(p) = {} => p \in dirty

\* A handle that writes is bound, the file of a bound handle is there, and where
\* no such file is renamed _handles has it under the kernel's name.
BoundAreThere ==
    \A h \in Handle : /\ handle[h].name = handle[h].path
                      /\ handle[h].writes => handle[h].kind = "bound"
                      /\ handle[h].kind = "bound" => want[handle[h].path] # Nothing

\* A file closed with success has no mark, and is committed.
SavedAreClean == \A p \in saved : p \notin dirty \union created /\ files[p] = want[p]

FuseInv ==
    /\ FuseTypeOK /\ StagedWaits /\ ShownAsWritten /\ CleanBuffers /\ UnboundWait /\ BoundAreThere
    /\ SavedAreClean

(***************************************************************************)
(* What the mount and the file system show, and what a commit does.        *)
(***************************************************************************)
LEMMA Contents ==
    /\ <<>> \in Content
    /\ \A bytes \in [1..1 -> Data] : bytes \in Content
    /\ \A s \in Content, d \in Data : Len(s) \in Nat /\ (Len(s) < MaxLength => Append(s, d) \in Content)
    /\ Nothing \notin Content /\ Removed \notin Content /\ Nothing # Removed
<1>1. <<>> \in [1..0 -> Data]
    OBVIOUS
<1>2. \A n \in 0..MaxLength : \A f \in [1..n -> Data] : f \in Content
    BY Zenon DEF Content
<1>3. 0 \in 0..MaxLength /\ 1 \in 0..MaxLength
    BY FaultsAssumption
<1>4. ASSUME NEW s \in Content, NEW d \in Data
      PROVE  Len(s) \in Nat /\ (Len(s) < MaxLength => Append(s, d) \in Content)
    <2>1. PICK n \in 0..MaxLength : s \in [1..n -> Data]
        BY DEF Content
    <2>2. n \in Nat /\ MaxLength \in Nat
        BY FaultsAssumption
    <2>3. s \in Seq(Data) /\ Len(s) = n
        BY <2>1, <2>2
    <2>4. Append(s, d) \in Seq(Data) /\ Len(Append(s, d)) = n + 1
        BY <2>3, AppendProperties
    <2>5. Append(s, d) \in [1..(n + 1) -> Data]
        BY <2>4, LenProperties
    <2>6. n < MaxLength => n + 1 \in 0..MaxLength
        BY <2>2
    <2> QED
        BY <1>2, <2>2, <2>3, <2>5, <2>6
<1>5. Nothing \notin Content /\ Removed \notin Content /\ Nothing # Removed
    BY NamesAssumption
<1> QED
    BY <1>1, <1>2, <1>3, <1>4, <1>5

LEMMA Shows ==
    ASSUME FuseInv, NEW p \in Path
    PROVE  /\ FsSees(p) = IF staged[p] = Nothing THEN files[p] ELSE staged[p]
           /\ Seen(p) = want[p]
           /\ FsSees(p) # Nothing \/ InFlight(p) <=> want[p] # Nothing
           /\ ~InFlight(p) => staged[p] = Nothing
BY Contents DEF FuseInv, FuseTypeOK, StagedWaits, ShownAsWritten, FsSees, Overlaid, Seen, InFlight, Maybe

LEMMA CommitOf ==
    ASSUME FuseInv, NEW stage \in [Path -> Maybe \union {Removed}], FsStages(stage) \/ FsTransacts(stage)
    PROVE  /\ files' = [p \in Path |-> IF stage[p] = Nothing THEN files[p]
                                       ELSE IF stage[p] = Removed THEN Nothing ELSE stage[p]]
           /\ files' \in [Path -> Maybe]
           /\ staged' = Nowhere /\ ~intrans' /\ intrans' \in BOOLEAN
<1>1. \A p \in Path : Overlaid(stage)[p] = IF stage[p] = Nothing THEN files[p]
                                          ELSE IF stage[p] = Removed THEN Nothing ELSE stage[p]
    BY Contents DEF Overlaid
<1>2. files' = Overlaid(stage) /\ staged' = Nowhere /\ ~intrans' /\ intrans' \in BOOLEAN
    <2>1. CASE FsStages(stage)
        BY <2>1 DEF FsStages, FuseInv, StagedWaits, FuseTypeOK
    <2>2. CASE FsTransacts(stage)
        BY <2>2 DEF FsTransacts
    <2> QED
        BY <2>1, <2>2
<1> QED
    BY <1>1, <1>2, Contents DEF Overlaid, Maybe, FuseInv, FuseTypeOK

\* What a commit of one file leaves of the invariant: all but what is said of
\* handles.
SavedBut(p) ==
    /\ files' \in [Path -> Maybe] /\ staged' \in [Path -> Maybe \union {Removed}] /\ intrans' \in BOOLEAN
    /\ pending' \in [Path -> Maybe] /\ dirty' \subseteq Path /\ created' \subseteq Path /\ dirs' \subseteq Folder
    /\ want' \in [Path -> Maybe] /\ saved' \subseteq Path
    /\ \A q \in dirty' \union created' : pending'[q] # Nothing
    /\ StagedWaits' /\ ShownAsWritten' /\ CleanBuffers' /\ SavedAreClean'
    /\ InFlight(p)' => p \in dirty'
    /\ \A q \in Path \ {p} : (InFlight(q)' <=> InFlight(q)) /\ (q \in dirty' <=> q \in dirty)

\* A buffer that is what its name is to hold is committed with all that is
\* staged, or dropped where the file system has it, or refused and kept.
LEMMA SavesKeep ==
    ASSUME FuseInv, NEW p \in Path, NEW buffer \in Content, NEW written, NEW made,
           dirty \subseteq written, written \subseteq dirty \union {p},
           made \subseteq created, created \subseteq made \union {p},
           ~Unsaved(p, written, made) => files[p] = buffer,
           Saves(p, buffer, written, made) \/ SaveRefused(p, buffer, written, made),
           want' = [want EXCEPT ![p] = buffer],
           saved' \subseteq saved \union {p},
           p \in saved' => Saves(p, buffer, written, made)
    PROVE  SavedBut(p)
<1> DEFINE stage == [staged EXCEPT ![p] = buffer]
<1>t. FuseTypeOK /\ StagedWaits /\ ShownAsWritten /\ CleanBuffers /\ SavedAreClean
    BY DEF FuseInv
<1>1. stage \in [Path -> Maybe \union {Removed}] /\ buffer \notin {Nothing, Removed} /\ buffer \in Maybe
    BY <1>t, Contents DEF FuseTypeOK, Maybe
<1>2. CASE Saves(p, buffer, written, made) /\ Unsaved(p, written, made)
    <2>1. /\ FsStages(stage) /\ dirty' = written \ {p} /\ created' = made \ {p}
          /\ pending' = [pending EXCEPT ![p] = Nothing] /\ dirs' = dirs \ {p[1]}
        BY <1>2 DEF Saves
    <2>2. /\ files' = [q \in Path |-> IF stage[q] = Nothing THEN files[q]
                                      ELSE IF stage[q] = Removed THEN Nothing ELSE stage[q]]
          /\ files' \in [Path -> Maybe] /\ staged' = Nowhere /\ ~intrans' /\ intrans' \in BOOLEAN
        <3> HIDE DEF stage
        <3> QED
            BY <1>1, <2>1, CommitOf
    <2>3. \A q \in Path : q \notin dirty => staged[q] = Nothing
        BY <1>t DEF StagedWaits
    <2>4. \A q \in Path \ {p} : q \notin dirty => files'[q] = files[q]
        BY <2>2, <2>3, <1>t DEF FuseTypeOK
    <2>5. files'[p] = buffer
        BY <2>2, <1>1, <1>t DEF FuseTypeOK
    <2>6. dirty' = dirty \ {p} /\ created' = created \ {p}
        BY <2>1
    <2>7. /\ pending' \in [Path -> Maybe] /\ dirs' \subseteq Folder
          /\ want' \in [Path -> Maybe] /\ saved' \subseteq Path
          /\ staged' \in [Path -> Maybe \union {Removed}]
        BY <1>t, <1>1, <2>1, <2>2 DEF FuseTypeOK, Maybe, Nowhere
    <2>8. StagedWaits'
        BY <2>2, Contents DEF StagedWaits, Nowhere
    <2>9. \A q \in Path : /\ pending'[q] = IF q = p THEN Nothing ELSE pending[q]
                          /\ want'[q] = IF q = p THEN buffer ELSE want[q]
        BY <2>1, <1>t DEF FuseTypeOK
    <2>10. ShownAsWritten' /\ CleanBuffers' /\ SavedAreClean'
        BY <1>t, <2>4, <2>5, <2>6, <2>9 DEF FuseTypeOK, ShownAsWritten, CleanBuffers, SavedAreClean, InFlight
    <2> QED
        BY <1>t, <2>2, <2>6, <2>7, <2>8, <2>9, <2>10 DEF SavedBut, FuseTypeOK, InFlight
<1>3. CASE Saves(p, buffer, written, made) /\ ~Unsaved(p, written, made)
    BY <1>3, <1>t, <1>1 DEF SavedBut, Saves, fsVars, Unsaved, FuseTypeOK, StagedWaits, ShownAsWritten, CleanBuffers, SavedAreClean, InFlight, Maybe
<1>4. CASE SaveRefused(p, buffer, written, made)
    <2>1. /\ ~intrans' /\ intrans' = intrans /\ staged' = stage /\ files' = files /\ pending' = [pending EXCEPT ![p] = buffer]
          /\ dirty' = dirty \union {p} /\ created' = created \ {p} /\ dirs' = dirs
        BY <1>4, <1>t DEF SaveRefused, FsRefuses, Kept, StagedWaits
    <2>2. p \notin saved'
        BY <1>4 DEF Saves, SaveRefused
    <2>3. \A q \in Path : /\ pending'[q] = IF q = p THEN buffer ELSE pending[q]
                          /\ want'[q] = IF q = p THEN buffer ELSE want[q]
                          /\ staged'[q] = IF q = p THEN buffer ELSE staged[q]
        BY <2>1, <1>t DEF FuseTypeOK
    <2>4. StagedWaits'
        BY <2>1, <2>3, <1>1, <1>t DEF StagedWaits
    <2>5. ShownAsWritten' /\ CleanBuffers' /\ SavedAreClean'
        BY <1>t, <1>1, <2>1, <2>2, <2>3 DEF FuseTypeOK, ShownAsWritten, CleanBuffers, SavedAreClean, InFlight
    <2>6. /\ pending' \in [Path -> Maybe] /\ want' \in [Path -> Maybe] /\ saved' \subseteq Path
          /\ staged' \in [Path -> Maybe \union {Removed}] /\ intrans' \in BOOLEAN
        BY <1>t, <1>1, <2>1 DEF FuseTypeOK
    <2> QED
        BY <1>t, <1>1, <2>1, <2>3, <2>4, <2>5, <2>6 DEF SavedBut, FuseTypeOK, InFlight
<1> QED
    BY <1>2, <1>3, <1>4

\* Whoever lets go of p, then, leaves no buffer that nobody would write out.
LEMMA SavesLeaveBound ==
    ASSUME FuseInv, NEW p \in Path, SavedBut(p), \A q \in Path \ {p} : Bound(q)' = {} => Bound(q) = {}
    PROVE  UnboundWait'
<1> SUFFICES ASSUME NEW q \in Path, InFlight(q)', Bound(q)' = {} PROVE q \in dirty'
    BY DEF UnboundWait
<1>1. CASE q = p
    BY <1>1 DEF SavedBut
<1>2. CASE q # p
    <2>1. (InFlight(q)' <=> InFlight(q)) /\ (q \in dirty' <=> q \in dirty)
        BY <1>2 DEF SavedBut
    <2> QED
        BY <1>2, <2>1 DEF UnboundWait, FuseInv
<1> QED
    BY <1>1, <1>2

(***************************************************************************)
(* Files.                                                                  *)
(***************************************************************************)
LEMMA OpensKeep ==
    ASSUME FuseInv, NEW h \in Handle, NEW p \in Path, NEW kind \in {"bound", "cached"}, NEW writes \in BOOLEAN,
           Opens(h, p, kind, writes),
           writes => kind = "bound",
           want'[p] # Nothing, \A q \in Path : want[q] # Nothing => want'[q] # Nothing,
           \A q \in Path : InFlight(q)' => InFlight(q) \/ (q = p /\ kind = "bound"),
           dirty \subseteq dirty'
    PROVE  /\ handle' \in [Handle -> {Closed} \union [kind : {"bound", "cached"}, path : Path, name : Path, writes : BOOLEAN]]
           /\ UnboundWait' /\ BoundAreThere'
<1> DEFINE opened == [kind |-> kind, path |-> p, name |-> p, writes |-> writes]
<1>1. /\ handle[h].kind = "closed" /\ handle' = [handle EXCEPT ![h] = opened]
      /\ handle \in [Handle -> {Closed} \union [kind : {"bound", "cached"}, path : Path, name : Path, writes : BOOLEAN]]
    BY DEF Opens, FuseInv, FuseTypeOK, Closed
<1>2. /\ opened \in [kind : {"bound", "cached"}, path : Path, name : Path, writes : BOOLEAN]
      /\ opened.kind = kind /\ opened.path = p /\ opened.name = p /\ opened.writes = writes
    OBVIOUS
<1> HIDE DEF opened
<1>3. handle'[h] = opened /\ \A g \in Handle \ {h} : handle'[g] = handle[g]
    BY <1>1
<1>4. UnboundWait'
    <2> SUFFICES ASSUME NEW q \in Path, InFlight(q)', Bound(q)' = {} PROVE q \in dirty'
        BY DEF UnboundWait
    <2>1. Bound(q) = {} /\ ~(q = p /\ kind = "bound")
        BY <1>1, <1>2, <1>3 DEF Bound
    <2> QED
        BY <2>1 DEF UnboundWait, FuseInv
<1>5. BoundAreThere'
    <2> SUFFICES ASSUME NEW g \in Handle
                 PROVE  /\ handle'[g].name = handle'[g].path
                        /\ handle'[g].writes => handle'[g].kind = "bound"
                        /\ handle'[g].kind = "bound" => want'[handle'[g].path] # Nothing
        BY DEF BoundAreThere
    <2>1. CASE g = h
        BY <2>1, <1>2, <1>3
    <2>2. CASE g # h
        <3>1. handle[g].kind = "bound" => handle[g].path \in Path
            BY <1>1 DEF Closed
        <3> QED
            BY <2>2, <3>1, <1>3 DEF BoundAreThere, FuseInv
    <2> QED
        BY <2>1, <2>2
<1> QED
    BY <1>1, <1>2, <1>4, <1>5

LEMMA CreatesKeeps == ASSUME FuseInv, NEW h \in Handle, NEW p \in Path, Creates(h, p) PROVE FuseInv'
<1>t. FuseTypeOK /\ StagedWaits /\ ShownAsWritten /\ CleanBuffers /\ UnboundWait /\ BoundAreThere /\ SavedAreClean
    BY DEF FuseInv
<1>1. Opens(h, p, "bound", TRUE) /\ UNCHANGED <<files, staged, intrans, dirty, dirs>> /\ created' = created \union {p}
      /\ pending' = [pending EXCEPT ![p] = <<>>] /\ want' = [want EXCEPT ![p] = <<>>] /\ saved' = saved \ {p}
    BY DEF Creates, fsVars
<1>2. <<>> \in Maybe /\ <<>> # Nothing
    BY Contents DEF Maybe
<1>3. \A q \in Path : /\ pending'[q] = IF q = p THEN <<>> ELSE pending[q]
                      /\ want'[q] = IF q = p THEN <<>> ELSE want[q]
    BY <1>1, <1>t DEF FuseTypeOK
<1>4. FuseTypeOK' /\ UnboundWait' /\ BoundAreThere'
    <2>1. /\ want'[p] # Nothing /\ \A q \in Path : want[q] # Nothing => want'[q] # Nothing
          /\ \A q \in Path : InFlight(q)' => InFlight(q) \/ q = p
        BY <1>2, <1>3 DEF InFlight
    <2>2. /\ handle' \in [Handle -> {Closed} \union [kind : {"bound", "cached"}, path : Path, name : Path, writes : BOOLEAN]]
          /\ UnboundWait' /\ BoundAreThere'
        BY <1>1, <2>1, OpensKeep
    <2> QED
        BY <1>1, <1>2, <1>3, <1>t, <2>2 DEF FuseTypeOK
<1>5. StagedWaits' /\ ShownAsWritten' /\ CleanBuffers' /\ SavedAreClean'
    BY <1>1, <1>2, <1>3, <1>t DEF FuseTypeOK, StagedWaits, ShownAsWritten, CleanBuffers, SavedAreClean, InFlight
<1> QED
    BY <1>4, <1>5 DEF FuseInv

LEMMA OpensToReadKeeps == ASSUME FuseInv, NEW h \in Handle, NEW p \in Path, OpensToRead(h, p) PROVE FuseInv'
<1>t. FuseTypeOK /\ StagedWaits /\ ShownAsWritten /\ CleanBuffers /\ UnboundWait /\ BoundAreThere /\ SavedAreClean
    BY DEF FuseInv
<1> DEFINE kind == IF InFlight(p) THEN "bound" ELSE "cached"
<1>1. /\ Opens(h, p, kind, FALSE) /\ want[p] # Nothing
      /\ UNCHANGED <<files, staged, intrans, pending, dirty, created, dirs, want, saved>>
    BY Shows DEF OpensToRead, fsVars, tableVars
<1> HIDE DEF kind
<1>2. kind \in {"bound", "cached"}
    BY DEF kind
<1>3. FuseTypeOK' /\ UnboundWait' /\ BoundAreThere'
    <2>1. /\ handle' \in [Handle -> {Closed} \union [kind : {"bound", "cached"}, path : Path, name : Path, writes : BOOLEAN]]
          /\ UnboundWait' /\ BoundAreThere'
        BY <1>1, <1>2, OpensKeep DEF InFlight
    <2> QED
        BY <1>1, <1>2, <1>t, <2>1 DEF FuseTypeOK
<1>4. StagedWaits' /\ ShownAsWritten' /\ CleanBuffers' /\ SavedAreClean'
    BY <1>1, <1>t DEF StagedWaits, ShownAsWritten, CleanBuffers, SavedAreClean, InFlight
<1> QED
    BY <1>3, <1>4 DEF FuseInv

LEMMA OpensToWriteKeeps == ASSUME FuseInv, NEW h \in Handle, NEW p \in Path, OpensToWrite(h, p) PROVE FuseInv'
<1>t. FuseTypeOK /\ StagedWaits /\ ShownAsWritten /\ CleanBuffers /\ UnboundWait /\ BoundAreThere /\ SavedAreClean
    BY DEF FuseInv
<1>1. /\ Opens(h, p, "bound", TRUE) /\ want[p] # Nothing /\ pending' = [pending EXCEPT ![p] = want[p]]
      /\ UNCHANGED <<files, staged, intrans, dirty, created, dirs, want, saved>>
    BY Shows DEF OpensToWrite, Materialized, fsVars
<1>2. \A q \in Path : pending'[q] = IF q = p THEN want[p] ELSE pending[q]
    BY <1>1, <1>t DEF FuseTypeOK
<1>3. FuseTypeOK' /\ UnboundWait' /\ BoundAreThere'
    <2>1. /\ handle' \in [Handle -> {Closed} \union [kind : {"bound", "cached"}, path : Path, name : Path, writes : BOOLEAN]]
          /\ UnboundWait' /\ BoundAreThere'
        BY <1>1, <1>2, OpensKeep DEF InFlight
    <2> QED
        BY <1>1, <1>2, <1>t, <2>1 DEF FuseTypeOK
<1>4. StagedWaits' /\ ShownAsWritten' /\ CleanBuffers' /\ SavedAreClean'
    BY <1>1, <1>2, <1>t DEF StagedWaits, ShownAsWritten, CleanBuffers, SavedAreClean, InFlight
<1> QED
    BY <1>3, <1>4 DEF FuseInv

LEMMA OpensTruncatingKeeps == ASSUME FuseInv, NEW h \in Handle, NEW p \in Path, OpensTruncating(h, p) PROVE FuseInv'
<1>t. FuseTypeOK /\ StagedWaits /\ ShownAsWritten /\ CleanBuffers /\ UnboundWait /\ BoundAreThere /\ SavedAreClean
    BY DEF FuseInv
<1>1. Opens(h, p, "bound", TRUE) /\ UNCHANGED <<files, staged, intrans, created, dirs>> /\ dirty' = dirty \union {p}
      /\ pending' = [pending EXCEPT ![p] = <<>>] /\ want' = [want EXCEPT ![p] = <<>>] /\ saved' = saved \ {p}
    BY DEF OpensTruncating, fsVars
<1>2. <<>> \in Maybe /\ <<>> # Nothing
    BY Contents DEF Maybe
<1>3. \A q \in Path : /\ pending'[q] = IF q = p THEN <<>> ELSE pending[q]
                      /\ want'[q] = IF q = p THEN <<>> ELSE want[q]
    BY <1>1, <1>t DEF FuseTypeOK
<1>4. FuseTypeOK' /\ UnboundWait' /\ BoundAreThere'
    <2>1. /\ want'[p] # Nothing /\ \A q \in Path : want[q] # Nothing => want'[q] # Nothing
          /\ \A q \in Path : InFlight(q)' => InFlight(q) \/ q = p
        BY <1>2, <1>3 DEF InFlight
    <2>2. /\ handle' \in [Handle -> {Closed} \union [kind : {"bound", "cached"}, path : Path, name : Path, writes : BOOLEAN]]
          /\ UnboundWait' /\ BoundAreThere'
        BY <1>1, <2>1, OpensKeep
    <2> QED
        BY <1>1, <1>2, <1>3, <1>t, <2>2 DEF FuseTypeOK
<1>5. StagedWaits' /\ ShownAsWritten' /\ CleanBuffers' /\ SavedAreClean'
    BY <1>1, <1>2, <1>3, <1>t DEF FuseTypeOK, StagedWaits, ShownAsWritten, CleanBuffers, SavedAreClean, InFlight
<1> QED
    BY <1>4, <1>5 DEF FuseInv

LEMMA WritesKeeps == ASSUME FuseInv, NEW h \in Handle, NEW bytes \in Data, Writes(h, bytes) PROVE FuseInv'
<1>t. FuseTypeOK /\ StagedWaits /\ ShownAsWritten /\ CleanBuffers /\ UnboundWait /\ BoundAreThere /\ SavedAreClean
    BY DEF FuseInv
<1> DEFINE p == handle[h].path
<1> DEFINE longer == Append(want[p], bytes)
<1>1. handle[h].kind = "bound" /\ p \in Path /\ want[p] # Nothing /\ want[p] \in Content
    BY <1>t DEF Writes, FuseTypeOK, BoundAreThere, Closed, Maybe
<1>2. Materialized(p) = want[p] /\ handle[h].name = p
    BY <1>1, <1>t, Shows DEF Materialized, BoundAreThere
<1>3. /\ UNCHANGED <<files, staged, intrans, created, dirs, handle>> /\ dirty' = dirty \union {p}
      /\ pending' = [pending EXCEPT ![p] = longer] /\ want' = [want EXCEPT ![p] = longer] /\ saved' = saved \ {p}
      /\ Len(want[p]) < MaxLength
    BY <1>2 DEF Writes, fsVars
<1>4. longer \in Maybe /\ longer # Nothing
    BY <1>1, <1>3, Contents DEF Maybe
<1> HIDE DEF longer, p
<1>5. \A q \in Path : /\ pending'[q] = IF q = p THEN longer ELSE pending[q]
                      /\ want'[q] = IF q = p THEN longer ELSE want[q]
    BY <1>1, <1>3, <1>t DEF FuseTypeOK
<1>6. FuseTypeOK'
    BY <1>1, <1>3, <1>4, <1>5, <1>t DEF FuseTypeOK
<1>7. StagedWaits' /\ ShownAsWritten' /\ CleanBuffers' /\ SavedAreClean'
    BY <1>1, <1>3, <1>4, <1>5, <1>t DEF FuseTypeOK, StagedWaits, ShownAsWritten, CleanBuffers, SavedAreClean, InFlight
<1>8. UnboundWait' /\ BoundAreThere'
    BY <1>1, <1>3, <1>4, <1>5, <1>t DEF FuseTypeOK, UnboundWait, BoundAreThere, InFlight, Bound, Closed
<1> QED
    BY <1>6, <1>7, <1>8 DEF FuseInv

LEMMA TruncatesKeeps == ASSUME FuseInv, NEW p \in Path, Truncates(p) PROVE FuseInv'
<1>t. FuseTypeOK /\ StagedWaits /\ ShownAsWritten /\ CleanBuffers /\ UnboundWait /\ BoundAreThere /\ SavedAreClean
    BY DEF FuseInv
<1>1. /\ want[p] # Nothing /\ want' = [want EXCEPT ![p] = <<>>] /\ saved' = saved \ {p} /\ UNCHANGED handle
    BY Shows DEF Truncates
<1>2. <<>> \in Content /\ <<>> \in Maybe /\ <<>> # Nothing
    BY Contents DEF Maybe
<1>3. \A q \in Path : want'[q] = IF q = p THEN <<>> ELSE want[q]
    BY <1>1, <1>t DEF FuseTypeOK
<1>4. BoundAreThere'
    BY <1>1, <1>2, <1>3, <1>t DEF BoundAreThere, FuseTypeOK, Closed
<1>5. CASE Bound(p) # {} \/ \E h \in Handle : handle[h].writes /\ handle[h].name = p
    <2> Bound(p) # {}
        BY <1>5, <1>t DEF Bound, BoundAreThere
    <2>1. /\ pending' = [pending EXCEPT ![p] = <<>>] /\ dirty' = dirty \union {p}
          /\ UNCHANGED <<files, staged, intrans, created, dirs>>
        BY DEF Truncates, fsVars
    <2>2. \A q \in Path : pending'[q] = IF q = p THEN <<>> ELSE pending[q]
        BY <2>1, <1>t DEF FuseTypeOK
    <2>3. FuseTypeOK'
        BY <2>1, <2>2, <1>1, <1>2, <1>3, <1>t DEF FuseTypeOK
    <2>4. StagedWaits' /\ ShownAsWritten' /\ CleanBuffers' /\ SavedAreClean' /\ UnboundWait'
        BY <2>1, <2>2, <1>1, <1>2, <1>3, <1>t
        DEF FuseTypeOK, StagedWaits, ShownAsWritten, CleanBuffers, SavedAreClean, InFlight, UnboundWait, Bound
    <2> QED
        BY <1>4, <2>3, <2>4 DEF FuseInv
<1>6. CASE ~(Bound(p) # {} \/ \E h \in Handle : handle[h].writes /\ handle[h].name = p)
    <2> DEFINE written == dirty \union {p}
    <2>1. Saves(p, <<>>, written, created) \/ SaveRefused(p, <<>>, written, created)
        BY <1>6 DEF Truncates
    <2>2. Unsaved(p, written, created)
        BY DEF Unsaved
    <2>3. p \notin saved' /\ saved' \subseteq saved \union {p}
          /\ dirty \subseteq written /\ written \subseteq dirty \union {p}
          /\ created \subseteq created /\ created \subseteq created \union {p}
        BY <1>1
    <2> HIDE DEF written
    <2>4. SavedBut(p)
        BY <1>1, <1>2, <2>1, <2>2, <2>3, SavesKeep
    <2>5. UnboundWait'
        <3>1. \A q \in Path : Bound(q)' = Bound(q)
            BY <1>1 DEF Bound
        <3> QED
            BY <2>4, <3>1, SavesLeaveBound
    <2> QED
        BY <1>1, <1>4, <1>t, <2>4, <2>5 DEF SavedBut, FuseInv, FuseTypeOK
<1> QED
    BY <1>5, <1>6

LEMMA FlushesKeeps == ASSUME FuseInv, NEW h \in Handle, Flushes(h) PROVE FuseInv'
<1>t. FuseTypeOK /\ StagedWaits /\ ShownAsWritten /\ CleanBuffers /\ UnboundWait /\ BoundAreThere /\ SavedAreClean
    BY DEF FuseInv
<1> DEFINE p == handle[h].path
<1>1. handle[h].kind = "bound" /\ p \in Path /\ handle[h].name = p /\ UNCHANGED <<handle, want>>
    BY <1>t DEF Flushes, FuseTypeOK, Closed, BoundAreThere
<1>2. BoundAreThere'
    BY <1>1, <1>t DEF BoundAreThere
<1>3. CASE p \notin dirty
    <2>1. UNCHANGED vars
        BY <1>1, <1>3 DEF Flushes, fsVars, tableVars, vars
    <2> QED
        BY <2>1 DEF vars, FuseInv, FuseTypeOK, StagedWaits, ShownAsWritten, CleanBuffers, UnboundWait, BoundAreThere, SavedAreClean, InFlight, Bound
<1>4. CASE p \in dirty
    <2> DEFINE made == created \ {p}
    <2>1. pending[p] \in Content /\ want[p] = pending[p]
        BY <1>t, <1>1, <1>4 DEF FuseTypeOK, ShownAsWritten, InFlight, Maybe
    <2>2. /\ Saves(p, pending[p], dirty, made) \/ SaveRefused(p, pending[p], dirty, made)
          /\ saved' \subseteq saved \union {p}
          /\ p \in saved' => Saves(p, pending[p], dirty, made)
        <3>1. p \notin saved
            BY <1>t, <1>4 DEF SavedAreClean
        <3> QED
            BY <1>1, <1>4, <3>1 DEF Flushes
    <2>3. ~Unsaved(p, dirty, made) => files[p] = pending[p]
        BY <1>4 DEF Unsaved
    <2>4. want' = [want EXCEPT ![p] = pending[p]]
        BY <1>1, <1>t, <2>1 DEF FuseTypeOK
    <2>5. dirty \subseteq dirty /\ dirty \subseteq dirty \union {p} /\ made \subseteq created /\ created \subseteq made \union {p}
        OBVIOUS
    <2>6. p \in Path
        BY <1>1
    <2> HIDE DEF p, made
    <2>7. SavedBut(p)
        BY <2>6, <2>1, <2>2, <2>3, <2>4, <2>5, SavesKeep
    <2>8. UnboundWait'
        <3>1. \A q \in Path : Bound(q)' = Bound(q)
            BY <1>1 DEF Bound
        <3> QED
            BY <1>1, <2>7, <3>1, SavesLeaveBound
    <2> QED
        BY <1>1, <1>2, <1>t, <2>7, <2>8 DEF SavedBut, FuseInv, FuseTypeOK
<1> QED
    BY <1>3, <1>4

LEMMA ReleasesKeeps == ASSUME FuseInv, NEW h \in Handle, Releases(h) PROVE FuseInv'
<1>t. FuseTypeOK /\ StagedWaits /\ ShownAsWritten /\ CleanBuffers /\ UnboundWait /\ BoundAreThere /\ SavedAreClean
    BY DEF FuseInv
<1> DEFINE p == handle[h].path
<1>1. /\ handle[h].kind \in {"bound", "cached"} /\ p \in Path /\ handle' = [handle EXCEPT ![h] = Closed]
      /\ UNCHANGED <<want, saved>>
    BY <1>t DEF Releases, FuseTypeOK, Closed
<1>2. handle'[h] = Closed /\ \A g \in Handle \ {h} : handle'[g] = handle[g]
    BY <1>1, <1>t DEF FuseTypeOK
<1>3. BoundAreThere' /\ handle' \in [Handle -> {Closed} \union [kind : {"bound", "cached"}, path : Path, name : Path, writes : BOOLEAN]]
    BY <1>1, <1>2, <1>t DEF BoundAreThere, FuseTypeOK, Closed
<1>4. \A q \in Path : Bound(q)' = {} => Bound(q) = {} \/ (q = p /\ handle[h].kind = "bound" /\ Bound(q) = {h})
    BY <1>2 DEF Bound
<1>5. CASE handle[h].kind = "bound" /\ InFlight(p) /\ Bound(p) = {h}
    <2>1. pending[p] \in Content /\ want[p] = pending[p]
        BY <1>t, <1>1, <1>5 DEF FuseTypeOK, ShownAsWritten, InFlight, Maybe
    <2>2. Saves(p, pending[p], dirty, created) \/ SaveRefused(p, pending[p], dirty, created)
        BY <1>5 DEF Releases
    <2>3. ~Unsaved(p, dirty, created) => files[p] = pending[p]
        BY <1>1, <1>5, <1>t DEF Unsaved, CleanBuffers
    <2>4. want' = [want EXCEPT ![p] = pending[p]]
        BY <1>1, <1>t, <2>1 DEF FuseTypeOK
    <2>5. p \in saved' => Saves(p, pending[p], dirty, created)
        BY <1>1, <1>t, <2>2 DEF SavedAreClean, SaveRefused, Unsaved
    <2>6. dirty \subseteq dirty \union {p} /\ created \subseteq created \union {p} /\ saved' \subseteq saved \union {p}
        BY <1>1
    <2> HIDE DEF p
    <2>7. SavedBut(p)
        BY <1>1, <2>1, <2>2, <2>3, <2>4, <2>5, <2>6, SavesKeep
    <2>8. UnboundWait'
        BY <1>1, <1>4, <2>7, SavesLeaveBound
    <2> QED
        BY <1>3, <1>t, <2>7, <2>8 DEF SavedBut, FuseInv, FuseTypeOK
<1>6. CASE ~(handle[h].kind = "bound" /\ InFlight(p) /\ Bound(p) = {h})
    <2>1. UNCHANGED <<files, staged, intrans, pending, dirty, created, dirs, want, saved>>
        BY <1>1, <1>6 DEF Releases, fsVars, tableVars
    <2>2. UnboundWait'
        BY <2>1, <1>4, <1>6, <1>t DEF UnboundWait, InFlight
    <2> QED
        BY <2>1, <2>2, <1>3, <1>t DEF FuseInv, FuseTypeOK, StagedWaits, ShownAsWritten, CleanBuffers, SavedAreClean, InFlight
<1> QED
    BY <1>5, <1>6

LEMMA UnlinksKeeps == ASSUME OnlyRefusals, FuseInv, NEW p \in Path, Unlinks(p) PROVE FuseInv'
<1>t. FuseTypeOK /\ StagedWaits /\ ShownAsWritten /\ CleanBuffers /\ UnboundWait /\ BoundAreThere /\ SavedAreClean
    BY DEF FuseInv
<1> DEFINE gone == Without(staged, p)
<1>1. /\ pending' = [pending EXCEPT ![p] = Nothing] /\ dirty' = dirty \ {p} /\ created' = created \ {p}
      /\ saved' = saved \ {p} /\ want' = [want EXCEPT ![p] = Nothing] /\ UNCHANGED <<dirs, handle>>
      /\ IF FsSees(p) # Nothing /\ gone[p] = Removed THEN FsStages(gone)
         ELSE staged' = gone /\ UNCHANGED <<files, intrans>>
    <2>1. Bound(p) = {}
        BY <1>t DEF Unlinks, IsOpen, Bound, BoundAreThere
    <2>2. handle = [h \in Handle |-> handle[h]]
        BY <1>t DEF FuseTypeOK
    <2>3. handle' = [h \in Handle |-> handle[h]]
        BY <2>1 DEF Unlinks
    <2> QED
        BY <2>2, <2>3 DEF Unlinks, OnlyRefusals
<1>2. /\ gone \in [Path -> Maybe \union {Removed}] /\ \A q \in Path \ {p} : gone[q] = staged[q]
      /\ gone[p] = IF files[p] = Nothing THEN Nothing ELSE Removed
    BY <1>t DEF Without, FuseTypeOK, Maybe
<1>3. \A q \in Path : /\ pending'[q] = IF q = p THEN Nothing ELSE pending[q]
                      /\ want'[q] = IF q = p THEN Nothing ELSE want[q]
    BY <1>1, <1>t DEF FuseTypeOK
<1> HIDE DEF gone
<1>4. /\ files' \in [Path -> Maybe] /\ staged' \in [Path -> Maybe \union {Removed}] /\ intrans' \in BOOLEAN /\ StagedWaits'
      /\ files'[p] = Nothing /\ \A q \in Path \ {p} : q \notin dirty => files'[q] = files[q]
    <2>1. CASE FsSees(p) # Nothing /\ gone[p] = Removed
        <3>1. /\ files' = [q \in Path |-> IF gone[q] = Nothing THEN files[q]
                                          ELSE IF gone[q] = Removed THEN Nothing ELSE gone[q]]
              /\ files' \in [Path -> Maybe] /\ staged' = Nowhere /\ ~intrans' /\ intrans' \in BOOLEAN
            BY <1>1, <1>2, <2>1, CommitOf
        <3>2. files'[p] = Nothing /\ \A q \in Path \ {p} : q \notin dirty => files'[q] = files[q]
            BY <3>1, <1>2, <2>1, <1>t, Contents DEF StagedWaits
        <3>3. StagedWaits' /\ staged' \in [Path -> Maybe \union {Removed}]
            BY <3>1, Contents DEF StagedWaits, Nowhere, Maybe
        <3> QED
            BY <3>1, <3>2, <3>3
    <2>2. CASE ~(FsSees(p) # Nothing /\ gone[p] = Removed)
        <3>1. staged' = gone /\ UNCHANGED <<files, intrans>>
            BY <1>1, <2>2
        <3>2. files[p] = Nothing
            BY <1>2, <2>2, Shows
        <3>3. StagedWaits'
            BY <1>1, <1>2, <3>1, <3>2, <1>t, Contents DEF StagedWaits
        <3> QED
            BY <1>2, <3>1, <3>2, <3>3, <1>t DEF FuseTypeOK
    <2> QED
        BY <2>1, <2>2
<1>5. FuseTypeOK'
    BY <1>1, <1>3, <1>4, <1>t DEF FuseTypeOK, Maybe
<1>6. ShownAsWritten' /\ CleanBuffers' /\ SavedAreClean' /\ UnboundWait'
    BY <1>1, <1>3, <1>4, <1>t
    DEF FuseTypeOK, ShownAsWritten, CleanBuffers, SavedAreClean, InFlight, UnboundWait, Bound
<1>7. BoundAreThere'
    <2>1. \A h \in Handle : handle[h].path # p
        BY <1>t DEF Unlinks, IsOpen, BoundAreThere
    <2> QED
        BY <1>1, <1>3, <1>t, <2>1 DEF BoundAreThere, FuseTypeOK, Closed
<1> QED
    BY <1>4, <1>5, <1>6, <1>7 DEF FuseInv

(***************************************************************************)
(* Renames.                                                                *)
(***************************************************************************)
\* A file in flight takes its handles along.
LEMMA HandlesMove ==
    ASSUME FuseInv, NEW p \in Path, NEW q \in Path, ~IsOpen(q), p # q,
           Rebinds(p, q),
           want'[q] # Nothing, \A r \in Path \ {p, q} : want'[r] = want[r]
    PROVE  /\ handle' \in [Handle -> {Closed} \union [kind : {"bound", "cached"}, path : Path, name : Path, writes : BOOLEAN]]
           /\ BoundAreThere'
           /\ Bound(q)' = Bound(p)
           /\ \A r \in Path \ {p, q} : Bound(r)' = Bound(r)
<1> DEFINE moves == {h \in Handle : handle[h].path = p}
<1>1. handle \in [Handle -> {Closed} \union [kind : {"bound", "cached"}, path : Path, name : Path, writes : BOOLEAN]] /\ BoundAreThere
    BY DEF FuseInv, FuseTypeOK
<1>2. /\ Closed.path \notin Path /\ Closed.kind = "closed" /\ Closed.writes = FALSE
      /\ Closed.path = Nothing /\ Closed.name = Nothing
    BY PathAssumption DEF Closed
<1>3. \A h \in Handle : handle[h].path # q
    BY <1>1 DEF IsOpen, BoundAreThere
<1>4. \A h \in moves : handle[h] \in [kind : {"bound", "cached"}, path : Path, name : Path, writes : BOOLEAN]
    BY <1>1, <1>2
<1>5. \A h \in moves : /\ handle'[h] \in [kind : {"bound", "cached"}, path : Path, name : Path, writes : BOOLEAN]
                       /\ handle'[h].path = q /\ handle'[h].name = q
                       /\ handle'[h].kind = handle[h].kind /\ handle'[h].writes = handle[h].writes
    BY <1>1, <1>4 DEF BoundAreThere, Rebinds
<1>6. \A h \in Handle \ moves : handle'[h] = handle[h]
    <2> SUFFICES ASSUME NEW h \in Handle, handle[h].path # p PROVE handle'[h] = handle[h]
        OBVIOUS
    <2>1. handle[h].name = handle[h].path
        BY <1>1 DEF BoundAreThere
    <2>2. CASE handle[h] = Closed
        BY <2>1, <2>2 DEF Closed, Rebinds
    <2>3. CASE handle[h] \in [kind : {"bound", "cached"}, path : Path, name : Path, writes : BOOLEAN]
        BY <2>1, <2>3 DEF Rebinds
    <2> QED
        BY <1>1, <2>2, <2>3
<1> HIDE DEF moves
<1>7. handle' \in [Handle -> {Closed} \union [kind : {"bound", "cached"}, path : Path, name : Path, writes : BOOLEAN]]
    BY <1>1, <1>5, <1>6 DEF moves, Rebinds
<1>8. BoundAreThere'
    <2> SUFFICES ASSUME NEW h \in Handle
                 PROVE  /\ handle'[h].name = handle'[h].path
                        /\ handle'[h].writes => handle'[h].kind = "bound"
                        /\ handle'[h].kind = "bound" => want'[handle'[h].path] # Nothing
        BY DEF BoundAreThere
    <2>1. CASE h \in moves
        BY <2>1, <1>1, <1>5 DEF BoundAreThere
    <2>2. CASE h \notin moves
        <3>1. handle[h].kind = "bound" => handle[h].path \in Path \ {p, q}
            BY <2>2, <1>1, <1>2, <1>3 DEF moves
        <3>2. handle'[h] = handle[h]
            BY <2>2, <1>6
        <3> QED
            BY <3>1, <3>2, <1>1 DEF BoundAreThere
    <2> QED
        BY <2>1, <2>2
<1>9. Bound(q)' = Bound(p) /\ \A r \in Path \ {p, q} : Bound(r)' = Bound(r)
    <2>1. \A h \in Handle : /\ handle'[h].kind = handle[h].kind
                            /\ handle'[h].path = IF handle[h].path = p THEN q ELSE handle[h].path
        BY <1>5, <1>6 DEF moves
    <2> QED
        BY <1>3, <2>1 DEF Bound
<1> QED
    BY <1>7, <1>8, <1>9

\* A rename of names that no handle is bound to leaves those that are as they are.
LEMMA HandlesFollow ==
    ASSUME FuseInv, NEW to \in [Path -> Path], Follow(to),
           \A h \in Handle : handle[h].kind = "bound" =>
               to[handle[h].path] = handle[h].path /\ want'[handle[h].path] # Nothing
    PROVE  /\ handle' \in [Handle -> {Closed} \union [kind : {"bound", "cached"}, path : Path, name : Path, writes : BOOLEAN]]
           /\ BoundAreThere'
           /\ \A r \in Path : Bound(r)' = Bound(r)
<1>1. handle \in [Handle -> {Closed} \union [kind : {"bound", "cached"}, path : Path, name : Path, writes : BOOLEAN]] /\ BoundAreThere
    BY DEF FuseInv, FuseTypeOK
<1>2. ASSUME NEW h \in Handle
      PROVE  /\ handle'[h] \in {Closed} \union [kind : {"bound", "cached"}, path : Path, name : Path, writes : BOOLEAN]
             /\ handle'[h].name = handle'[h].path
             /\ handle'[h].writes = handle[h].writes /\ handle'[h].kind = handle[h].kind
             /\ handle[h].kind = "bound" => handle'[h].path = handle[h].path
    <2>1. handle[h].name = handle[h].path
        BY <1>1 DEF BoundAreThere
    <2>2. CASE handle[h] = Closed
        <3>1. handle[h].kind = "closed"
            BY <2>2 DEF Closed
        <3>2. handle'[h] = handle[h]
            BY <3>1 DEF Follow
        <3> QED
            BY <2>1, <2>2, <3>2
    <2>3. CASE handle[h] \in [kind : {"bound", "cached"}, path : Path, name : Path, writes : BOOLEAN] /\ handle[h].kind = "cached"
        <3>1. handle'[h] = [handle[h] EXCEPT !.name = to[handle[h].name], !.path = to[handle[h].path]]
            BY <2>3 DEF Follow
        <3>2. to[handle[h].path] \in Path
            BY <2>3
        <3>3. handle'[h] = [kind |-> "cached", path |-> to[handle[h].path], name |-> to[handle[h].path],
                            writes |-> handle[h].writes]
            BY <2>1, <2>3, <3>1
        <3> HIDE DEF Follow
        <3> QED
            BY <2>3, <3>2, <3>3
    <2>4. CASE handle[h] \in [kind : {"bound", "cached"}, path : Path, name : Path, writes : BOOLEAN] /\ handle[h].kind = "bound"
        <3>1. handle'[h] = [handle[h] EXCEPT !.name = to[handle[h].name]]
            BY <2>4 DEF Follow
        <3> QED
            BY <2>1, <2>4, <3>1
    <2> QED
        BY <1>1, <2>2, <2>3, <2>4
<1>3. handle' \in [Handle -> {Closed} \union [kind : {"bound", "cached"}, path : Path, name : Path, writes : BOOLEAN]]
    BY <1>2 DEF Follow
<1>4. BoundAreThere'
    BY <1>1, <1>2 DEF BoundAreThere
<1>5. \A r \in Path : Bound(r)' = Bound(r)
    BY <1>2 DEF Bound
<1> QED
    BY <1>3, <1>4, <1>5

LEMMA RenamesInFlightKeeps ==
    ASSUME OnlyRefusals, FuseInv, NEW p \in Path, NEW q \in Path, p # q, ~IsOpen(q), RenamesInFlight(p, q)
    PROVE  FuseInv'
<1>t. FuseTypeOK /\ StagedWaits /\ ShownAsWritten /\ CleanBuffers /\ UnboundWait /\ BoundAreThere /\ SavedAreClean
    BY DEF FuseInv
<1>1. /\ InFlight(p) /\ FsSees(p) = Nothing /\ UNCHANGED <<files, staged, intrans, dirs>>
      /\ pending' = [pending EXCEPT ![q] = pending[p], ![p] = Nothing]
      /\ dirty' = Carried(dirty, p, q) /\ created' = Carried(created, p, q)
      /\ Rebinds(p, q)
      /\ want' = [want EXCEPT ![q] = want[p], ![p] = Nothing] /\ saved' = saved \ {p, q}
    BY DEF RenamesInFlight, OnlyRefusals, Told, fsVars
<1>2. \A r \in Path : /\ pending'[r] = IF r = p THEN Nothing ELSE IF r = q THEN pending[p] ELSE pending[r]
                      /\ want'[r] = IF r = p THEN Nothing ELSE IF r = q THEN want[p] ELSE want[r]
    BY <1>1, <1>t DEF FuseTypeOK
<1>3. staged[p] = Nothing /\ files[p] = Nothing /\ want[p] = pending[p] /\ pending[p] # Nothing /\ p \in dirty \union created
    BY <1>1, <1>t, Shows DEF ShownAsWritten, InFlight, CleanBuffers, FuseTypeOK
<1>4. /\ p \notin dirty' \union created' /\ (p \in dirty => q \in dirty') /\ (p \in created => q \in created')
      /\ \A r \in Path \ {p, q} : (r \in dirty' <=> r \in dirty) /\ (r \in created' <=> r \in created)
      /\ (q \in dirty => q \in dirty') /\ dirty' \subseteq Path /\ created' \subseteq Path
    BY <1>1, <1>t DEF Carried, FuseTypeOK
<1>5. /\ handle' \in [Handle -> {Closed} \union [kind : {"bound", "cached"}, path : Path, name : Path, writes : BOOLEAN]]
      /\ BoundAreThere'
      /\ Bound(q)' = Bound(p)
      /\ \A r \in Path \ {p, q} : Bound(r)' = Bound(r)
    <2>1. want'[q] # Nothing /\ \A r \in Path \ {p, q} : want'[r] = want[r]
        BY <1>2, <1>3
    <2> QED
        BY <1>1, <2>1, HandlesMove
<1>6. FuseTypeOK'
    <2>1. pending' \in [Path -> Maybe] /\ want' \in [Path -> Maybe]
        BY <1>1, <1>t DEF FuseTypeOK, Maybe
    <2>2. \A r \in dirty' \union created' : pending'[r] # Nothing
        BY <1>2, <1>3, <1>4, <1>t DEF FuseTypeOK
    <2> QED
        BY <1>1, <1>4, <1>5, <2>1, <2>2, <1>t DEF FuseTypeOK
<1>7. StagedWaits'
    BY <1>1, <1>3, <1>4, <1>t DEF StagedWaits
<1>8. ShownAsWritten' /\ CleanBuffers'
    <2>1. ShownAsWritten'
        <3> SUFFICES ASSUME NEW r \in Path
                     PROVE  want'[r] = IF pending'[r] # Nothing THEN pending'[r] ELSE files'[r]
            BY DEF ShownAsWritten, InFlight
        <3>1. CASE r = p
            BY <3>1, <1>1, <1>2, <1>3
        <3>2. CASE r = q
            BY <3>2, <1>2, <1>3
        <3>3. CASE r # p /\ r # q
            <4>1. want'[r] = want[r] /\ pending'[r] = pending[r] /\ files' = files
                BY <3>3, <1>1, <1>2
            <4>2. want[r] = IF pending[r] # Nothing THEN pending[r] ELSE files[r]
                BY <1>t DEF ShownAsWritten, InFlight
            <4> QED
                BY <4>1, <4>2
        <3> QED
            BY <3>1, <3>2, <3>3
    <2>2. CleanBuffers'
        <3> SUFFICES ASSUME NEW r \in Path, pending'[r] # Nothing, r \notin dirty' \union created'
                     PROVE  pending'[r] = files'[r]
            BY DEF CleanBuffers, InFlight
        <3>1. r # p /\ r # q
            BY <1>2, <1>3, <1>4
        <3> QED
            BY <3>1, <1>1, <1>2, <1>4, <1>t DEF CleanBuffers, InFlight
    <2> QED
        BY <2>1, <2>2
<1>9. UnboundWait'
    BY <1>1, <1>2, <1>4, <1>5, <1>t DEF UnboundWait, InFlight
<1>10. SavedAreClean'
    BY <1>1, <1>2, <1>4, <1>t DEF SavedAreClean, FuseTypeOK
<1> QED
    BY <1>5, <1>6, <1>7, <1>8, <1>9, <1>10 DEF FuseInv

LEMMA RenamesCommittedKeeps ==
    ASSUME OnlyRefusals, FuseInv, NEW p \in Path, NEW q \in Path, p # q, Seen(p) # Nothing, ~IsOpen(q),
           RenamesCommitted(p, q)
    PROVE  FuseInv'
<1>t. FuseTypeOK /\ StagedWaits /\ ShownAsWritten /\ CleanBuffers /\ UnboundWait /\ BoundAreThere /\ SavedAreClean
    BY DEF FuseInv
<1> DEFINE moved == [Without(staged, p) EXCEPT ![q] = FsSees(p)]
<1> DEFINE to == [r \in Path |-> IF r = p THEN q ELSE r]
<1>1. /\ ~InFlight(p) /\ ~InFlight(q) /\ UNCHANGED <<pending, dirty, created, dirs>>
      /\ FsTransacts(moved) /\ Bound(p) = {} /\ Follow(to)
      /\ want' = [want EXCEPT ![q] = want[p], ![p] = Nothing] /\ saved' = saved \ {p, q}
    BY DEF RenamesCommitted, OnlyRefusals, Told, tableVars, FsHalts
<1>2. \A r \in Path : want'[r] = IF r = p THEN Nothing ELSE IF r = q THEN want[p] ELSE want[r]
    BY <1>1, <1>t DEF FuseTypeOK
<1>3. /\ FsSees(p) = files[p] /\ files[p] = want[p] /\ want[p] # Nothing /\ files[p] \in Content
    BY <1>1, <1>t, Shows DEF ShownAsWritten, FuseTypeOK, Maybe
<1>4. /\ moved \in [Path -> Maybe \union {Removed}]
      /\ moved[p] = Removed /\ moved[q] = files[p] /\ \A r \in Path \ {p, q} : moved[r] = staged[r]
    BY <1>3, <1>t DEF Without, FuseTypeOK, Maybe
<1>5. /\ to \in [Path -> Path]
      /\ \A h \in Handle : handle[h].kind = "bound" => handle[h].path \in Path \ {p, q}
    BY <1>1, <1>t DEF FuseTypeOK, Closed, Bound, IsOpen, BoundAreThere
<1> HIDE DEF moved
<1>6. /\ files' = [r \in Path |-> IF moved[r] = Nothing THEN files[r]
                                  ELSE IF moved[r] = Removed THEN Nothing ELSE moved[r]]
      /\ files' \in [Path -> Maybe] /\ staged' = Nowhere /\ ~intrans' /\ intrans' \in BOOLEAN
    BY <1>1, <1>4, CommitOf
<1>7. /\ files'[p] = Nothing /\ files'[q] = want[p]
      /\ \A r \in Path \ {p, q} : r \notin dirty => files'[r] = files[r]
    BY <1>3, <1>4, <1>6, <1>t, Contents DEF StagedWaits
<1>8. /\ handle' \in [Handle -> {Closed} \union [kind : {"bound", "cached"}, path : Path, name : Path, writes : BOOLEAN]]
      /\ BoundAreThere'
      /\ \A r \in Path : Bound(r)' = Bound(r)
    <2>1. \A h \in Handle : handle[h].kind = "bound" =>
            to[handle[h].path] = handle[h].path /\ want'[handle[h].path] # Nothing
        BY <1>2, <1>5, <1>t DEF BoundAreThere
    <2> HIDE DEF to
    <2> QED
        BY <1>1, <1>5, <2>1, HandlesFollow
<1>9. FuseTypeOK' /\ StagedWaits'
    <2>1. want' \in [Path -> Maybe] /\ staged' \in [Path -> Maybe \union {Removed}] /\ saved' \subseteq Path
        BY <1>1, <1>6, <1>t DEF FuseTypeOK, Maybe, Nowhere
    <2> QED
        BY <1>1, <1>6, <1>8, <2>1, <1>t, Contents DEF FuseTypeOK, StagedWaits, Nowhere
<1>10. p \notin dirty \union created /\ q \notin dirty \union created
    BY <1>1, <1>t DEF InFlight, FuseTypeOK
<1>11. ShownAsWritten' /\ CleanBuffers' /\ SavedAreClean'
    BY <1>1, <1>2, <1>7, <1>10, <1>t DEF FuseTypeOK, ShownAsWritten, CleanBuffers, SavedAreClean, InFlight
<1>12. UnboundWait'
    BY <1>1, <1>8, <1>t DEF UnboundWait, InFlight
<1> QED
    BY <1>8, <1>9, <1>11, <1>12 DEF FuseInv

(***************************************************************************)
(* Directories.                                                            *)
(***************************************************************************)
LEMMA MkdirKeeps == ASSUME FuseInv, NEW d \in Folder, Mkdir(d) PROVE FuseInv'
BY DEF Mkdir, fsVars, tableVars, FuseInv, FuseTypeOK, StagedWaits, ShownAsWritten, CleanBuffers, UnboundWait, BoundAreThere, SavedAreClean, InFlight, Bound

\* A directory that neither the manifest nor the buffers know has nothing in it.
LEMMA NothingThere ==
    ASSUME FuseInv, NEW d, ~FsIsDir(d), \A p \in Within(d) : ~InFlight(p)
    PROVE  \A p \in Within(d) : want[p] = Nothing /\ files[p] = Nothing /\ staged[p] = Nothing
<1> SUFFICES ASSUME NEW p \in Path, p[1] = d
             PROVE  want[p] = Nothing /\ files[p] = Nothing /\ staged[p] = Nothing
    BY DEF Within
<1>1. ~InFlight(p) /\ FsSees(p) = Nothing
    BY DEF Within, FsIsDir
<1> QED
    BY <1>1, Shows

LEMMA RmdirKeeps == ASSUME OnlyRefusals, FuseInv, NEW d \in Folder, Rmdir(d) PROVE FuseInv'
<1>t. FuseTypeOK /\ StagedWaits /\ ShownAsWritten /\ CleanBuffers /\ UnboundWait /\ BoundAreThere /\ SavedAreClean
    BY DEF FuseInv
<1>1. /\ UNCHANGED <<files, staged, intrans, pending, dirty, created, handle>> /\ dirs' \subseteq Folder
      /\ saved' \subseteq saved
      /\ want' = [p \in Path |-> IF p[1] = d THEN Nothing ELSE want[p]]
    BY <1>t DEF Rmdir, fsVars, tableVars, FuseTypeOK
<1>2. \A p \in Path : p[1] = d => want[p] = Nothing
    BY NothingThere DEF Rmdir, OnlyRefusals, Straddles, Within
<1>3. want' = want
    BY <1>1, <1>2, <1>t DEF FuseTypeOK
<1> QED
    BY <1>1, <1>3, <1>t
    DEF FuseInv, FuseTypeOK, StagedWaits, ShownAsWritten, CleanBuffers, UnboundWait, BoundAreThere, SavedAreClean, InFlight, Bound

LEMMA TwinOf ==
    ASSUME NEW d \in Folder, NEW e \in Folder, d # e, NEW p \in Path, p[1] = e
    PROVE  Twin(p, d, e) \in Within(d)
<1>1. <<d, p[2]>> \in Path
    BY PathAssumption
<1>2. Twin(p, d, e) = <<d, p[2]>>
    BY DEF Twin
<1> QED
    BY <1>1, <1>2 DEF Within

LEMMA RenamesDirKeeps ==
    ASSUME OnlyRefusals, FuseInv, NEW d \in Folder, NEW e \in Folder, RenamesDir(d, e)
    PROVE  FuseInv'
<1>t. FuseTypeOK /\ StagedWaits /\ ShownAsWritten /\ CleanBuffers /\ UnboundWait /\ BoundAreThere /\ SavedAreClean
    BY DEF FuseInv
<1> DEFINE here == {p \in Within(d) : FsSees(p) # Nothing}
           moved == [p \in Path |-> IF p \in here THEN Without(staged, p)[p]
                                    ELSE IF Twin(p, d, e) \in here /\ p[1] = e THEN FsSees(Twin(p, d, e))
                                    ELSE staged[p]]
           told == [p \in Path |-> CASE p[1] = d -> Nothing [] p[1] = e -> want[Twin(p, d, e)] [] OTHER -> want[p]]
           to == [p \in Path |-> IF p[1] = d THEN Twin(p, d, e) ELSE p]
<1>1. /\ d # e /\ ~FsIsDir(e) /\ (\A p \in Within(e) : ~InFlight(p)) /\ ~Straddles(d)
      /\ (\A p \in Within(d) : ~InFlight(p))
      /\ (\A p \in Within(d) : Bound(p) = {}) /\ saved' = saved \ (Within(d) \union Within(e))
      /\ want' = told /\ Follow(to) /\ UNCHANGED <<pending, dirty, created>>
      /\ \/ d \in dirs /\ dirs' = (dirs \ {d}) \union {e} /\ UNCHANGED <<files, staged, intrans>>
         \/ d \notin dirs /\ FsTransacts(moved) /\ UNCHANGED dirs
    BY DEF RenamesDir, OnlyRefusals, DirSeen, Straddles, tableVars, fsVars, FsHalts
<1>2. \A p \in Within(e) : want[p] = Nothing /\ files[p] = Nothing /\ staged[p] = Nothing
    BY <1>1, NothingThere
<1>3. \A p \in Path : /\ p[1] = d => told[p] = Nothing
                      /\ p[1] = e => told[p] = want[Twin(p, d, e)] /\ Twin(p, d, e) \in Within(d)
                      /\ p[1] # d /\ p[1] # e => told[p] = want[p]
    BY <1>1, TwinOf
<1>4. /\ handle' \in [Handle -> {Closed} \union [kind : {"bound", "cached"}, path : Path, name : Path, writes : BOOLEAN]]
      /\ BoundAreThere'
      /\ \A r \in Path : Bound(r)' = Bound(r)
    <2>1. to \in [Path -> Path]
        <3>1. \A p \in Path : p[1] = d => Twin(p, d, e) = <<e, p[2]>> /\ <<e, p[2]>> \in Path
            BY PathAssumption DEF Twin
        <3> QED
            BY <3>1
    <2>2. ASSUME NEW h \in Handle, handle[h].kind = "bound"
          PROVE  to[handle[h].path] = handle[h].path /\ want'[handle[h].path] # Nothing
        <3>1. handle[h].path \in Path /\ want[handle[h].path] # Nothing
            BY <2>2, <1>t DEF BoundAreThere, FuseTypeOK, Closed
        <3>2. handle[h].path[1] # d /\ handle[h].path[1] # e
            BY <2>2, <3>1, <1>1, <1>2 DEF Bound, Within
        <3> QED
            BY <3>1, <3>2, <1>1, <1>3
    <2> HIDE DEF to
    <2> QED
        BY <1>1, <2>1, <2>2, HandlesFollow
<1>5. CASE d \in dirs
    <2>1. UNCHANGED <<files, staged, intrans>> /\ dirs' \subseteq Folder
        BY <1>1, <1>5, <1>t DEF FuseTypeOK
    <2>2. \A p \in Within(d) : want[p] = Nothing
        BY <1>1, <1>5, NothingThere DEF Straddles
    <2>3. \A p \in Path : told[p] = want[p]
        BY <1>2, <1>3, <2>2 DEF Within
    <2>4. want' = want
        BY <1>1, <2>3, <1>t DEF FuseTypeOK
    <2>5. UnboundWait'
        BY <1>1, <1>4, <1>t DEF UnboundWait, InFlight
    <2> QED
        BY <1>1, <1>4, <2>1, <2>4, <2>5, <1>t
        DEF FuseInv, FuseTypeOK, StagedWaits, ShownAsWritten, CleanBuffers, SavedAreClean, InFlight
<1>6. CASE d \notin dirs
    <2>1. FsTransacts(moved) /\ want' = told /\ UNCHANGED dirs
        BY <1>1, <1>6
    <2>2. \A p \in Within(d) : staged[p] = Nothing /\ FsSees(p) = files[p] /\ want[p] = files[p] /\ files[p] \in Maybe
        BY <1>1, <1>t, Shows DEF ShownAsWritten, FuseTypeOK, Within
    <2>3. \A p \in Path : p[1] = d => moved[p] = IF files[p] = Nothing THEN Nothing ELSE Removed
        BY <2>2, <1>1, <1>t DEF Without, FuseTypeOK, Within
    <2>4. \A p \in Path : p[1] = e => moved[p] = want[Twin(p, d, e)]
        <3> SUFFICES ASSUME NEW p \in Path, p[1] = e PROVE moved[p] = want[Twin(p, d, e)]
            OBVIOUS
        <3>1. p \notin here /\ Twin(p, d, e) \in Within(d) /\ staged[p] = Nothing
            BY <1>1, <1>2, <1>3 DEF Within
        <3>2. CASE Twin(p, d, e) \in here
            BY <2>2, <3>1, <3>2
        <3>3. CASE Twin(p, d, e) \notin here
            BY <2>2, <3>1, <3>3
        <3> QED
            BY <3>2, <3>3
    <2>5. \A p \in Path : p[1] # d /\ p[1] # e => moved[p] = staged[p]
        BY DEF Within
    <2>6. moved \in [Path -> Maybe \union {Removed}]
        <3>1. \A p \in Path : moved[p] \in Maybe \union {Removed}
            BY <1>3, <2>3, <2>4, <2>5, <1>t DEF FuseTypeOK, Within, Maybe
        <3> QED
            BY <3>1
    <2> HIDE DEF moved, told
    <2>7. /\ files' = [p \in Path |-> IF moved[p] = Nothing THEN files[p]
                                      ELSE IF moved[p] = Removed THEN Nothing ELSE moved[p]]
          /\ files' \in [Path -> Maybe] /\ staged' = Nowhere /\ ~intrans' /\ intrans' \in BOOLEAN
        BY <2>1, <2>6, CommitOf
    <2>8. \A p \in Path : ~InFlight(p) => files'[p] = want'[p]
        <3> SUFFICES ASSUME NEW p \in Path, ~InFlight(p) PROVE files'[p] = told[p]
            BY <2>1
        <3>1. CASE p[1] = d
            BY <3>1, <1>3, <2>3, <2>7, Contents
        <3>2. CASE p[1] = e
            <4>1. Twin(p, d, e) \in Path /\ want[Twin(p, d, e)] \in Maybe /\ files[p] = Nothing
                BY <3>2, <1>2, <1>3, <1>t DEF Within, FuseTypeOK
            <4> QED
                BY <3>2, <4>1, <1>3, <2>4, <2>7, Contents DEF Maybe
        <3>3. CASE p[1] # d /\ p[1] # e
            <4>1. staged[p] = Nothing /\ files[p] = want[p]
                BY <1>t, Shows DEF ShownAsWritten
            <4> QED
                BY <3>3, <4>1, <1>3, <2>5, <2>7
        <3> QED
            BY <3>1, <3>2, <3>3
    <2>9. \A p \in Path : InFlight(p) => want'[p] = want[p]
        BY <1>1, <1>3, <2>1 DEF Within
    <2>10. want' \in [Path -> Maybe]
        <3>1. \A p \in Path : told[p] \in Maybe
            BY <1>3, <1>t DEF FuseTypeOK, Within, Maybe
        <3> QED
            BY <3>1, <2>1 DEF told
    <2>11. FuseTypeOK' /\ StagedWaits'
        <3>1. staged' \in [Path -> Maybe \union {Removed}] /\ saved' \subseteq Path
            BY <1>1, <2>7, <1>t DEF FuseTypeOK, Maybe, Nowhere
        <3> QED
            BY <1>1, <1>4, <2>1, <2>7, <2>10, <3>1, <1>t, Contents DEF FuseTypeOK, StagedWaits, Nowhere
    <2>12. ShownAsWritten' /\ UnboundWait'
        BY <1>1, <1>4, <2>8, <2>9, <1>t DEF ShownAsWritten, UnboundWait, InFlight
    <2>13. CleanBuffers' /\ SavedAreClean'
        <3>1. \A p \in Path : p \notin dirty /\ p[1] # d /\ p[1] # e => files'[p] = files[p]
            BY <2>5, <2>7, <1>t DEF StagedWaits
        <3>2. CleanBuffers'
            BY <1>1, <3>1, <1>t DEF CleanBuffers, InFlight, Within
        <3>3. SavedAreClean'
            BY <1>1, <1>3, <2>1, <3>1, <1>t DEF SavedAreClean, Within, FuseTypeOK
        <3> QED
            BY <3>2, <3>3
    <2> QED
        BY <1>4, <2>11, <2>12, <2>13 DEF FuseInv
<1> QED
    BY <1>5, <1>6

(***************************************************************************)
(* The invariant, and what follows from it.                                *)
(***************************************************************************)
LEMMA FuseStarts == ASSUME Init PROVE FuseInv
<1>1. PICK p \in Path, bytes \in [1..1 -> Data] : files \in {Nowhere, [Nowhere EXCEPT ![p] = bytes]}
    BY DEF Init
<1>2. files \in [Path -> Maybe]
    BY <1>1, Contents DEF Nowhere, Maybe
<1> QED
    BY <1>2, Contents
    DEF Init, Nowhere, Closed, Maybe, FuseInv, FuseTypeOK, StagedWaits, ShownAsWritten, CleanBuffers, UnboundWait, BoundAreThere, SavedAreClean, InFlight, Bound

LEMMA FuseSteps == ASSUME OnlyRefusals, FuseInv, [Next]_vars PROVE FuseInv'
<1>1. ASSUME NEW h \in Handle, NEW p \in Path,
             Creates(h, p) \/ OpensToRead(h, p) \/ OpensToWrite(h, p) \/ OpensTruncating(h, p)
      PROVE  FuseInv'
    BY <1>1, CreatesKeeps, OpensToReadKeeps, OpensToWriteKeeps, OpensTruncatingKeeps
<1>2. ASSUME NEW h \in Handle, (\E bytes \in Data : Writes(h, bytes)) \/ Flushes(h) \/ Releases(h) PROVE FuseInv'
    BY <1>2, WritesKeeps, FlushesKeeps, ReleasesKeeps
<1>3. ASSUME NEW p \in Path, Truncates(p) \/ Unlinks(p) \/ \E q \in Path : Renames(p, q) PROVE FuseInv'
    BY <1>3, TruncatesKeeps, UnlinksKeeps, RenamesInFlightKeeps, RenamesCommittedKeeps DEF Renames
<1>4. ASSUME NEW d \in Folder, Mkdir(d) \/ Rmdir(d) \/ \E e \in Folder : RenamesDir(d, e) PROVE FuseInv'
    BY <1>4, MkdirKeeps, RmdirKeeps, RenamesDirKeeps
<1>5. CASE UNCHANGED vars
    BY <1>5
    DEF vars, FuseInv, FuseTypeOK, StagedWaits, ShownAsWritten, CleanBuffers, UnboundWait, BoundAreThere, SavedAreClean, InFlight, Bound
<1> QED
    BY <1>1, <1>2, <1>3, <1>4, <1>5 DEF Next

LEMMA FuseInvHolds == ASSUME OnlyRefusals PROVE Spec => []FuseInv
<1>1. Init => FuseInv
    BY FuseStarts
<1>2. FuseInv /\ [Next]_vars => FuseInv'
    BY FuseSteps
<1> QED
    BY <1>1, <1>2, PTL DEF Spec

\* The mount's tables, the manifest and the handles hold what they are for, and
\* a mark of unsaved bytes always has its buffer (_commit, fuse.py 281-327).
THEOREM FuseTyping == ASSUME OnlyRefusals PROVE Spec => []FuseTypeOK
<1>1. FuseInv => FuseTypeOK
    BY DEF FuseInv
<1> QED
    BY <1>1, FuseInvHolds, PTL

\* Whatever commits are refused, the mount shows under every name what was last
\* written, and lists exactly the names that have something (fuse.py 355-385).
THEOREM MountShows == ASSUME OnlyRefusals PROVE Spec => []SeenAsWanted
<1>1. ASSUME FuseInv PROVE SeenAsWanted
    <2>1. \A p \in Path : Seen(p) = want[p] /\ (FsSees(p) # Nothing \/ InFlight(p) <=> want[p] # Nothing)
        BY <1>1, Shows
    <2>2. \A d : {q \in Within(d) : FsSees(q) # Nothing \/ InFlight(q)} = {q \in Within(d) : want[q] # Nothing}
        BY <2>1 DEF Within
    <2> QED
        BY <2>1, <2>2 DEF SeenAsWanted, Listed
<1> QED
    BY <1>1, FuseInvHolds, PTL

\* A close that succeeded left the file committed, and it stays so until it is
\* touched, whatever is refused later (fuse.py 461-466).
THEOREM SavedStays == ASSUME OnlyRefusals PROVE Spec => []SavedMeansCommitted
<1>1. FuseInv => SavedMeansCommitted
    BY DEF FuseInv, SavedAreClean, SavedMeansCommitted
<1> QED
    BY <1>1, FuseInvHolds, PTL

\* A closed file is committed, or its buffer is what was written and waits for
\* a retry (fuse.py 336-340 and 629).
THEOREM ClosedSaved == ASSUME OnlyRefusals PROVE Spec => []ClosedIsCommitted
<1>1. ASSUME FuseInv PROVE ClosedIsCommitted
    <2> SUFFICES ASSUME NEW p \in Path, ~IsOpen(p)
                 PROVE  files[p] = want[p] \/ (p \in dirty /\ pending[p] = want[p])
        BY DEF ClosedIsCommitted
    <2>1. Bound(p) = {}
        BY <1>1 DEF FuseInv, BoundAreThere, IsOpen, Bound
    <2> QED
        BY <1>1, <2>1 DEF FuseInv, ShownAsWritten, UnboundWait, InFlight
<1> QED
    BY <1>1, FuseInvHolds, PTL

===============================================================================
