-------------------------------- MODULE Chunks --------------------------------
(***************************************************************************)
(* splitter.py and join.py: content as a tree of chunks, and the verifying *)
(* reader that takes any range out of one; the sizes stamps.py computes of *)
(* such trees.  A reference is the hash of a chunk: it names one chunk,    *)
(* and here it says where the chunk was made.                              *)
(*                                                                         *)
(* A node that adds parity makes a tree of the same kind with fewer data   *)
(* references per chunk and parity references behind them.  Trees are      *)
(* uploaded under the batches of Stamps.                                   *)
(***************************************************************************)
EXTENDS Stamps, SequencesExt

CONSTANTS
    PayloadSize,    \* CHUNK_PAYLOAD_SIZE: bytes in a leaf
    Branches,       \* BRANCHES: references in an intermediate chunk
    SpanBase,       \* the value of the top byte of a span, 2^56
    Tables,         \* _ET: for every level the shards at which a number of parities begins
    Replicas,       \* _REPLICA_COUNTS of every level
    MaxSize,        \* bound: bytes of content
    MaxAddresses    \* bound: addresses a depth is computed for

ASSUME ChunkAssumption ==
    /\ PayloadSize \in Nat \ {0} /\ MaxSize \in Nat /\ MaxAddresses \in Nat
    /\ SpanBase \in Nat /\ SpanBase > MaxSize
    /\ DOMAIN Tables \subseteq Nat \ {0} /\ DOMAIN Replicas = DOMAIN Tables \union {0} /\ \A level \in DOMAIN Replicas : Replicas[level] \in Nat

(***************************************************************************)
(* The shape of a group, and how many chunks are stamped.                  *)
(***************************************************************************)
Levels == DOMAIN Replicas

Parities(level, shards) ==
    LET rows == {n \in DOMAIN Tables[level] : shards >= Tables[level][n].shards}
    IN  IF rows = {} THEN 0 ELSE Tables[level][Min(rows)].parities

GroupShape(level) ==
    LET parity == IF level = 0 THEN 0 ELSE Parities(level, Branches)
    IN  [data |-> Branches - parity, parity |-> parity]

\* The tables leave at least two data references: 39 of 128 in the last one.
ASSUME ShapeAssumption == \A level \in Levels : GroupShape(level) \in [data : Nat \ {0, 1}, parity : Nat]

\* stamped_chunks below the root: the chunks of one level of the tree, and of those above.
StampedBelow(shape) ==
    LET Above[count \in 0..MaxSize] ==
            IF count <= 1 THEN 0
            ELSE LET groups == CeilDiv(count, shape.data)
                 IN  count + groups * shape.parity + Above[groups]
    IN  Above

StampedChunks(leaves, level) ==
    IF leaves = 0 THEN 0 ELSE StampedBelow(GroupShape(level))[leaves] + 1 + Replicas[level]

(***************************************************************************)
(* split.  An entry of a row has the reference of a chunk and the length   *)
(* of the content beneath it.                                              *)
(***************************************************************************)
Ref(row, at, parity) == [row |-> row, at |-> at, parity |-> parity]

Entries == [ref : [row : Nat, at : Nat, parity : Nat], length : Nat]

Entry(row, at, length) == [ref |-> Ref(row, at, 0), length |-> length]

Group(items, n, width) == SubSeq(items, (n - 1) * width + 1, Min({n * width, Len(items)}))

Leaf(bytes) == [mark |-> 0, length |-> Len(bytes), payload |-> bytes, refs |-> <<>>]

\* The leaves, in row 1; of no content there is one.
Leaves(bytes) == <<>> \o
    [n \in 1..Max({1, CeilDiv(Len(bytes), PayloadSize)}) |-> Entry(1, n, Len(Group(bytes, n, PayloadSize)))]

Total(group) ==
    LET Sum[n \in 0..Len(group)] == IF n = 0 THEN 0 ELSE Sum[n - 1] + group[n].length
    IN  Sum[Len(group)]

\* A group of one is promoted, never wrapped.
Parent(group, row, n) == IF Len(group) = 1 THEN group[1] ELSE Entry(row, n, Total(group))

Parents(below, row, width) == <<>> \o
    [n \in 1..CeilDiv(Len(below), width) |-> Parent(Group(below, n, width), row, n)]

\* The rows, from the leaves up to one that has a single entry.
Rows(bytes, width) ==
    LET Grown[rows \in Seq(Seq(Entries)) \ {<<>>}] ==
            LET top == Last(rows)
            IN  IF Len(top) <= 1 THEN rows ELSE Grown[Append(rows, Parents(top, Len(rows) + 1, width))]
    IN  Grown[<<Leaves(bytes)>>]

\* A node marks the top byte of the span with the level, and adds parity.
Intermediate(group, ref, level) ==
    [mark |-> IF level = 0 THEN 0 ELSE 128 + level,
     length |-> Total(group),
     payload |-> <<>>,
     refs |-> [n \in 1..Len(group) |-> group[n].ref] \o
              [n \in 1..GroupShape(level).parity |-> [ref EXCEPT !.parity = n]]]

ParityChunk == Leaf(<<0>>)

Chunk(bytes, level, rows, ref) ==
    CASE ref.parity > 0 -> ParityChunk
      [] ref.parity = 0 /\ ref.row = 1 -> Leaf(Group(bytes, ref.at, PayloadSize))
      [] OTHER -> Intermediate(Group(rows[ref.row - 1], ref.at, GroupShape(level).data), ref, level)

\* The references of the chunks that a row has made, and not promoted.
Made(rows, row) == {ref \in {rows[row][n].ref : n \in DOMAIN rows[row]} : ref.row = row}

\* The tree as the address of its root and the chunks by their address.
Split(bytes, level) ==
    LET shape == GroupShape(level)
        rows == Rows(bytes, shape.data)
        data == UNION {Made(rows, row) : row \in DOMAIN rows}
        parity == {[ref EXCEPT !.parity = n] : ref \in {r \in data : r.row > 1}, n \in 1..shape.parity}
    IN  [root |-> Last(rows)[1].ref,
         chunks |-> [ref \in data \union parity |-> Chunk(bytes, level, rows, ref)]]

\* What a node stamps: every chunk, parity too.
Uploads(tree) == Cardinality(DOMAIN tree.chunks)

(***************************************************************************)
(* VerifyingReader.  A read that raises leaves Raised in its bytes; bad is *)
(* the reference that the endpoint answers with another chunk, whose hash  *)
(* gives it away.                                                          *)
(***************************************************************************)
Raised == <<-1>>
Honest == Ref(0, 0, 0)  \* no chunk of any tree: nothing is answered with another

DecodeSpan(chunk) == IF chunk.mark > 128 THEN chunk.length ELSE chunk.mark * SpanBase + chunk.length

\* Mutant of Unit: of a full tree, whatever the fanout.
UnitOfFullTree(chunks, chunk) ==
    LET Grown[u \in 1..MaxSize] == IF u * Branches >= DecodeSpan(chunk) THEN u ELSE Grown[u * Branches]
    IN  Grown[PayloadSize]

\* What a child spans: what the first one does.
Unit(chunks, chunk) == DecodeSpan(chunks[chunk.refs[1]])

\* What makes a reader give up a chunk: no usable unit, too few references.
Malformed(chunks, chunk) ==
    \/ chunk.refs = <<>>
    \/ ~(Unit(chunks, chunk) > 0 /\ Unit(chunks, chunk) < DecodeSpan(chunk))
    \/ Len(chunk.refs) < CeilDiv(DecodeSpan(chunk), Unit(chunks, chunk))

\* What is asked of a subtree: it has as much.
Requests(chunks) == {r \in [ref : DOMAIN chunks, start : Nat, end : Nat] : r.end <= DecodeSpan(chunks[r.ref])}

\* Where the i-th child of a chunk begins, and where it ends.
Low(chunks, chunk, i) == i * Unit(chunks, chunk)
High(chunks, chunk, i) == Min({Low(chunks, chunk, i) + Unit(chunks, chunk), DecodeSpan(chunk)})

\* What a request finds in it: it is of the length that its place gives it.
ReadChild(chunks, bad, Read, r, i) ==
    LET child == chunks[r.ref].refs[i + 1]
        low == Low(chunks, chunks[r.ref], i)
        high == High(chunks, chunks[r.ref], i)
    IN  IF child = bad \/ DecodeSpan(chunks[child]) # high - low THEN Raised
        ELSE Read[[ref |-> child, start |-> Max({r.start, low}) - low, end |-> Min({r.end, high}) - low]]

\* _read of a subtree from start up to end, with Read for those below it.
ReadStep(chunks, bad, Read, r) ==
    LET chunk == chunks[r.ref]
        size == DecodeSpan(chunk)
        unit == Unit(chunks, chunk)
        first == r.start \div unit
        last == Min({CeilDiv(r.end, unit), CeilDiv(size, unit)}) - 1
    IN  CASE size <= PayloadSize -> SubSeq(chunk.payload, r.start + 1, r.end)
          [] size > PayloadSize /\ (Malformed(chunks, chunk) \/ chunk.refs[1] = bad) -> Raised
          [] OTHER -> FlattenSeq([n \in 1..(last - first + 1) |-> ReadChild(chunks, bad, Read, r, first + n - 1)])

ReadTree(chunks, bad) ==
    LET Read[r \in Requests(chunks)] == ReadStep(chunks, bad, Read, r)
    IN  Read

BytesGet(tree, start, end, bad) ==
    LET size == DecodeSpan(tree.chunks[tree.root])
        s == Min({start, size})
        e == Min({end, size})
    IN  IF tree.root = bad THEN Raised ELSE IF e <= s THEN <<>>
        ELSE ReadTree(tree.chunks, bad)[[ref |-> tree.root, start |-> s, end |-> e]]

\* _iter_tree of a subtree, leaf by leaf.
IterStep(chunks, bad, Iter, ref) ==
    LET chunk == chunks[ref]
        size == DecodeSpan(chunk)
    IN  CASE ref = bad -> Raised
          [] ref # bad /\ size <= PayloadSize -> SubSeq(chunk.payload, 1, size)
          [] ref # bad /\ size > PayloadSize /\ (Malformed(chunks, chunk) \/ chunk.refs[1] = bad) -> Raised
          [] OTHER -> FlattenSeq([n \in 1..CeilDiv(size, Unit(chunks, chunk)) |-> Iter[chunk.refs[n]]])

\* bytes_iter: all of it.
IterTree(tree, bad) ==
    LET Iter[ref \in DOMAIN tree.chunks] == IterStep(tree.chunks, bad, Iter, ref)
    IN  Iter[tree.root]

(***************************************************************************)
(* What the trees of all contents up to MaxSize have in common.            *)
(***************************************************************************)
Failed(bytes) == \E n \in DOMAIN bytes : bytes[n] = -1

\* Whatever range is read out of whatever tree, with or without parity, the
\* bytes are those of the content; an endpoint that answers with another chunk
\* makes a read that needs it fail, and never changes a byte (join.py 4-7).
EveryRangeMatches ==
    \A size \in 0..MaxSize, level \in Levels :
        LET bytes == [n \in 1..size |-> n]
            tree == Split(bytes, level)
        IN  /\ IterTree(tree, Honest) = bytes
            /\ \A start \in 0..size, end \in 0..(size + 1) :
                  BytesGet(tree, start, end, Honest) = SubSeq(bytes, start + 1, Min({end, size}))
            /\ \A bad \in DOMAIN tree.chunks : \A got \in {IterTree(tree, bad), BytesGet(tree, 0, size, bad)} :
                  got = bytes \/ Failed(got)

\* Nothing is stamped that the estimate did not count (stamps.py 125-132).
EveryChunkCounted ==
    \A size \in 1..MaxSize, level \in Levels :
        Uploads(Split([n \in 1..size |-> n], level)) + Replicas[level]
            <= StampedChunks(CeilDiv(size, PayloadSize), level)

(***************************************************************************)
(* Properties of uploads: of what a batch is bought for, and what was put  *)
(* under one.                                                              *)
(***************************************************************************)
\* Addresses in two buckets: the depth computed for them, and their fullest bucket.
Sizings ==
    {<<DepthForAddresses(addresses), Max({0} \union {Cardinality({n \in DOMAIN addresses : addresses[n] = k}) : k \in 1..2})>> :
        addresses \in UNION {[1..size -> 1..2] : size \in 0..MaxAddresses}}

\* A batch is as deep as addresses that are known need exactly when its buckets
\* hold them; and nothing of an upload is stamped that the estimate did not
\* count (stamps.py 125-132 and 234-236).
SizesExact ==
    \A b \in Batch : Known(b) =>
        /\ EveryChunkCounted
        /\ \A sizing \in Sizings : sizing[1] <= batch[b].depth <=> sizing[2] <= 2^(batch[b].depth - BucketDepth)

\* What was uploaded is read back: any range of any content, through a reader
\* that knows neither its level nor its fanout, and from an endpoint that may
\* answer with another chunk (join.py 4-7 and 89-97).
RangesRead == upload.batch # NoBatch => EveryRangeMatches
===============================================================================
