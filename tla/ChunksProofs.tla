----------------------------- MODULE ChunksProofs -----------------------------
(***************************************************************************)
(* Content of any size, in chunks of any size and groups of any width: the *)
(* tree that split makes of it is read back, whatever range is asked for   *)
(* and whatever chunk an endpoint answers falsely; it has no more chunks   *)
(* than stamps.py counts; and a batch is deep enough for addresses that    *)
(* are known exactly when depth_for_addresses says so.                     *)
(***************************************************************************)
EXTENDS Chunks, StampsProofs, Recursion, SequenceTheorems

(***************************************************************************)
(* Arithmetic.                                                             *)
(***************************************************************************)
LEMMA MinOfTwo ==
    ASSUME NEW a \in Int, NEW b \in Int
    PROVE  Min({a, b}) = IF a <= b THEN a ELSE b
<1>1. \E x \in {a, b} : \A y \in {a, b} : x <= y
    OBVIOUS
<1>2. Min({a, b}) \in {a, b} /\ \A y \in {a, b} : Min({a, b}) <= y
    BY <1>1 DEF Min
<1> QED
    BY <1>2

LEMMA LargerOfTwo ==
    ASSUME NEW a \in Int, NEW b \in Int
    PROVE  Max({a, b}) = IF a <= b THEN b ELSE a
BY MaxOfTwo

\* A slice within a sequence of bytes.
LEMMA SliceOf ==
    ASSUME NEW s \in Seq(Int), NEW m \in Int, NEW n \in Int, m >= 1, n <= Len(s)
    PROVE  /\ SubSeq(s, m, n) \in Seq(Int)
           /\ m <= n + 1 => /\ Len(SubSeq(s, m, n)) = n - m + 1
                            /\ \A i \in 1..(n - m + 1) : SubSeq(s, m, n)[i] = s[m + i - 1]
<1>1. \A i \in m..n : s[i] \in Int
    OBVIOUS
<1>2. SubSeq(s, m, n) \in Seq(Int)
    BY <1>1, SubSeqProperties
<1>3. Len(SubSeq(s, m, n)) = IF m <= n THEN n - m + 1 ELSE 0
    BY <1>1, SubSeqProperties
<1>4. \A i \in 1..(n - m + 1) : SubSeq(s, m, n)[i] = s[m + i - 1]
    BY <1>1, SubSeqProperties
<1>5. m <= n + 1 => Len(SubSeq(s, m, n)) = n - m + 1
    BY <1>3
<1> QED
    BY <1>2, <1>4, <1>5

\* How many groups of n there are in m.
LEMMA Ceiling ==
    ASSUME NEW m \in Nat, NEW n \in Nat \ {0}
    PROVE  /\ CeilDiv(m, n) \in Nat
           /\ \A i \in Int : i < CeilDiv(m, n) <=> i * n < m
<1> DEFINE q == (m + n - 1) \div n
<1>1. m + n - 1 \in Nat
    OBVIOUS
<1> HIDE DEF q
<1>2. q \in Nat /\ \A i \in Int : i <= q <=> i * n <= m + n - 1
    <2> DEFINE x == m + n - 1
    <2>1. x \in Nat
        BY <1>1
    <2> HIDE DEF x
    <2>2. x \div n \in Nat /\ \A i \in Int : i <= x \div n <=> i * n <= x
        BY <2>1, Quotients
    <2> QED
        BY <2>2 DEF q, x
<1>3. ASSUME NEW i \in Int PROVE i < q <=> i * n < m
    <2> DEFINE p == i * n
    <2>1. (i + 1) * n = p + n /\ p \in Int
        OBVIOUS
    <2>2. \A j \in Int : j <= q <=> j * n <= m + n - 1
        BY <1>2
    <2>3. q \in Nat
        BY <1>2
    <2> HIDE DEF p
    <2>4. i + 1 <= q <=> p + n <= m + n - 1
        <3> DEFINE j == i + 1
        <3>1. j \in Int /\ j * n = p + n
            BY <2>1
        <3> HIDE DEF j
        <3>2. j <= q <=> j * n <= m + n - 1
            BY <2>2, <3>1
        <3> QED
            BY <3>1, <3>2 DEF j
    <2>5. i < q <=> p < m
        BY <2>1, <2>3, <2>4
    <2> QED
        BY <2>5 DEF p
<1> QED
    BY <1>2, <1>3 DEF CeilDiv, q

\* There are fewer groups of two or more than things.
LEMMA CeilingShrinks ==
    ASSUME NEW m \in Nat, NEW n \in Nat \ {0}, m > 1, n > 1
    PROVE  CeilDiv(m, n) \in Nat /\ CeilDiv(m, n) < m /\ CeilDiv(m, n) >= 1
<1>1. CeilDiv(m, n) \in Nat /\ \A i \in Int : i < CeilDiv(m, n) <=> i * n < m
    BY Ceiling
<1>2. 0 < CeilDiv(m, n)
    BY <1>1
<1>3. ~((m - 1) * n < m)
    <2>1. (m - 1) * n >= (m - 1) * 2
        <3> DEFINE k == m - 1
        <3>1. k \in Nat
            OBVIOUS
        <3> HIDE DEF k
        <3>2. k * n = k * 2 + k * (n - 2) /\ k * (n - 2) \in Nat
            BY <3>1
        <3> QED
            BY <3>2, <3>1 DEF k
    <2> QED
        BY <2>1
<1> QED
    BY <1>1, <1>2, <1>3

\* A thing by itself is a group.
LEMMA CeilingOfOne ==
    ASSUME NEW n \in Nat \ {0}
    PROVE  CeilDiv(1, n) = 1
<1>1. CeilDiv(1, n) \in Nat /\ (0 < CeilDiv(1, n) <=> 0 * n < 1) /\ (1 < CeilDiv(1, n) <=> 1 * n < 1)
    BY Ceiling
<1> QED
    BY <1>1

(***************************************************************************)
(* Sequences: what FlattenSeq and Total compute.                           *)
(***************************************************************************)
\* FlattenSeq puts one piece after the other.
LEMMA Flattened ==
    ASSUME NEW S, NEW seqs \in Seq(Seq(S)), Len(seqs) > 0
    PROVE  \E f \in [1..Len(seqs) -> Seq(S)] :
               /\ FlattenSeq(seqs) = f[Len(seqs)] /\ f[1] = seqs[1]
               /\ \A n \in 1..Len(seqs) : n > 1 => f[n] = f[n - 1] \o seqs[n]
<1> DEFINE m == Len(seqs)
           D == 1..m
           Step(g, n) == IF n = 1 THEN seqs[n] ELSE g[n - 1] \o seqs[n]
           H == [g \in [D -> Seq(S)] |-> [n \in D |-> Step(g, n)]]
           size == [n \in D |-> n]
           flatten == CHOOSE f : f = [n \in D |-> Step(f, n)]
<1>0. m \in Nat /\ m > 0 /\ \A n \in D : seqs[n] \in Seq(S)
    OBVIOUS
<1> HIDE DEF m
<1>1. ASSUME NEW g \in [D -> Seq(S)], NEW n \in D PROVE Step(g, n) \in Seq(S)
    <2>1. n # 1 => n - 1 \in D
        BY <1>0
    <2> HIDE DEF D
    <2>2. n # 1 => g[n - 1] \in Seq(S)
        BY <2>1
    <2> QED
        BY <1>0, <2>2
<1>2. H \in [[D -> Seq(S)] -> [D -> Seq(S)]]
    <2> HIDE DEF Step, D
    <2> QED
        BY <1>1
<1>3. ASSUME NEW g \in [D -> Seq(S)], NEW h \in [D -> Seq(S)], NEW n \in D,
             \A k \in D : size[k] < size[n] => g[k] = h[k]
      PROVE  H[g][n] = H[h][n]
    <2>1. n # 1 => n - 1 \in D /\ size[n - 1] < size[n]
        BY <1>0
    <2> HIDE DEF D, size
    <2>2. n # 1 => g[n - 1] = h[n - 1]
        BY <1>3, <2>1
    <2> QED
        BY <2>2
<1>4. \E f \in [D -> Seq(S)] : f = H[f]
    <2>1. <<>> \in Seq(S) /\ size \in [D -> Nat]
        BY <1>0
    <2> HIDE DEF D, H, size
    <2>2. Descends(H, D, Seq(S), size)
        BY <1>2, <1>3, <2>1 DEF Descends
    <2> QED
        BY <2>2, RecursionDefines
<1>5. PICK f \in [D -> Seq(S)] : f = [n \in D |-> Step(f, n)]
    BY <1>4
<1>6. flatten = [n \in D |-> Step(flatten, n)]
    <2> HIDE DEF Step, D
    <2> QED
        BY <1>5
<1>7. FlattenSeq(seqs) = flatten[m]
    BY DEF FlattenSeq, m
<1> HIDE DEF flatten
<1>8. ASSUME NEW n \in D PROVE flatten[n] = IF n = 1 THEN seqs[n] ELSE flatten[n - 1] \o seqs[n]
    <2>1. flatten[n] = Step(flatten, n)
        <3> HIDE DEF Step, D
        <3> QED
            BY <1>6
    <2> QED
        BY <2>1
<1> DEFINE Good == {n \in Nat : n \in D => flatten[n] \in Seq(S)}
<1>9. Good = Nat
    <2>1. 0 \in Good
        BY <1>0
    <2>2. ASSUME NEW n \in Good PROVE n + 1 \in Good
        <3>1. ASSUME n + 1 \in D PROVE flatten[n + 1] \in Seq(S)
            <4>1. flatten[n + 1] = IF n + 1 = 1 THEN seqs[n + 1] ELSE flatten[(n + 1) - 1] \o seqs[n + 1]
                BY <1>8, <3>1
            <4>2. n + 1 = 1 \/ (n \in D /\ (n + 1) - 1 = n /\ n + 1 # 1)
                <5>1. n \in Nat /\ m \in Nat
                    BY <1>0
                <5> HIDE DEF Good
                <5> QED
                    BY <3>1, <5>1
            <4>3. n \in D => flatten[n] \in Seq(S)
                OBVIOUS
            <4>4. seqs[n + 1] \in Seq(S)
                BY <1>0, <3>1
            <4> HIDE DEF D
            <4>5. CASE n + 1 = 1
                BY <4>1, <4>4, <4>5
            <4>6. CASE n \in D /\ (n + 1) - 1 = n /\ n + 1 # 1
                BY <4>1, <4>3, <4>4, <4>6
            <4> QED
                BY <4>2, <4>5, <4>6
        <3> QED
            BY <3>1
    <2>3. Good \in SUBSET Nat
        OBVIOUS
    <2> HIDE DEF Good
    <2> QED
        BY <2>1, <2>2, <2>3, SetInduction
<1>10. flatten \in [D -> Seq(S)]
    <2>1. DOMAIN flatten = D /\ flatten = [n \in D |-> flatten[n]]
        BY <1>6
    <2>2. ASSUME NEW n \in D PROVE flatten[n] \in Seq(S)
        <3>1. n \in Nat
            BY <1>0
        <3>2. n \in Good
            BY <1>9, <3>1
        <3> QED
            BY <3>2
    <2> QED
        BY <2>1, <2>2
<1>11. flatten[1] = seqs[1] /\ \A n \in D : n > 1 => flatten[n] = flatten[n - 1] \o seqs[n]
    <2>1. 1 \in D
        BY <1>0
    <2>2. flatten[1] = seqs[1]
        BY <1>8, <2>1
    <2>3. ASSUME NEW n \in D, n > 1 PROVE flatten[n] = flatten[n - 1] \o seqs[n]
        <3>1. n # 1
            BY <1>0, <2>3
        <3> QED
            BY <1>8, <3>1
    <2> QED
        BY <2>2, <2>3
<1> QED
    BY <1>7, <1>10, <1>11 DEF m

LEMMA FailedOnce ==
    ASSUME NEW s \in Seq(Int), NEW t \in Seq(Int), Failed(s) \/ Failed(t)
    PROVE  Failed(s \o t)
<1>1. CASE Failed(s)
    <2>1. PICK n \in 1..Len(s) : s[n] = -1
        BY <1>1 DEF Failed
    <2>2. n \in 1..Len(s \o t) /\ (s \o t)[n] = -1 /\ DOMAIN (s \o t) = 1..Len(s \o t)
        BY <2>1
    <2> QED
        BY <2>2 DEF Failed
<1>2. CASE Failed(t)
    <2>1. PICK n \in 1..Len(t) : t[n] = -1
        BY <1>2 DEF Failed
    <2>2. Len(s) + n \in 1..Len(s \o t) /\ (s \o t)[Len(s) + n] = -1 /\ DOMAIN (s \o t) = 1..Len(s \o t)
        BY <2>1
    <2> QED
        BY <2>2 DEF Failed
<1> QED
    BY <1>1, <1>2

\* Pieces that lie side by side make the whole; one that failed spoils it.
LEMMA Slices ==
    ASSUME NEW bytes \in Seq(Int), NEW seqs \in Seq(Seq(Int)), NEW cut \in [0..Len(seqs) -> 0..Len(bytes)],
           \A n \in 1..Len(seqs) : cut[n - 1] <= cut[n], NEW may \in BOOLEAN,
           \A n \in 1..Len(seqs) : seqs[n] = SubSeq(bytes, cut[n - 1] + 1, cut[n]) \/ (may /\ Failed(seqs[n]))
    PROVE  /\ FlattenSeq(seqs) \in Seq(Int)
           /\ FlattenSeq(seqs) = SubSeq(bytes, cut[0] + 1, cut[Len(seqs)]) \/ (may /\ Failed(FlattenSeq(seqs)))
<1> DEFINE m == Len(seqs)
           Slice(n) == SubSeq(bytes, cut[0] + 1, cut[n])
           Piece(n) == SubSeq(bytes, cut[n - 1] + 1, cut[n])
           Broken(n) == may /\ Failed(seqs[n])
           Whole == /\ FlattenSeq(seqs) \in Seq(Int)
                    /\ FlattenSeq(seqs) = Slice(m) \/ (may /\ Failed(FlattenSeq(seqs)))
<1>1. m \in Nat /\ Len(bytes) \in Nat /\ \A n \in 0..m : cut[n] \in 0..Len(bytes)
    <2>1. Len(seqs) \in Nat /\ Len(bytes) \in Nat
        OBVIOUS
    <2> QED
        BY <2>1
<1>2. \A n \in 1..m : seqs[n] \in Seq(Int) /\ (seqs[n] = Piece(n) \/ Broken(n)) /\ cut[n - 1] <= cut[n]
    <2>1. ASSUME NEW n \in 1..Len(seqs) PROVE seqs[n] \in Seq(Int)
        OBVIOUS
    <2> QED
        BY <2>1
<1>3. m > 0 => \E f \in [1..m -> Seq(Int)] :
          /\ FlattenSeq(seqs) = f[m] /\ f[1] = seqs[1]
          /\ \A n \in 1..m : n > 1 => f[n] = f[n - 1] \o seqs[n]
    BY Flattened
<1>4. m = 0 => seqs = <<>> /\ FlattenSeq(seqs) = seqs
    BY DEF FlattenSeq
<1> HIDE DEF m
<1>5. ASSUME m = 0 PROVE Whole
    <2>1. seqs = <<>> /\ FlattenSeq(seqs) = seqs
        BY <1>5, <1>4
    <2>2. cut[m] \in Int /\ cut[0] + 1 \in Int /\ cut[m] < cut[0] + 1
        BY <1>1, <1>5
    <2>3. Slice(m) = <<>>
        BY <2>2, SubSeqEmpty
    <2>4. <<>> \in Seq(Int)
        OBVIOUS
    <2> HIDE DEF Broken
    <2> QED
        BY <2>1, <2>3, <2>4
<1>6. ASSUME m > 0 PROVE Whole
    <2>0. m \in Nat /\ 1 \in 1..m /\ m \in 1..m
        BY <1>1, <1>6
    <2>1. PICK f \in [1..m -> Seq(Int)] :
              /\ FlattenSeq(seqs) = f[m] /\ f[1] = seqs[1]
              /\ \A n \in 1..m : n > 1 => f[n] = f[n - 1] \o seqs[n]
        BY <1>6, <1>3
    <2>2. /\ FlattenSeq(seqs) = f[m] /\ f[1] = seqs[1] /\ \A n \in 1..m : f[n] \in Seq(Int)
          /\ \A n \in 1..m : n > 1 => f[n] = f[n - 1] \o seqs[n]
        BY <2>0, <2>1
    <2> DEFINE Right(n) == cut[0] <= cut[n] /\ (f[n] = Slice(n) \/ (may /\ Failed(f[n])))
               Good == {n \in Nat : n + 1 \in 1..m => Right(n + 1)}
    <2>3. 0 \in Good
        <3>1. 0 + 1 = 1 /\ 1 - 1 = 0
            OBVIOUS
        <3>2. Right(1)
            <4>1. seqs[1] = Piece(1) \/ Broken(1)
                BY <1>2, <2>0
            <4>2. Piece(1) = Slice(1) /\ cut[1 - 1] = cut[0] /\ cut[1 - 1] <= cut[1]
                BY <1>2, <2>0, <3>1
            <4> HIDE DEF Piece, Slice
            <4> QED
                BY <2>2, <4>1, <4>2
        <3> HIDE DEF Right
        <3> QED
            BY <3>1, <3>2
    <2>4. ASSUME NEW n \in Good PROVE n + 1 \in Good
        <3>0. n \in Nat /\ (n + 1 \in 1..m => Right(n + 1))
            <4> HIDE DEF Right
            <4> QED
                OBVIOUS
        <3>1. ASSUME NEW k \in Nat, k = n + 1, k + 1 \in 1..m PROVE Right(k + 1)
            <4>1. k \in 1..m /\ k + 1 > 1 /\ (k + 1) - 1 = k /\ k \in 0..m /\ k + 1 \in 0..m /\ 0 \in 0..m
                BY <1>1, <3>1
            <4>2. Right(k)
                <5> HIDE DEF Right
                <5> QED
                    BY <3>0, <3>1, <4>1
            <4>3. f[k + 1] = f[k] \o seqs[k + 1] /\ f[k] \in Seq(Int) /\ seqs[k + 1] \in Seq(Int)
                <5>1. f[k + 1] = f[(k + 1) - 1] \o seqs[k + 1]
                    BY <2>2, <3>1, <4>1
                <5>2. f[k] \in Seq(Int) /\ seqs[k + 1] \in Seq(Int)
                    BY <1>2, <2>2, <3>1, <4>1
                <5> QED
                    BY <4>1, <5>1, <5>2
            <4>4. /\ cut[k] <= cut[k + 1]
                  /\ seqs[k + 1] = SubSeq(bytes, cut[k] + 1, cut[k + 1]) \/ (may /\ Failed(seqs[k + 1]))
                <5>1. cut[(k + 1) - 1] <= cut[k + 1] /\ (seqs[k + 1] = Piece(k + 1) \/ Broken(k + 1))
                    BY <1>2, <3>1
                <5> QED
                    BY <4>1, <5>1
            <4>5. cut[0] \in 0..Len(bytes) /\ cut[k] \in 0..Len(bytes) /\ cut[k + 1] \in 0..Len(bytes)
                BY <1>1, <4>1
            <4>6. Slice(k) \o SubSeq(bytes, cut[k] + 1, cut[k + 1]) = Slice(k + 1)
                <5>1. /\ cut[0] + 1 \in 1..(Len(bytes) + 1) /\ cut[k] \in ((cut[0] + 1) - 1)..Len(bytes)
                      /\ cut[k + 1] \in cut[k]..Len(bytes)
                    <6>1. cut[0] <= cut[k]
                        BY <4>2
                    <6> QED
                        BY <1>1, <4>4, <4>5, <6>1
                <5> QED
                    BY <5>1, ConcatAdjacentSubSeq
            <4>7. f[k + 1] = Slice(k + 1) \/ (may /\ Failed(f[k + 1]))
                <5> HIDE DEF Slice
                <5>1. CASE f[k] = Slice(k) /\ seqs[k + 1] = SubSeq(bytes, cut[k] + 1, cut[k + 1])
                    BY <4>3, <4>6, <5>1
                <5>2. CASE may /\ (Failed(f[k]) \/ Failed(seqs[k + 1]))
                    BY <4>3, <5>2, FailedOnce
                <5> QED
                    BY <4>2, <4>4, <5>1, <5>2
            <4>8. cut[0] <= cut[k + 1]
                <5>1. cut[0] <= cut[k]
                    BY <4>2
                <5> QED
                    BY <4>4, <4>5, <5>1
            <4> QED
                BY <4>7, <4>8
        <3> HIDE DEF Right
        <3>2. n + 1 \in Nat
            BY <3>0
        <3> QED
            BY <3>1, <3>2
    <2>5. Good = Nat
        <3>1. Good \in SUBSET Nat
            OBVIOUS
        <3> HIDE DEF Good
        <3> QED
            BY <2>3, <2>4, <3>1, SetInduction
    <2>6. Right(m)
        <3>1. m - 1 \in Nat /\ (m - 1) + 1 = m
            BY <1>1, <1>6
        <3>2. m - 1 \in Good
            BY <2>5, <3>1
        <3> HIDE DEF Right
        <3> QED
            BY <2>0, <3>1, <3>2
    <2>7. f[m] = Slice(m) \/ (may /\ Failed(f[m]))
        BY <2>6
    <2> HIDE DEF Slice
    <2>8. f[m] \in Seq(Int)
        BY <2>0, <2>2
    <2>9. FlattenSeq(seqs) = Slice(m) \/ (may /\ Failed(FlattenSeq(seqs)))
        BY <2>2, <2>7
    <2> QED
        BY <2>2, <2>8, <2>9 DEF Slice
<1> QED
    BY <1>1, <1>5, <1>6 DEF m

\* Total adds up the lengths of a group.
LEMMA Totals ==
    ASSUME NEW group \in Seq(Entries)
    PROVE  \E f \in [0..Len(group) -> Nat] :
               /\ Total(group) = f[Len(group)] /\ f[0] = 0
               /\ \A n \in 1..Len(group) : f[n] = f[n - 1] + group[n].length
<1> DEFINE L == Len(group)
           D == 0..L
           Step(g, n) == IF n = 0 THEN 0 ELSE g[n - 1] + group[n].length
           H == [g \in [D -> Nat] |-> [n \in D |-> Step(g, n)]]
           size == [n \in D |-> n]
           Sum == CHOOSE f : f = [n \in D |-> Step(f, n)]
<1>1. L \in Nat /\ \A n \in 1..L : group[n].length \in Nat
    <2>1. \A n \in 1..L : group[n] \in Entries
        OBVIOUS
    <2> QED
        BY <2>1 DEF Entries
<1>2. Total(group) = Sum[L]
    BY DEF Total
<1> HIDE DEF L
<1>3. ASSUME NEW g \in [D -> Nat], NEW n \in D PROVE Step(g, n) \in Nat
    <2>1. n # 0 => n - 1 \in D /\ n \in 1..L
        BY <1>1
    <2> HIDE DEF D
    <2>2. n # 0 => g[n - 1] \in Nat /\ group[n].length \in Nat
        BY <1>1, <2>1
    <2> QED
        BY <2>2
<1>4. H \in [[D -> Nat] -> [D -> Nat]]
    <2> HIDE DEF Step, D
    <2> QED
        BY <1>3
<1>5. ASSUME NEW g \in [D -> Nat], NEW h \in [D -> Nat], NEW n \in D,
             \A k \in D : size[k] < size[n] => g[k] = h[k]
      PROVE  H[g][n] = H[h][n]
    <2>1. n # 0 => n - 1 \in D /\ size[n - 1] < size[n]
        BY <1>1
    <2> HIDE DEF D, size
    <2>2. n # 0 => g[n - 1] = h[n - 1]
        BY <1>5, <2>1
    <2> QED
        BY <2>2
<1>6. \E f \in [D -> Nat] : f = H[f]
    <2>1. size \in [D -> Nat]
        BY <1>1
    <2> HIDE DEF D, H, size
    <2>2. Descends(H, D, Nat, size)
        BY <1>4, <1>5, <2>1 DEF Descends
    <2> QED
        BY <2>2, RecursionDefines
<1>7. PICK f \in [D -> Nat] : f = [n \in D |-> Step(f, n)]
    BY <1>6
<1>8. Sum = [n \in D |-> Step(Sum, n)]
    <2> HIDE DEF Step, D
    <2> QED
        BY <1>7
<1> HIDE DEF Sum
<1>9. ASSUME NEW n \in D PROVE Sum[n] = IF n = 0 THEN 0 ELSE Sum[n - 1] + group[n].length
    <2>1. Sum[n] = Step(Sum, n)
        <3> HIDE DEF Step, D
        <3> QED
            BY <1>8
    <2> QED
        BY <2>1
<1> DEFINE Good == {n \in Nat : n \in D => Sum[n] \in Nat}
<1>10. Good = Nat
    <2>1. 0 \in Good
        <3>1. 0 \in D
            BY <1>1
        <3> QED
            BY <1>9, <3>1
    <2>2. ASSUME NEW n \in Good PROVE n + 1 \in Good
        <3>0. n \in Nat /\ (n \in D => Sum[n] \in Nat)
            OBVIOUS
        <3> SUFFICES ASSUME n + 1 \in D PROVE Sum[n + 1] \in Nat
            BY <3>0
        <3>1. n \in D /\ (n + 1) - 1 = n /\ n + 1 # 0 /\ n + 1 \in 1..L
            BY <1>1, <3>0
        <3>2. Sum[n + 1] = Sum[(n + 1) - 1] + group[n + 1].length
            BY <1>9, <3>1
        <3>3. Sum[n] \in Nat /\ group[n + 1].length \in Nat
            BY <1>1, <3>0, <3>1
        <3> QED
            BY <3>1, <3>2, <3>3
    <2>3. Good \in SUBSET Nat
        OBVIOUS
    <2> HIDE DEF Good
    <2> QED
        BY <2>1, <2>2, <2>3, SetInduction
<1>11. Sum \in [D -> Nat]
    <2>1. Sum = [n \in D |-> Sum[n]]
        BY <1>8
    <2>2. ASSUME NEW n \in D PROVE Sum[n] \in Nat
        <3>1. n \in Nat
            BY <1>1
        <3>2. n \in Good
            BY <1>10, <3>1
        <3> QED
            BY <3>2
    <2> QED
        BY <2>1, <2>2
<1>12. ASSUME NEW n \in 1..L PROVE Sum[n] = Sum[n - 1] + group[n].length
    <2>1. n \in D /\ n # 0
        BY <1>1
    <2> QED
        BY <1>9, <2>1
<1>13. Sum[0] = 0
    <2>1. 0 \in D
        BY <1>1
    <2> QED
        BY <1>9, <2>1
<1> QED
    BY <1>2, <1>11, <1>12, <1>13 DEF L

LEMMA TotalTyped ==
    ASSUME NEW group \in Seq(Entries)
    PROVE  Total(group) \in Nat
<1>1. PICK f \in [0..Len(group) -> Nat] : Total(group) = f[Len(group)]
    BY Totals
<1>2. Len(group) \in 0..Len(group)
    OBVIOUS
<1> QED
    BY <1>1, <1>2

\* When lengths are the distances between marks, their total is that of the outer ones.
LEMMA Telescopes ==
    ASSUME NEW group \in Seq(Entries), NEW mark \in [0..Len(group) -> Int],
           \A n \in 1..Len(group) : group[n].length = mark[n] - mark[n - 1]
    PROVE  Total(group) = mark[Len(group)] - mark[0]
<1> DEFINE L == Len(group)
<1>1. PICK f \in [0..L -> Nat] :
          Total(group) = f[L] /\ f[0] = 0 /\ \A n \in 1..L : f[n] = f[n - 1] + group[n].length
    BY Totals
<1>2. L \in Nat
    OBVIOUS
<1>3. \A n \in 1..L : group[n].length = mark[n] - mark[n - 1]
    OBVIOUS
<1>4. \A n \in 0..L : mark[n] \in Int
    OBVIOUS
<1> HIDE DEF L
<1> DEFINE Good == {n \in Nat : n \in 0..L => f[n] = mark[n] - mark[0]}
<1>5. 0 \in Good
    BY <1>1, <1>2, <1>4
<1>6. ASSUME NEW n \in Good PROVE n + 1 \in Good
    <2>1. n \in Nat /\ (n \in 0..L => f[n] = mark[n] - mark[0])
        OBVIOUS
    <2>2. ASSUME n + 1 \in 0..L PROVE f[n + 1] = mark[n + 1] - mark[0]
        <3>1. n \in 0..L /\ n + 1 \in 1..L /\ (n + 1) - 1 = n /\ 0 \in 0..L
            BY <1>2, <2>1, <2>2
        <3>2. f[n + 1] = f[(n + 1) - 1] + (mark[n + 1] - mark[(n + 1) - 1])
            BY <1>1, <1>3, <3>1
        <3>3. f[n] = mark[n] - mark[0] /\ mark[n] \in Int /\ mark[n + 1] \in Int /\ mark[0] \in Int
            BY <1>4, <2>1, <2>2, <3>1
        <3> QED
            BY <3>1, <3>2, <3>3
    <2> QED
        BY <2>1, <2>2
<1>7. L \in Good
    <2>1. Good \in SUBSET Nat
        OBVIOUS
    <2> HIDE DEF Good
    <2> QED
        BY <1>2, <1>5, <1>6, <2>1, SetInduction
<1>8. f[L] = mark[L] - mark[0]
    BY <1>2, <1>7
<1> QED
    BY <1>1, <1>8 DEF L

(***************************************************************************)
(* Groups and rows.                                                        *)
(***************************************************************************)
\* The groups of a sequence: all full but the last, which ends it.
LEMMA Groups ==
    ASSUME NEW S, NEW items \in Seq(S), NEW width \in Nat \ {0}, NEW n \in 1..CeilDiv(Len(items), width)
    PROVE  /\ Group(items, n, width) \in Seq(S) /\ (n - 1) * width \in Nat
           /\ Len(Group(items, n, width)) \in 1..width
           /\ (n - 1) * width + Len(Group(items, n, width)) <= Len(items)
           /\ n < CeilDiv(Len(items), width) => Len(Group(items, n, width)) = width
           /\ n = CeilDiv(Len(items), width) => (n - 1) * width + Len(Group(items, n, width)) = Len(items)
           /\ \A i \in 1..Len(Group(items, n, width)) : Group(items, n, width)[i] = items[(n - 1) * width + i]
<1> DEFINE L == Len(items)
           m == CeilDiv(L, width)
           low == (n - 1) * width
           g == Group(items, n, width)
<1>1. L \in Nat /\ \A i \in 1..L : items[i] \in S
    OBVIOUS
<1> HIDE DEF L
<1>2. m \in Nat /\ \A i \in Int : i < m <=> i * width < L
    BY <1>1, Ceiling
<1>3. n \in 1..m
    BY DEF L
<1> HIDE DEF m
<1>4. n \in Nat /\ n >= 1 /\ n <= m /\ n - 1 < m /\ n - 1 \in Nat
    BY <1>2, <1>3
<1>5. low \in Nat /\ low < L /\ n * width = low + width
    <2>1. (n - 1) * width < L
        <3>1. n - 1 \in Int /\ n - 1 < m
            BY <1>4
        <3> QED
            BY <1>2, <3>1, Zenon
    <2> QED
        BY <1>4, <2>1
<1>6. n < m <=> low + width < L
    <2>1. n < m <=> n * width < L
        <3>1. n \in Int
            BY <1>4
        <3> QED
            BY <1>2, <3>1, Zenon
    <2> QED
        BY <1>5, <2>1
<1> DEFINE high == IF low + width <= L THEN low + width ELSE L
<1>7. g = SubSeq(items, low + 1, high)
    <2>1. Min({n * width, L}) = high
        BY <1>1, <1>5, MinOfTwo
    <2> QED
        BY <2>1 DEF Group, L
<1> HIDE DEF low
<1>8. high \in Nat /\ low + 1 <= high /\ high <= L /\ high - low \in 1..width
    BY <1>1, <1>5
<1>9. /\ g \in Seq(S) /\ Len(g) = high - low
      /\ \A i \in 1..(high - (low + 1) + 1) : g[i] = items[(low + 1) + i - 1]
    <2>1. \A i \in (low + 1)..high : items[i] \in S
        BY <1>1, <1>5, <1>8
    <2>2. low + 1 \in Int /\ high \in Int
        BY <1>5, <1>8
    <2> HIDE DEF high, g
    <2>3. /\ SubSeq(items, low + 1, high) \in Seq(S)
          /\ Len(SubSeq(items, low + 1, high)) = IF low + 1 <= high THEN high - (low + 1) + 1 ELSE 0
          /\ \A i \in 1..(high - (low + 1) + 1) : SubSeq(items, low + 1, high)[i] = items[(low + 1) + i - 1]
        BY <2>1, <2>2, SubSeqProperties
    <2> QED
        BY <1>5, <1>7, <1>8, <2>3
<1>10. \A i \in 1..Len(g) : g[i] = items[low + i]
    <2> SUFFICES ASSUME NEW i \in 1..Len(g) PROVE g[i] = items[low + i]
        OBVIOUS
    <2>1. i \in 1..(high - (low + 1) + 1) /\ (low + 1) + i - 1 = low + i
        <3> HIDE DEF g, high
        <3> QED
            BY <1>5, <1>8, <1>9
    <2> HIDE DEF g, high
    <2> QED
        BY <1>9, <2>1
<1>11. n < m => Len(g) = width
    BY <1>1, <1>5, <1>6, <1>9
<1>12. n = m => low + Len(g) = L
    BY <1>1, <1>5, <1>6, <1>9
<1>13. Len(g) \in 1..width /\ low + Len(g) <= L
    <2> HIDE DEF g, high
    <2> QED
        BY <1>5, <1>8, <1>9
<1>14. g \in Seq(S) /\ low \in Nat
    BY <1>5, <1>9
<1> HIDE DEF g
<1> QED
    BY <1>10, <1>11, <1>12, <1>13, <1>14 DEF g, m, low, L

\* What joins a group is an entry of the row above.
LEMMA ParentTyped ==
    ASSUME NEW group \in Seq(Entries), Len(group) >= 1, NEW row \in Nat, NEW n \in Nat
    PROVE  Parent(group, row, n) \in Entries
<1>1. Total(group) \in Nat /\ group[1] \in Entries
    BY TotalTyped
<1> QED
    BY <1>1 DEF Parent, Entry, Entries, Ref

LEMMA ParentsOf ==
    ASSUME NEW below \in Seq(Entries), NEW row \in Nat, NEW width \in Nat \ {0}
    PROVE  /\ Parents(below, row, width) \in Seq(Entries)
           /\ Len(Parents(below, row, width)) = CeilDiv(Len(below), width)
           /\ \A n \in 1..CeilDiv(Len(below), width) :
                  Parents(below, row, width)[n] = Parent(Group(below, n, width), row, n)
<1> DEFINE m == CeilDiv(Len(below), width)
           made == [n \in 1..m |-> Parent(Group(below, n, width), row, n)]
<1>1. m \in Nat
    BY Ceiling
<1>2. ASSUME NEW n \in 1..m PROVE Parent(Group(below, n, width), row, n) \in Entries
    <2>1. Group(below, n, width) \in Seq(Entries) /\ Len(Group(below, n, width)) \in 1..width
        BY Groups
    <2>2. Len(Group(below, n, width)) >= 1 /\ n \in Nat
        BY <1>1, <2>1
    <2> QED
        BY <2>1, <2>2, ParentTyped
<1> HIDE DEF m
<1>3. made \in Seq(Entries) /\ Len(made) = m /\ DOMAIN made = 1..m
    BY <1>1, <1>2
<1>4. Parents(below, row, width) = <<>> \o made
    BY DEF Parents, m
<1>5. <<>> \o made = made
    <2> HIDE DEF made
    <2> QED
        BY <1>3, ConcatEmptySeq
<1>6. \A n \in 1..m : made[n] = Parent(Group(below, n, width), row, n)
    OBVIOUS
<1> HIDE DEF made
<1> QED
    BY <1>3, <1>4, <1>5, <1>6 DEF m

LEMMA LeavesOf ==
    ASSUME NEW bytes \in Seq(Int)
    PROVE  /\ Leaves(bytes) \in Seq(Entries) /\ Len(Leaves(bytes)) >= 1
           /\ Len(Leaves(bytes)) = IF Len(bytes) = 0 THEN 1 ELSE CeilDiv(Len(bytes), PayloadSize)
           /\ \A n \in 1..Len(Leaves(bytes)) : Leaves(bytes)[n] = Entry(1, n, Len(Group(bytes, n, PayloadSize)))
           /\ Len(bytes) = 0 => Group(bytes, 1, PayloadSize) = <<>>
<1> DEFINE m == Max({1, CeilDiv(Len(bytes), PayloadSize)})
           made == [n \in 1..m |-> Entry(1, n, Len(Group(bytes, n, PayloadSize)))]
<1>0. PayloadSize \in Nat \ {0} /\ Len(bytes) \in Nat
    BY ChunkAssumption
<1>1. /\ CeilDiv(Len(bytes), PayloadSize) \in Nat
      /\ (0 < CeilDiv(Len(bytes), PayloadSize) <=> 0 * PayloadSize < Len(bytes))
    BY <1>0, Ceiling
<1>2. m \in Nat /\ m >= 1 /\ m = IF Len(bytes) = 0 THEN 1 ELSE CeilDiv(Len(bytes), PayloadSize)
    BY <1>0, <1>1, LargerOfTwo
<1>3. Len(bytes) = 0 => Group(bytes, 1, PayloadSize) = <<>>
    <2>1. Len(bytes) = 0 => Min({1 * PayloadSize, Len(bytes)}) = 0 /\ (1 - 1) * PayloadSize + 1 = 1
        BY <1>0, MinOfTwo
    <2>2. SubSeq(bytes, 1, 0) = <<>>
        BY SubSeqEmpty
    <2> QED
        BY <2>1, <2>2 DEF Group
<1>4. ASSUME NEW n \in 1..m PROVE Entry(1, n, Len(Group(bytes, n, PayloadSize))) \in Entries
    <2>1. Len(Group(bytes, n, PayloadSize)) \in Nat
        <3>1. CASE Len(bytes) = 0
            BY <1>2, <1>3, <3>1
        <3>2. CASE Len(bytes) # 0
            <4>1. n \in 1..CeilDiv(Len(bytes), PayloadSize)
                BY <1>2, <3>2
            <4>2. Len(Group(bytes, n, PayloadSize)) \in 1..PayloadSize
                BY <1>0, <4>1, Groups
            <4> QED
                BY <1>0, <4>2
        <3> QED
            BY <3>1, <3>2
    <2>2. n \in Nat
        BY <1>2
    <2> QED
        BY <2>1, <2>2 DEF Entry, Entries, Ref
<1>5. Leaves(bytes) = <<>> \o made
    BY DEF Leaves
<1> HIDE DEF m
<1>6. made \in Seq(Entries) /\ Len(made) = m /\ \A n \in 1..m : made[n] = Entry(1, n, Len(Group(bytes, n, PayloadSize)))
    <2>1. made \in Seq(Entries) /\ Len(made) = m
        BY <1>2, <1>4
    <2> QED
        BY <2>1
<1> HIDE DEF made
<1>7. <<>> \o made = made
    BY <1>6, ConcatEmptySeq
<1> QED
    BY <1>2, <1>3, <1>5, <1>6, <1>7

\* The rows of a tree, as far as they are made.
Chain(rows, bytes, width) ==
    /\ rows \in Seq(Seq(Entries)) /\ Len(rows) >= 1 /\ rows[1] = Leaves(bytes)
    /\ \A k \in 1..(Len(rows) - 1) : Len(rows[k]) > 1 /\ rows[k + 1] = Parents(rows[k], k + 1, width)

\* Another row, of the groups of the last one.
LEMMA ChainGrows ==
    ASSUME NEW bytes \in Seq(Int), NEW width \in Nat \ {0, 1}, NEW rows, Chain(rows, bytes, width), Len(Last(rows)) > 1
    PROVE  LET grown == Append(rows, Parents(Last(rows), Len(rows) + 1, width))
           IN  Chain(grown, bytes, width) /\ Len(Last(grown)) < Len(Last(rows))
<1> DEFINE L == Len(rows)
           above == Parents(Last(rows), L + 1, width)
           grown == Append(rows, above)
<1>1. /\ rows \in Seq(Seq(Entries)) /\ L \in Nat /\ L >= 1 /\ rows[1] = Leaves(bytes) /\ Last(rows) = rows[L]
      /\ \A k \in 1..(L - 1) : Len(rows[k]) > 1 /\ rows[k + 1] = Parents(rows[k], k + 1, width)
    BY DEF Chain, Last
<1>2. Last(rows) \in Seq(Entries) /\ L + 1 \in Nat
    <2>1. L \in 1..Len(rows)
        BY <1>1
    <2>2. rows[L] \in Seq(Entries)
        BY <1>1, <2>1, ElementOfSeq
    <2> QED
        BY <1>1, <2>2
<1>3. above \in Seq(Entries) /\ Len(above) = CeilDiv(Len(Last(rows)), width)
    BY <1>2, ParentsOf
<1>4. Len(above) < Len(Last(rows))
    <2>1. Len(Last(rows)) \in Nat /\ width \in Nat \ {0} /\ width > 1
        BY <1>2
    <2> QED
        BY <1>3, <2>1, CeilingShrinks
<1>5. L = Len(rows)
    OBVIOUS
<1> HIDE DEF above, L
<1>6. /\ grown \in Seq(Seq(Entries)) /\ Len(grown) = L + 1 /\ grown[L + 1] = above
      /\ \A k \in 1..L : grown[k] = rows[k]
    BY <1>1, <1>3, <1>5, AppendProperties
<1> HIDE DEF grown
<1>7. Last(grown) = above
    BY <1>1, <1>6 DEF Last
<1>8. Chain(grown, bytes, width)
    <2>1. ASSUME NEW k \in 1..(Len(grown) - 1)
          PROVE  Len(grown[k]) > 1 /\ grown[k + 1] = Parents(grown[k], k + 1, width)
        <3>1. k \in 1..L /\ grown[k] = rows[k]
            BY <1>1, <1>6
        <3>2. CASE k = L
            BY <1>1, <1>6, <3>1, <3>2 DEF above
        <3>3. CASE k # L
            <4>1. k \in 1..(L - 1) /\ k + 1 \in 1..L
                BY <1>1, <3>1, <3>3
            <4> QED
                BY <1>1, <1>6, <3>1, <4>1
        <3> QED
            BY <3>2, <3>3
    <2>2. Len(grown) >= 1 /\ grown[1] = Leaves(bytes)
        BY <1>1, <1>6
    <2> QED
        BY <1>6, <2>1, <2>2 DEF Chain
<1> QED
    BY <1>4, <1>7, <1>8 DEF above, grown, L

\* The rows are made until one has a single entry.
LEMMA RowsGrown ==
    ASSUME NEW bytes \in Seq(Int), NEW width \in Nat \ {0, 1}
    PROVE  Chain(Rows(bytes, width), bytes, width) /\ Len(Last(Rows(bytes, width))) <= 1
<1> DEFINE D == Seq(Seq(Entries)) \ {<<>>}
           More(rows) == Append(rows, Parents(Last(rows), Len(rows) + 1, width))
           Step(g, rows) == IF Len(Last(rows)) <= 1 THEN rows ELSE g[More(rows)]
           H == [g \in [D -> D] |-> [rows \in D |-> Step(g, rows)]]
           size == [rows \in D |-> Len(Last(rows))]
           Grown == CHOOSE f : f = [rows \in D |-> Step(f, rows)]
<1>1. ASSUME NEW rows \in D
      PROVE  /\ Len(rows) >= 1 /\ Len(rows) \in Nat /\ Last(rows) \in Seq(Entries) /\ Len(Last(rows)) \in Nat
             /\ Len(Last(rows)) > 1 => More(rows) \in D /\ Len(Last(More(rows))) < Len(Last(rows))
    <2>1. Len(rows) >= 1 /\ Len(rows) \in Nat /\ rows \in Seq(Seq(Entries))
        BY EmptySeq
    <2>2. Last(rows) \in Seq(Entries) /\ Len(Last(rows)) \in Nat
        <3>1. Len(rows) \in 1..Len(rows)
            BY <2>1
        <3>2. rows[Len(rows)] \in Seq(Entries)
            BY <2>1, <3>1, ElementOfSeq
        <3> QED
            BY <3>2 DEF Last
    <2> DEFINE above == Parents(Last(rows), Len(rows) + 1, width)
    <2>3. above \in Seq(Entries) /\ Len(above) = CeilDiv(Len(Last(rows)), width)
        <3>1. Len(rows) + 1 \in Nat /\ width \in Nat \ {0}
            BY <2>1
        <3> QED
            BY <2>2, <3>1, ParentsOf
    <2>4. Len(Last(rows)) > 1 => Len(above) < Len(Last(rows))
        <3>1. Len(Last(rows)) \in Nat /\ width \in Nat \ {0} /\ width > 1
            BY <2>2
        <3> QED
            BY <2>3, <3>1, CeilingShrinks
    <2> HIDE DEF above
    <2>5. /\ Append(rows, above) \in Seq(Seq(Entries)) /\ Append(rows, above) # <<>>
          /\ Len(Append(rows, above)) = Len(rows) + 1 /\ Append(rows, above)[Len(rows) + 1] = above
        BY <2>1, <2>3, AppendProperties
    <2>6. Last(Append(rows, above)) = above
        BY <2>5 DEF Last
    <2>7. Len(Last(rows)) > 1 => Append(rows, above) \in D /\ Len(Last(Append(rows, above))) < Len(Last(rows))
        BY <2>4, <2>5, <2>6
    <2> QED
        BY <2>1, <2>2, <2>7 DEF above
<1>2. size \in [D -> Nat]
    <2> HIDE DEF D
    <2> QED
        BY <1>1
<1>3. ASSUME NEW rows \in D PROVE ~(Len(Last(rows)) <= 1) => More(rows) \in D /\ size[More(rows)] < size[rows]
    <2>1. ~(Len(Last(rows)) <= 1) <=> Len(Last(rows)) > 1
        BY <1>1
    <2> HIDE DEF D, More
    <2> QED
        BY <1>1, <2>1
<1> HIDE DEF D, More
<1>4. ASSUME NEW g \in [D -> D], NEW rows \in D PROVE Step(g, rows) \in D
    BY <1>3, <1>4
<1>5. H \in [[D -> D] -> [D -> D]]
    <2> HIDE DEF Step
    <2> QED
        BY <1>4
<1>6. ASSUME NEW g \in [D -> D], NEW h \in [D -> D], NEW rows \in D,
             \A r \in D : size[r] < size[rows] => g[r] = h[r]
      PROVE  H[g][rows] = H[h][rows]
    <2> HIDE DEF size
    <2>1. ~(Len(Last(rows)) <= 1) => g[More(rows)] = h[More(rows)]
        BY <1>3, <1>6
    <2> QED
        BY <2>1
<1>7. <<Leaves(bytes)>> \in D /\ Chain(<<Leaves(bytes)>>, bytes, width)
    <2>1. Leaves(bytes) \in Seq(Entries)
        BY LeavesOf
    <2>2. <<Leaves(bytes)>> \in Seq(Seq(Entries)) /\ Len(<<Leaves(bytes)>>) = 1 /\ <<Leaves(bytes)>>[1] = Leaves(bytes)
        BY <2>1
    <2> QED
        BY <2>2 DEF D, Chain
<1>8. \E f \in [D -> D] : f = H[f]
    <2>1. D # {}
        BY <1>7
    <2> HIDE DEF H, size
    <2>2. Descends(H, D, D, size)
        BY <1>2, <1>5, <1>6, <2>1 DEF Descends
    <2> QED
        BY <2>2, RecursionDefines
<1>9. PICK f \in [D -> D] : f = [rows \in D |-> Step(f, rows)]
    BY <1>8
<1>10. Grown = [rows \in D |-> Step(Grown, rows)]
    <2> HIDE DEF Step
    <2> QED
        BY <1>9
<1>11. Rows(bytes, width) = Grown[<<Leaves(bytes)>>]
    BY DEF Rows, D, More
<1> HIDE DEF Grown
<1>12. ASSUME NEW rows \in D PROVE Grown[rows] = Step(Grown, rows)
    <2> HIDE DEF Step
    <2> QED
        BY <1>10
<1> DEFINE Full(rows) == Chain(rows, bytes, width) /\ Len(Last(rows)) <= 1
           Good == {n \in Nat : \A rows \in D : Chain(rows, bytes, width) /\ size[rows] <= n => Full(Grown[rows])}
<1>13. Good = Nat
    <2>1. ASSUME NEW rows \in D, Chain(rows, bytes, width), Len(Last(rows)) <= 1 PROVE Full(Grown[rows])
        BY <1>12, <2>1
    <2>2. 0 \in Good
        <3>1. ASSUME NEW rows \in D, Chain(rows, bytes, width), size[rows] <= 0 PROVE Full(Grown[rows])
            <4>1. Len(Last(rows)) <= 1
                BY <1>1, <3>1
            <4> HIDE DEF Full
            <4> QED
                BY <2>1, <3>1, <4>1
        <3> HIDE DEF Full, size
        <3> QED
            BY <3>1
    <2>3. ASSUME NEW n \in Good PROVE n + 1 \in Good
        <3>0. n \in Nat /\ \A rows \in D : Chain(rows, bytes, width) /\ size[rows] <= n => Full(Grown[rows])
            <4> HIDE DEF Full, size
            <4> QED
                OBVIOUS
        <3>1. ASSUME NEW rows \in D, Chain(rows, bytes, width), size[rows] <= n + 1 PROVE Full(Grown[rows])
            <4>1. CASE Len(Last(rows)) <= 1
                <5> HIDE DEF Full
                <5> QED
                    BY <2>1, <3>1, <4>1
            <4>2. CASE ~(Len(Last(rows)) <= 1)
                <5>1. More(rows) \in D /\ size[More(rows)] < size[rows] /\ Grown[rows] = Grown[More(rows)]
                    BY <1>3, <1>12, <4>2
                <5>2. size[More(rows)] \in Nat /\ size[rows] \in Nat
                    BY <1>2, <5>1
                <5>3. size[More(rows)] <= n
                    BY <3>0, <3>1, <5>1, <5>2
                <5>4. Len(Last(rows)) > 1
                    BY <1>1, <4>2
                <5>5. Chain(More(rows), bytes, width)
                    BY <3>1, <5>4, ChainGrows DEF More
                <5> HIDE DEF Full, size
                <5> QED
                    BY <3>0, <5>1, <5>3, <5>5
            <4> QED
                BY <4>1, <4>2
        <3> HIDE DEF Full, size
        <3> QED
            BY <3>0, <3>1
    <2>4. Good \in SUBSET Nat
        OBVIOUS
    <2> HIDE DEF Good
    <2> QED
        BY <2>2, <2>3, <2>4, SetInduction
<1> HIDE DEF Full
<1>14. Full(Grown[<<Leaves(bytes)>>])
    <2>1. size[<<Leaves(bytes)>>] \in Nat
        BY <1>2, <1>7
    <2> HIDE DEF size
    <2>2. size[<<Leaves(bytes)>>] \in Good /\ size[<<Leaves(bytes)>>] <= size[<<Leaves(bytes)>>]
        BY <1>13, <2>1
    <2> QED
        BY <1>7, <2>2
<1> QED
    BY <1>11, <1>14 DEF Full

(***************************************************************************)
(* The lengths in a row.                                                   *)
(***************************************************************************)
LEMMA TimesMonotone ==
    ASSUME NEW a \in Int, NEW b \in Int, NEW u \in Nat, a <= b
    PROVE  a * u <= b * u
<1>1. b * u = a * u + (b - a) * u /\ a * u \in Int /\ b - a \in Nat
    OBVIOUS
<1>2. (b - a) * u \in Nat
    BY <1>1
<1> QED
    BY <1>1, <1>2

\* Where what lies under the i-th entry ends, when all but the last are of unit bytes.
End(row, size, unit, i) == IF i = Len(row) THEN size ELSE i * unit

Even(row, size, unit) ==
    /\ unit \in Nat /\ unit >= PayloadSize /\ size \in Nat /\ row \in Seq(Entries) /\ Len(row) >= 1
    /\ size <= Len(row) * unit /\ (Len(row) > 1 => (Len(row) - 1) * unit < size)
    /\ \A i \in 1..Len(row) : row[i].length = End(row, size, unit, i) - (i - 1) * unit

LEMMA LeavesEven ==
    ASSUME NEW bytes \in Seq(Int)
    PROVE  Even(Leaves(bytes), Len(bytes), PayloadSize)
<1> DEFINE row == Leaves(bytes)
           size == Len(bytes)
           L == Len(row)
<1>1. PayloadSize \in Nat \ {0} /\ size \in Nat /\ row \in Seq(Entries) /\ L >= 1 /\ L \in Nat
    BY LeavesOf, ChunkAssumption
<1>2. /\ L = IF size = 0 THEN 1 ELSE CeilDiv(size, PayloadSize)
      /\ \A n \in 1..L : row[n].length = Len(Group(bytes, n, PayloadSize))
      /\ size = 0 => Group(bytes, 1, PayloadSize) = <<>>
    <2>1. \A n \in 1..L : row[n] = Entry(1, n, Len(Group(bytes, n, PayloadSize)))
        BY LeavesOf
    <2>2. \A n \in 1..L : row[n].length = Len(Group(bytes, n, PayloadSize))
        <3>1. \A a, b, c : Entry(a, b, c).length = c
            BY DEF Entry
        <3> HIDE DEF row, L
        <3> QED
            BY <2>1, <3>1
    <2> QED
        BY <2>2, LeavesOf
<1>3. CeilDiv(size, PayloadSize) \in Nat /\ \A i \in Int : i < CeilDiv(size, PayloadSize) <=> i * PayloadSize < size
    BY <1>1, Ceiling
<1>4. ASSUME NEW n \in 1..L PROVE row[n].length = End(row, size, PayloadSize, n) - (n - 1) * PayloadSize
    <2> DEFINE g == Group(bytes, n, PayloadSize)
    <2>1. CASE size = 0
        <3>1. n = 1 /\ L = 1 /\ (n - 1) * PayloadSize = 0 /\ Len(g) = 0
            BY <1>1, <1>2, <2>1
        <3> QED
            BY <1>2, <2>1, <3>1 DEF End
    <2>2. CASE size # 0
        <3>1. L = CeilDiv(size, PayloadSize) /\ n \in 1..CeilDiv(size, PayloadSize)
            BY <1>2, <2>2
        <3>2. /\ (n - 1) * PayloadSize \in Nat /\ Len(g) \in 1..PayloadSize
              /\ n < CeilDiv(size, PayloadSize) => Len(g) = PayloadSize
              /\ n = CeilDiv(size, PayloadSize) => (n - 1) * PayloadSize + Len(g) = size
            BY <1>1, <3>1, Groups
        <3>3. n * PayloadSize = (n - 1) * PayloadSize + PayloadSize
            BY <1>1
        <3> DEFINE low == (n - 1) * PayloadSize
                   up == n * PayloadSize
        <3>4. row[n].length = Len(g)
            BY <1>2
        <3> HIDE DEF g, low, up
        <3>5. CASE n = L
            <4>1. low + Len(g) = size /\ low \in Nat /\ Len(g) \in Nat
                BY <1>1, <3>1, <3>2, <3>5 DEF low
            <4>2. Len(g) = size - low
                BY <1>1, <4>1
            <4> QED
                BY <3>4, <3>5, <4>2 DEF End, low
        <3>6. CASE n # L
            <4>1. n < CeilDiv(size, PayloadSize)
                BY <1>1, <3>1, <3>6
            <4>2. Len(g) = up - low
                BY <1>1, <3>2, <3>3, <4>1 DEF up, low
            <4> QED
                BY <3>4, <3>6, <4>2 DEF End, low, up
        <3> QED
            BY <3>5, <3>6
    <2> QED
        BY <2>1, <2>2
<1>5. size <= L * PayloadSize
    <2>1. CASE size = 0
        BY <1>1, <2>1
    <2>2. CASE size # 0
        <3>1. L = CeilDiv(size, PayloadSize) /\ L \in Int /\ ~(L < L)
            BY <1>1, <1>2, <2>2
        <3>2. ~(L * PayloadSize < size)
            BY <1>3, <3>1, Zenon
        <3> HIDE DEF L, size
        <3> QED
            BY <1>1, <3>2
    <2> QED
        BY <2>1, <2>2
<1>6. L > 1 => (L - 1) * PayloadSize < size
    <2>1. ASSUME L > 1 PROVE L = CeilDiv(size, PayloadSize)
        BY <1>2, <2>1
    <2>2. L - 1 \in Int /\ L - 1 < L
        BY <1>1
    <2> HIDE DEF L, size
    <2> QED
        BY <1>3, <2>1, <2>2, Zenon
<1> HIDE DEF row, size
<1> QED
    BY <1>1, <1>4, <1>5, <1>6 DEF Even, row, size

\* A row of groups of a row is as even, with a unit that many times larger; what
\* is counted under a group is what its entry says.
LEMMA ParentsEven ==
    ASSUME NEW below, NEW size, NEW unit, Even(below, size, unit), Len(below) > 1,
           NEW width \in Nat \ {0, 1}, NEW k \in Nat
    PROVE  /\ Even(Parents(below, k, width), size, width * unit)
           /\ \A n \in 1..Len(Parents(below, k, width)) :
                  Total(Group(below, n, width)) = Parents(below, k, width)[n].length
<1> DEFINE L == Len(below)
           row == Parents(below, k, width)
           m == Len(row)
           wide == width * unit
           group(n) == Group(below, n, width)
<1>1. /\ unit \in Nat /\ unit >= PayloadSize /\ size \in Nat /\ below \in Seq(Entries) /\ L \in Nat /\ L > 1
      /\ size <= L * unit /\ (L - 1) * unit < size
      /\ \A i \in 1..L : below[i].length = End(below, size, unit, i) - (i - 1) * unit
    BY DEF Even
<1>2. /\ row \in Seq(Entries) /\ m = CeilDiv(L, width) /\ m \in Nat
      /\ \A n \in 1..m : row[n] = Parent(group(n), k, n)
    <2>1. width \in Nat \ {0}
        OBVIOUS
    <2>2. row \in Seq(Entries) /\ m = CeilDiv(L, width)
        BY <1>1, <2>1, ParentsOf
    <2>3. \A n \in 1..CeilDiv(L, width) : row[n] = Parent(group(n), k, n)
        BY <1>1, <2>1, ParentsOf
    <2>4. m \in Nat
        BY <2>2
    <2> HIDE DEF row
    <2> QED
        BY <2>2, <2>3, <2>4
<1>3. m >= 1 /\ m < L
    <2>1. width \in Nat \ {0} /\ width > 1 /\ L \in Nat /\ L > 1 /\ m = CeilDiv(L, width)
        BY <1>1, <1>2
    <2> HIDE DEF m, row, L
    <2>2. CeilDiv(L, width) < L /\ CeilDiv(L, width) >= 1
        BY <2>1, CeilingShrinks
    <2> QED
        BY <2>1, <2>2
<1>4. \A i \in Int : i < m <=> i * width < L
    BY <1>1, <1>2, Ceiling
<1>5. ASSUME NEW n \in 1..m
      PROVE  /\ (n - 1) * width \in Nat /\ n * width = (n - 1) * width + width /\ group(n) \in Seq(Entries)
             /\ Len(group(n)) \in 1..width /\ (n - 1) * width + Len(group(n)) <= L
             /\ n < m => Len(group(n)) = width
             /\ n = m => (n - 1) * width + Len(group(n)) = L
             /\ \A i \in 1..Len(group(n)) : group(n)[i] = below[(n - 1) * width + i]
    <2>1. n \in 1..CeilDiv(Len(below), width) /\ width \in Nat \ {0}
        BY <1>2
    <2>2. n * width = (n - 1) * width + width
        BY <1>2
    <2> QED
        BY <1>1, <1>2, <2>1, <2>2, Groups
<1>6. wide \in Nat /\ wide >= PayloadSize
    <2>1. 1 <= width /\ 1 \in Int /\ width \in Int
        OBVIOUS
    <2>2. 1 * unit <= width * unit
        BY <1>1, <2>1, TimesMonotone
    <2>3. 1 * unit = unit /\ wide \in Nat /\ PayloadSize \in Nat
        BY <1>1, ChunkAssumption
    <2>4. unit <= wide
        BY <2>2, <2>3
    <2> HIDE DEF wide
    <2> QED
        BY <1>1, <2>3, <2>4
<1>7. ASSUME NEW n \in 1..m PROVE Total(group(n)) = End(row, size, wide, n) - (n - 1) * wide
    <2> DEFINE P == (n - 1) * width
               g == group(n)
               mark == [j \in 0..Len(g) |-> End(below, size, unit, P + j)]
    <2>1. /\ P \in Nat /\ n * width = P + width /\ g \in Seq(Entries) /\ Len(g) \in 1..width /\ P + Len(g) <= L
          /\ n < m => Len(g) = width
          /\ n = m => P + Len(g) = L
          /\ \A i \in 1..Len(g) : g[i] = below[P + i]
        BY <1>5
    <2>2. P * unit = (n - 1) * wide /\ (P + width) * unit = n * wide
        <3>1. ((n - 1) * width) * unit = (n - 1) * (width * unit) /\ (n * width) * unit = n * (width * unit)
            BY <1>1, <1>2
        <3> QED
            BY <2>1, <3>1
    <2>3. n # m => P + width < L
        <3>1. n \in Int /\ (n # m => n < m)
            BY <1>2
        <3>2. n < m <=> n * width < L
            BY <1>4, <3>1, Zenon
        <3> HIDE DEF P
        <3> QED
            BY <2>1, <3>1, <3>2
    <2> HIDE DEF P, g, L, row, m
    <2>4. Len(g) \in Nat /\ \A i \in 0..Len(g) : (P + i) \in Nat
        BY <2>1
    <2>5. mark \in [0..Len(g) -> Int]
        <3>1. ASSUME NEW i \in 0..Len(g) PROVE End(below, size, unit, P + i) \in Int
            BY <1>1, <2>1, <2>4 DEF End
        <3> QED
            BY <3>1
    <2>6. ASSUME NEW i \in 1..Len(g) PROVE g[i].length = mark[i] - mark[i - 1]
        <3>1. /\ i \in 0..Len(g) /\ i - 1 \in 0..Len(g) /\ P + i \in 1..L /\ (P + i) - 1 = P + (i - 1)
              /\ P + (i - 1) # Len(below)
            BY <1>1, <2>1, <2>4 DEF L
        <3>2. mark[i] = End(below, size, unit, P + i) /\ mark[i - 1] = (P + (i - 1)) * unit
            BY <3>1 DEF End
        <3>3. g[i].length = End(below, size, unit, P + i) - ((P + i) - 1) * unit
            BY <1>1, <2>1, <3>1
        <3> HIDE DEF mark
        <3> QED
            BY <3>1, <3>2, <3>3
    <2>7. Total(g) = mark[Len(g)] - mark[0]
        <3> HIDE DEF mark
        <3> QED
            BY <2>1, <2>5, <2>6, Telescopes
    <2>8. mark[0] = P * unit
        BY <1>1, <2>1, <2>4 DEF End, L
    <2>9. mark[Len(g)] = End(below, size, unit, P + Len(g))
        BY <2>4
    <2>10. End(below, size, unit, P + Len(g)) = End(row, size, wide, n)
        <3>1. CASE n = m
            BY <2>1, <3>1 DEF End, m, L
        <3>2. CASE n # m
            <4>1. Len(g) = width /\ P + width # L
                BY <1>1, <1>2, <2>1, <2>3, <3>2
            <4> QED
                BY <2>2, <3>2, <4>1 DEF End, m, L
        <3> QED
            BY <3>1, <3>2
    <2> HIDE DEF mark, wide
    <2> QED
        BY <2>2, <2>7, <2>8, <2>9, <2>10 DEF g
<1>8. ASSUME NEW n \in 1..m PROVE row[n].length = Total(group(n))
    <2> DEFINE g == group(n)
    <2>1. row[n] = Parent(g, k, n) /\ g \in Seq(Entries) /\ Len(g) \in 1..width
        BY <1>2, <1>5
    <2> HIDE DEF g
    <2>2. CASE Len(g) = 1
        <3>1. PICK f \in [0..Len(g) -> Nat] :
                  Total(g) = f[Len(g)] /\ f[0] = 0 /\ \A i \in 1..Len(g) : f[i] = f[i - 1] + g[i].length
            BY <2>1, Totals
        <3>2. f[1] = f[1 - 1] + g[1].length /\ 1 - 1 = 0
            BY <2>2, <3>1
        <3>3. g[1].length \in Nat
            <4>1. g[1] \in Entries
                <5>1. 1 \in 1..Len(g)
                    BY <2>2
                <5> QED
                    BY <2>1, <5>1, ElementOfSeq
            <4> QED
                BY <4>1 DEF Entries
        <3>4. Total(g) = g[1].length
            BY <2>2, <3>1, <3>2, <3>3
        <3> QED
            BY <2>1, <2>2, <3>4 DEF Parent, g
    <2>3. CASE Len(g) # 1
        BY <2>1, <2>3 DEF Parent, Entry, g
    <2> QED
        BY <2>2, <2>3
<1>9. size <= m * wide /\ (m > 1 => (m - 1) * wide < size)
    <2>1. L <= m * width
        <3>1. m \in Int /\ ~(m < m)
            BY <1>2
        <3>2. ~(m * width < L)
            BY <1>4, <3>1, Zenon
        <3> HIDE DEF m, L
        <3> QED
            BY <1>1, <1>2, <3>2
    <2>2. (m - 1) * width <= L - 1
        <3>1. m - 1 \in Int /\ m - 1 < m
            BY <1>2
        <3>2. (m - 1) * width < L
            BY <1>4, <3>1, Zenon
        <3> HIDE DEF m, L
        <3> QED
            BY <1>1, <1>2, <3>2
    <2> HIDE DEF m, L
    <2>3. L * unit <= (m * width) * unit /\ ((m - 1) * width) * unit <= (L - 1) * unit
        <3>1. m * width \in Int /\ (m - 1) * width \in Int /\ L - 1 \in Int
            BY <1>1, <1>2
        <3>2. L \in Int
            BY <1>1
        <3>3. L * unit <= (m * width) * unit
            BY <1>1, <2>1, <3>1, <3>2, TimesMonotone
        <3>4. ((m - 1) * width) * unit <= (L - 1) * unit
            BY <1>1, <2>2, <3>1, TimesMonotone
        <3> QED
            BY <3>3, <3>4
    <2>4. (m * width) * unit = m * wide /\ ((m - 1) * width) * unit = (m - 1) * wide
        BY <1>1, <1>2
    <2> HIDE DEF wide
    <2>5. m * wide \in Int /\ (m - 1) * wide \in Int /\ L * unit \in Int /\ (L - 1) * unit \in Int
        BY <1>1, <1>2, <1>6
    <2> QED
        BY <1>1, <2>3, <2>4, <2>5
<1>10. \A n \in 1..m : row[n].length = End(row, size, wide, n) - (n - 1) * wide
    BY <1>7, <1>8
<1> HIDE DEF wide, row
<1>11. Even(row, size, wide)
    BY <1>1, <1>2, <1>3, <1>6, <1>9, <1>10 DEF Even
<1> QED
    BY <1>8, <1>11 DEF row, wide

\* A group has as many units as it needs.
LEMMA GroupTotals ==
    ASSUME NEW below, NEW size, NEW unit, Even(below, size, unit), Len(below) > 1,
           NEW width \in Nat \ {0, 1}, NEW k \in Nat, NEW n \in 1..Len(Parents(below, k, width))
    PROVE  /\ Total(Group(below, n, width)) \in Nat
           /\ (Len(Group(below, n, width)) - 1) * unit < Total(Group(below, n, width))
           /\ Total(Group(below, n, width)) <= Len(Group(below, n, width)) * unit
<1> DEFINE L == Len(below)
           row == Parents(below, k, width)
           m == Len(row)
           wide == width * unit
           g == Group(below, n, width)
           len == Len(g)
           P == (n - 1) * width
<1>1. /\ unit \in Nat /\ unit >= PayloadSize /\ PayloadSize \in Nat \ {0} /\ size \in Nat /\ below \in Seq(Entries)
      /\ L \in Nat /\ L > 1 /\ size <= L * unit /\ (L - 1) * unit < size
    BY ChunkAssumption DEF Even
<1>2. m = CeilDiv(L, width) /\ m \in Nat /\ width \in Nat \ {0}
    <2>1. width \in Nat \ {0}
        OBVIOUS
    <2>2. m = CeilDiv(L, width)
        BY <1>1, <2>1, ParentsOf
    <2> QED
        BY <1>1, <2>1, <2>2, Ceiling
<1>3. /\ P \in Nat /\ g \in Seq(Entries) /\ len \in 1..width
      /\ n < m => len = width
      /\ n = m => P + len = L
    <2>1. n \in 1..CeilDiv(Len(below), width) /\ width \in Nat \ {0} /\ below \in Seq(Entries)
        BY <1>1, <1>2
    <2>2. P \in Nat /\ g \in Seq(Entries) /\ len \in 1..width
        BY <2>1, Groups
    <2>3. n < CeilDiv(Len(below), width) => len = width
        BY <2>1, Groups
    <2>4. n = CeilDiv(Len(below), width) => P + len = L
        BY <2>1, Groups
    <2> HIDE DEF g, P
    <2> QED
        BY <1>2, <2>2, <2>3, <2>4
<1>4. Total(g) = End(row, size, wide, n) - (n - 1) * wide
    <2>1. Total(g) = row[n].length /\ Even(row, size, wide)
        BY ParentsEven
    <2>2. n \in 1..Len(row)
        OBVIOUS
    <2> HIDE DEF row, g, wide
    <2>3. row[n].length = End(row, size, wide, n) - (n - 1) * wide
        BY <2>1, <2>2 DEF Even
    <2> QED
        BY <2>1, <2>3
<1>5. (n - 1) * wide = P * unit /\ n * wide = P * unit + width * unit
    <2>1. n \in Nat
        BY <1>2
    <2> QED
        BY <1>1, <1>2, <2>1
<1>6. P * unit \in Nat /\ width * unit \in Nat /\ len * unit \in Nat /\ (len - 1) * unit = len * unit - unit
    BY <1>1, <1>2, <1>3
<1>7. Total(g) \in Nat
    BY <1>3, TotalTyped
<1> HIDE DEF P, g, len, row, L, m, wide
<1>8. CASE n = m
    <2>1. Total(g) = size - P * unit
        BY <1>4, <1>5, <1>8 DEF End, m
    <2>2. L * unit = P * unit + len * unit /\ (L - 1) * unit = P * unit + len * unit - unit
        BY <1>1, <1>3, <1>8
    <2> QED
        BY <1>1, <1>6, <1>7, <2>1, <2>2 DEF g, len
<1>9. CASE n # m
    <2>1. n < m
        BY <1>2, <1>9 DEF m, row
    <2>2. Total(g) = width * unit /\ len = width
        BY <1>3, <1>4, <1>5, <1>6, <1>9, <2>1 DEF End, m
    <2> QED
        BY <1>1, <1>6, <1>7, <2>2 DEF g, len
<1> QED
    BY <1>8, <1>9

(***************************************************************************)
(* The references in a row.                                                *)
(***************************************************************************)
LEMMA ChainRow ==
    ASSUME NEW bytes \in Seq(Int), NEW width \in Nat \ {0, 1}, NEW rows, Chain(rows, bytes, width),
           NEW k \in 1..Len(rows)
    PROVE  rows[k] \in Seq(Entries) /\ DOMAIN rows = 1..Len(rows) /\ DOMAIN rows[k] = 1..Len(rows[k]) /\ Len(rows[k]) \in Nat
<1>1. rows[k] \in Seq(Entries)
    BY ElementOfSeq DEF Chain
<1> QED
    BY <1>1 DEF Chain

\* An entry of the k-th row was made there or promoted from the row below, and
\* its reference is among those of the chunks made.
HasRefs(rows, width, k) ==
    \A i \in 1..Len(rows[k]) :
        LET ref == rows[k][i].ref
        IN  /\ ref = Ref(ref.row, ref.at, 0) /\ ref.row \in 1..k /\ ref \in Made(rows, ref.row)
            /\ ref.row = k => ref.at = i /\ (k > 1 => Len(Group(rows[k - 1], i, width)) # 1)
            /\ ref.row # k => k > 1 /\ Len(Group(rows[k - 1], i, width)) = 1

LEMMA RefsKept ==
    ASSUME NEW bytes \in Seq(Int), NEW width \in Nat \ {0, 1}, NEW rows, Chain(rows, bytes, width),
           NEW k \in 1..Len(rows)
    PROVE  HasRefs(rows, width, k)
<1> DEFINE L == Len(rows)
           Good == {n \in Nat : n + 1 \in 1..L => HasRefs(rows, width, n + 1)}
<1>0. /\ rows \in Seq(Seq(Entries)) /\ L \in Nat /\ L >= 1 /\ rows[1] = Leaves(bytes)
      /\ \A j \in 1..(L - 1) : Len(rows[j]) > 1 /\ rows[j + 1] = Parents(rows[j], j + 1, width)
    BY DEF Chain
<1>1. ASSUME NEW j \in 1..L, NEW i \in 1..Len(rows[j]), rows[j][i].ref = Ref(j, i, 0)
      PROVE  rows[j][i].ref.row = j /\ rows[j][i].ref.at = i /\ rows[j][i].ref \in Made(rows, j)
    <2>1. DOMAIN rows[j] = 1..Len(rows[j])
        BY ChainRow
    <2>2. Ref(j, i, 0).row = j /\ Ref(j, i, 0).at = i
        BY DEF Ref
    <2> QED
        BY <1>1, <2>1, <2>2 DEF Made
<1>2. HasRefs(rows, width, 1)
    <2>1. ASSUME NEW i \in 1..Len(rows[1]) PROVE rows[1][i].ref = Ref(1, i, 0)
        <3>1. rows[1][i] = Entry(1, i, Len(Group(bytes, i, PayloadSize)))
            BY <1>0, LeavesOf
        <3> QED
            BY <3>1 DEF Entry
    <2>2. 1 \in 1..L
        BY <1>0
    <2> QED
        BY <1>1, <2>1, <2>2 DEF HasRefs
<1>3. ASSUME NEW j \in 1..(L - 1), HasRefs(rows, width, j) PROVE HasRefs(rows, width, j + 1)
    <2>1. /\ rows[j] \in Seq(Entries) /\ Len(rows[j]) > 1 /\ rows[j + 1] = Parents(rows[j], j + 1, width)
          /\ j \in 1..L /\ j + 1 \in 1..L /\ j + 1 \in Nat /\ j + 1 > 1 /\ (j + 1) - 1 = j
        BY <1>0, ChainRow
    <2>2. /\ Len(rows[j + 1]) = CeilDiv(Len(rows[j]), width)
          /\ \A i \in 1..Len(rows[j + 1]) : rows[j + 1][i] = Parent(Group(rows[j], i, width), j + 1, i)
        <3> DEFINE below == rows[j]
                   above == Parents(below, j + 1, width)
                   m == CeilDiv(Len(below), width)
        <3>1. below \in Seq(Entries) /\ width \in Nat \ {0} /\ j + 1 \in Nat /\ rows[j + 1] = above
            BY <2>1
        <3> HIDE DEF below
        <3>2. Len(above) = m
            BY <3>1, ParentsOf
        <3>3. \A i \in 1..m : above[i] = Parent(Group(below, i, width), j + 1, i)
            BY <3>1, ParentsOf
        <3> HIDE DEF above, m
        <3>4. Len(rows[j + 1]) = m /\ \A i \in 1..Len(rows[j + 1]) : rows[j + 1][i] = Parent(Group(below, i, width), j + 1, i)
            BY <3>1, <3>2, <3>3
        <3> QED
            BY <3>4 DEF below, m
    <2>3. ASSUME NEW i \in 1..Len(rows[j + 1])
          PROVE  LET ref == rows[j + 1][i].ref
                 IN  /\ ref = Ref(ref.row, ref.at, 0) /\ ref.row \in 1..(j + 1) /\ ref \in Made(rows, ref.row)
                     /\ ref.row = j + 1 => ref.at = i /\ (j + 1 > 1 => Len(Group(rows[(j + 1) - 1], i, width)) # 1)
                     /\ ref.row # j + 1 => j + 1 > 1 /\ Len(Group(rows[(j + 1) - 1], i, width)) = 1
        <3> DEFINE g == Group(rows[j], i, width)
        <3>1. rows[j + 1][i] = Parent(g, j + 1, i)
            BY <2>2
        <3>2. CASE Len(g) = 1
            <4> DEFINE at == (i - 1) * width + 1
            <4>1. rows[j + 1][i] = rows[j][at] /\ at \in 1..Len(rows[j])
                <5>1. /\ (i - 1) * width \in Nat /\ (i - 1) * width + Len(g) <= Len(rows[j])
                      /\ \A n \in 1..Len(g) : g[n] = rows[j][(i - 1) * width + n]
                    <6> DEFINE below == rows[j]
                    <6>1. width \in Nat \ {0} /\ i \in 1..CeilDiv(Len(below), width) /\ below \in Seq(Entries)
                        BY <2>1, <2>2
                    <6> HIDE DEF below
                    <6>2. (i - 1) * width \in Nat /\ (i - 1) * width + Len(Group(below, i, width)) <= Len(below)
                        BY <6>1, Groups
                    <6>3. \A n \in 1..Len(Group(below, i, width)) : Group(below, i, width)[n] = below[(i - 1) * width + n]
                        BY <6>1, Groups
                    <6> QED
                        BY <6>2, <6>3 DEF below
                <5>2. g[1] = rows[j][at]
                    BY <3>2, <5>1
                <5> HIDE DEF g
                <5>3. at \in 1..Len(rows[j])
                    BY <2>1, <3>2, <5>1
                <5> QED
                    BY <3>1, <3>2, <5>2, <5>3 DEF Parent
            <4> DEFINE ref == rows[j][at].ref
            <4>2. ref = Ref(ref.row, ref.at, 0) /\ ref.row \in 1..j /\ ref \in Made(rows, ref.row)
                BY <1>3, <4>1 DEF HasRefs
            <4> HIDE DEF at
            <4>3. rows[j + 1][i].ref = ref /\ ref.row # j + 1 /\ ref.row \in 1..(j + 1)
                <5>1. rows[j + 1][i].ref = ref /\ ref.row \in 1..j
                    BY <4>1, <4>2
                <5>2. j \in Int
                    BY <2>1
                <5> HIDE DEF ref
                <5> QED
                    BY <5>1, <5>2
            <4> HIDE DEF ref
            <4> QED
                BY <2>1, <3>2, <4>2, <4>3
        <3>3. CASE Len(g) # 1
            <4>1. rows[j + 1][i].ref = Ref(j + 1, i, 0)
                BY <3>1, <3>3 DEF Parent, Entry
            <4>2. /\ rows[j + 1][i].ref.row = j + 1 /\ rows[j + 1][i].ref.at = i
                  /\ rows[j + 1][i].ref \in Made(rows, j + 1)
                BY <1>1, <2>1, <4>1
            <4> QED
                BY <2>1, <3>3, <4>1, <4>2
        <3> QED
            BY <3>2, <3>3
    <2> QED
        BY <2>3 DEF HasRefs
<1>4. 0 \in Good
    BY <1>2
<1>5. ASSUME NEW n \in Good PROVE n + 1 \in Good
    <2>1. n \in Nat /\ (n + 1 \in 1..L => HasRefs(rows, width, n + 1))
        OBVIOUS
    <2>2. ASSUME (n + 1) + 1 \in 1..L PROVE HasRefs(rows, width, (n + 1) + 1)
        <3>1. n + 1 \in 1..(L - 1) /\ n + 1 \in 1..L
            BY <1>0, <2>1, <2>2
        <3> QED
            BY <1>3, <2>1, <3>1
    <2> QED
        BY <2>1, <2>2
<1>6. Good = Nat
    <2>1. Good \in SUBSET Nat
        OBVIOUS
    <2> HIDE DEF Good
    <2> QED
        BY <1>4, <1>5, <2>1, SetInduction
<1>7. k - 1 \in Good /\ (k - 1) + 1 = k
    <2>1. k - 1 \in Nat /\ (k - 1) + 1 = k
        OBVIOUS
    <2> HIDE DEF Good
    <2> QED
        BY <1>6, <2>1
<1> QED
    BY <1>7

(***************************************************************************)
(* The chunks of a tree.                                                   *)
(***************************************************************************)
LEMMA ShapeOf ==
    ASSUME NEW level \in Levels
    PROVE  GroupShape(level).data \in Nat \ {0, 1} /\ GroupShape(level).parity \in Nat /\ level \in Nat
<1>1. GroupShape(level) \in [data : Nat \ {0, 1}, parity : Nat]
    BY ShapeAssumption
<1>2. level \in Nat
    BY ChunkAssumption DEF Levels
<1> QED
    BY <1>1, <1>2

\* The rows of a tree, and the references of the chunks made in them.
RowsOf(bytes, level) == Rows(bytes, GroupShape(level).data)
Data(rows) == UNION {Made(rows, row) : row \in DOMAIN rows}
Parity(rows, shards) == {[ref EXCEPT !.parity = n] : ref \in {r \in Data(rows) : r.row > 1}, n \in 1..shards}

LEMMA TreeRows ==
    ASSUME NEW bytes \in Seq(Int), NEW level \in Levels
    PROVE  /\ Chain(RowsOf(bytes, level), bytes, GroupShape(level).data)
           /\ Len(RowsOf(bytes, level)) \in Nat /\ Len(RowsOf(bytes, level)) >= 1
           /\ DOMAIN RowsOf(bytes, level) = 1..Len(RowsOf(bytes, level))
           /\ Len(RowsOf(bytes, level)[Len(RowsOf(bytes, level))]) <= 1
<1> DEFINE rows == RowsOf(bytes, level)
<1>1. Chain(rows, bytes, GroupShape(level).data) /\ Len(Last(rows)) <= 1
    BY RowsGrown, ShapeOf DEF RowsOf
<1> HIDE DEF rows
<1>2. rows \in Seq(Seq(Entries)) /\ Len(rows) >= 1
    BY <1>1 DEF Chain
<1>3. Len(rows) \in Nat /\ DOMAIN rows = 1..Len(rows)
    BY <1>2
<1> QED
    BY <1>1, <1>2, <1>3 DEF rows, Last

LEMMA TreeChunks ==
    ASSUME NEW bytes \in Seq(Int), NEW level \in Levels
    PROVE  /\ Split(bytes, level).root = Last(RowsOf(bytes, level))[1].ref
           /\ DOMAIN Split(bytes, level).chunks =
                  Data(RowsOf(bytes, level)) \union Parity(RowsOf(bytes, level), GroupShape(level).parity)
           /\ \A ref \in DOMAIN Split(bytes, level).chunks :
                  Split(bytes, level).chunks[ref] = Chunk(bytes, level, RowsOf(bytes, level), ref)
BY DEF Split, RowsOf, Data, Parity

\* A reference made is that of an entry, of a group of more than one.
LEMMA DataMade ==
    ASSUME NEW bytes \in Seq(Int), NEW level \in Levels, NEW ref \in Data(RowsOf(bytes, level))
    PROVE  LET rows == RowsOf(bytes, level)
           IN  /\ ref.row \in 1..Len(rows) /\ ref.at \in 1..Len(rows[ref.row]) /\ ref.parity = 0
               /\ ref = rows[ref.row][ref.at].ref /\ ref = Ref(ref.row, ref.at, 0)
               /\ ref.row > 1 => Len(Group(rows[ref.row - 1], ref.at, GroupShape(level).data)) # 1
<1> DEFINE rows == RowsOf(bytes, level)
           W == GroupShape(level).data
<1>1. Chain(rows, bytes, W) /\ Len(rows) \in Nat /\ DOMAIN rows = 1..Len(rows) /\ W \in Nat \ {0, 1}
    BY TreeRows, ShapeOf
<1> HIDE DEF rows, W
<1>2. PICK k \in 1..Len(rows) : ref \in Made(rows, k)
    BY <1>1 DEF Data, rows
<1>3. HasRefs(rows, W, k) /\ DOMAIN rows[k] = 1..Len(rows[k])
    BY <1>1, RefsKept, ChainRow
<1>4. PICK n \in 1..Len(rows[k]) : ref = rows[k][n].ref /\ ref.row = k
    BY <1>2, <1>3 DEF Made
<1>5. ref = Ref(ref.row, ref.at, 0) /\ ref.at = n /\ (k > 1 => Len(Group(rows[k - 1], n, W)) # 1)
    BY <1>3, <1>4 DEF HasRefs
<1>6. ref.parity = 0
    BY <1>5 DEF Ref
<1> QED
    BY <1>4, <1>5, <1>6 DEF rows, W

\* Every entry's chunk is stored.
LEMMA EntriesStored ==
    ASSUME NEW bytes \in Seq(Int), NEW level \in Levels, NEW k \in 1..Len(RowsOf(bytes, level)),
           NEW i \in 1..Len(RowsOf(bytes, level)[k])
    PROVE  LET ref == RowsOf(bytes, level)[k][i].ref
           IN  ref \in Data(RowsOf(bytes, level)) /\ ref \in DOMAIN Split(bytes, level).chunks /\ ref.row \in 1..k
<1> DEFINE rows == RowsOf(bytes, level)
           W == GroupShape(level).data
           ref == rows[k][i].ref
<1>1. Chain(rows, bytes, W) /\ Len(rows) \in Nat /\ DOMAIN rows = 1..Len(rows) /\ W \in Nat \ {0, 1}
    BY TreeRows, ShapeOf
<1>2. HasRefs(rows, W, k)
    BY <1>1, RefsKept
<1>3. k \in 1..Len(rows) /\ i \in 1..Len(rows[k])
    OBVIOUS
<1>4. DOMAIN Split(bytes, level).chunks = Data(rows) \union Parity(rows, GroupShape(level).parity)
    BY TreeChunks
<1> HIDE DEF rows, W
<1>5. ref.row \in 1..k /\ ref \in Made(rows, ref.row)
    BY <1>2, <1>3 DEF HasRefs
<1>6. ref \in Data(rows)
    <2>1. ref.row \in DOMAIN rows
        BY <1>1, <1>3, <1>5
    <2> HIDE DEF ref
    <2> QED
        BY <1>5, <2>1 DEF Data
<1> HIDE DEF ref
<1> QED
    BY <1>4, <1>5, <1>6 DEF rows, ref

\* What the chunk of a reference is.
LEMMA ChunkKinds ==
    ASSUME NEW bytes \in Seq(Int), NEW level \in Levels, NEW ref \in DOMAIN Split(bytes, level).chunks
    PROVE  LET rows == RowsOf(bytes, level)
               chunk == Split(bytes, level).chunks[ref]
           IN  /\ ref.parity \in Nat
               /\ ref.parity > 0 => chunk = ParityChunk
               /\ ref.parity = 0 => ref \in Data(rows)
               /\ ref.parity = 0 /\ ref.row = 1 => chunk = Leaf(Group(bytes, ref.at, PayloadSize))
               /\ ref.parity = 0 /\ ref.row > 1 =>
                      chunk = Intermediate(Group(rows[ref.row - 1], ref.at, GroupShape(level).data), ref, level)
<1> DEFINE rows == RowsOf(bytes, level)
           chunk == Split(bytes, level).chunks[ref]
           p == GroupShape(level).parity
<1>1. chunk = Chunk(bytes, level, rows, ref) /\ (ref \in Data(rows) \/ ref \in Parity(rows, p)) /\ p \in Nat
    BY TreeChunks, ShapeOf
<1>2. ASSUME ref \in Data(rows) PROVE ref.parity = 0 /\ ref.row \in Nat
    BY <1>2, DataMade, TreeRows
<1> HIDE DEF rows, chunk, p
<1>3. ASSUME ref \in Parity(rows, p) PROVE ref.parity \in Nat /\ ref.parity > 0
    <2>1. PICK r \in Data(rows), n \in 1..p : ref = [r EXCEPT !.parity = n]
        BY <1>3 DEF Parity
    <2>2. r = Ref(r.row, r.at, 0)
        BY DataMade DEF rows
    <2>3. ref.parity = n
        BY <2>1, <2>2 DEF Ref
    <2> QED
        BY <1>1, <2>3
<1>4. ref.parity \in Nat /\ (ref.parity = 0 => ref \in Data(rows))
    BY <1>1, <1>2, <1>3
<1>5. ref.parity > 0 => chunk = ParityChunk
    BY <1>1, <1>4 DEF Chunk
<1>6. ref.parity = 0 /\ ref.row = 1 => chunk = Leaf(Group(bytes, ref.at, PayloadSize))
    BY <1>1, <1>4 DEF Chunk
<1>7. ASSUME ref.parity = 0, ref.row > 1
      PROVE  chunk = Intermediate(Group(rows[ref.row - 1], ref.at, GroupShape(level).data), ref, level)
    <2>1. ref.row \in Nat /\ ref.row # 1 /\ ~(ref.parity > 0)
        BY <1>2, <1>4, <1>7
    <2> QED
        BY <1>1, <1>7, <2>1 DEF Chunk
<1> QED
    BY <1>4, <1>5, <1>6, <1>7 DEF rows, chunk

LEMMA RowsEven ==
    ASSUME NEW bytes \in Seq(Int), NEW level \in Levels, NEW k \in 1..Len(RowsOf(bytes, level))
    PROVE  \E unit : Even(RowsOf(bytes, level)[k], Len(bytes), unit)
<1> DEFINE rows == RowsOf(bytes, level)
           W == GroupShape(level).data
           L == Len(rows)
           size == Len(bytes)
           Good == {n \in Nat : n + 1 \in 1..L => \E unit : Even(rows[n + 1], size, unit)}
<1>1. /\ L \in Nat /\ L >= 1 /\ rows[1] = Leaves(bytes) /\ W \in Nat \ {0, 1} /\ k \in 1..L
      /\ \A j \in 1..(L - 1) : Len(rows[j]) > 1 /\ rows[j + 1] = Parents(rows[j], j + 1, W)
    BY TreeRows, ShapeOf DEF Chain
<1> HIDE DEF rows, W, L, size
<1>2. \E unit : Even(rows[1], size, unit)
    BY <1>1, LeavesEven DEF size
<1>3. 0 \in Good
    BY <1>2
<1>4. ASSUME NEW n \in Good PROVE n + 1 \in Good
    <2>1. n \in Nat /\ (n + 1 \in 1..L => \E unit : Even(rows[n + 1], size, unit))
        OBVIOUS
    <2>2. ASSUME NEW j \in Nat, j = n + 1, j + 1 \in 1..L PROVE \E unit : Even(rows[j + 1], size, unit)
        <3>1. j \in 1..L /\ j \in 1..(L - 1) /\ j + 1 \in Nat
            BY <1>1, <2>1, <2>2
        <3>2. PICK unit : Even(rows[j], size, unit)
            BY <2>1, <2>2, <3>1
        <3>3. Even(Parents(rows[j], j + 1, W), size, W * unit)
            BY <1>1, <3>1, <3>2, ParentsEven
        <3> QED
            BY <1>1, <3>1, <3>3
    <2> QED
        BY <2>1, <2>2
<1>5. Good = Nat
    <2>1. Good \in SUBSET Nat
        OBVIOUS
    <2> HIDE DEF Good
    <2> QED
        BY <1>3, <1>4, <2>1, SetInduction
<1>6. k - 1 \in Good /\ (k - 1) + 1 = k
    <2>1. k - 1 \in Nat /\ (k - 1) + 1 = k
        BY <1>1
    <2> HIDE DEF Good
    <2> QED
        BY <1>5, <2>1
<1>7. \E unit : Even(rows[k], size, unit)
    BY <1>1, <1>6
<1> QED
    BY <1>7 DEF rows, size

\* A chunk above the leaves wraps a group of two or more entries, of more bytes than fit in a leaf.
LEMMA Wraps ==
    ASSUME NEW bytes \in Seq(Int), NEW level \in Levels, NEW k \in Nat, k + 1 \in 1..Len(RowsOf(bytes, level)), k >= 1,
           NEW n \in 1..Len(RowsOf(bytes, level)[k + 1]),
           NEW unit, Even(RowsOf(bytes, level)[k], Len(bytes), unit)
    PROVE  LET rows == RowsOf(bytes, level)
               W == GroupShape(level).data
               g == Group(rows[k], n, W)
           IN  /\ g \in Seq(Entries) /\ Len(g) \in 1..W /\ (n - 1) * W \in Nat
               /\ Total(g) \in Nat /\ (Len(g) - 1) * unit < Total(g) /\ Total(g) <= Len(g) * unit
               /\ rows[k + 1][n].length = Total(g)
               /\ Len(g) # 1 => Len(g) >= 2 /\ PayloadSize < Total(g) /\ unit < Total(g) /\ g[1].length = unit
               /\ \A i \in 1..Len(g) : (n - 1) * W + i \in 1..Len(rows[k]) /\ g[i] = rows[k][(n - 1) * W + i]
               /\ n < Len(rows[k + 1]) => Len(g) = W
               /\ n = Len(rows[k + 1]) => (n - 1) * W + Len(g) = Len(rows[k])
<1> DEFINE rows == RowsOf(bytes, level)
           W == GroupShape(level).data
           below == rows[k]
           row == rows[k + 1]
           g == Group(below, n, W)
           P == (n - 1) * W
           L == Len(below)
           size == Len(bytes)
<1>1. /\ W \in Nat \ {0, 1} /\ Len(below) > 1 /\ row = Parents(below, k + 1, W)
      /\ k + 1 \in Nat /\ Even(below, size, unit) /\ n \in 1..Len(row)
    <2>1. /\ \A j \in 1..(Len(rows) - 1) : Len(rows[j]) > 1 /\ rows[j + 1] = Parents(rows[j], j + 1, W)
          /\ Len(rows) \in Nat
        BY TreeRows DEF Chain
    <2>2. k \in 1..(Len(rows) - 1)
        BY <2>1
    <2> HIDE DEF rows
    <2> QED
        BY <2>1, <2>2, ShapeOf DEF rows
<1> HIDE DEF rows, W, size
<1>2. /\ below \in Seq(Entries) /\ L \in Nat /\ unit \in Nat /\ unit >= PayloadSize /\ PayloadSize \in Nat \ {0}
      /\ \A i \in 1..L : below[i].length = End(below, size, unit, i) - (i - 1) * unit
    BY <1>1, ChunkAssumption DEF Even
<1> HIDE DEF below, row
<1>3. n \in 1..Len(Parents(below, k + 1, W)) /\ W \in Nat \ {0}
    BY <1>1
<1>4. Total(g) \in Nat /\ (Len(g) - 1) * unit < Total(g) /\ Total(g) <= Len(g) * unit
    BY <1>1, <1>3, GroupTotals
<1>5. Total(g) = row[n].length
    <2>1. Total(g) = Parents(below, k + 1, W)[n].length
        BY <1>1, <1>3, ParentsEven
    <2> QED
        BY <1>1, <2>1
<1>6. Len(row) = CeilDiv(L, W) /\ n \in 1..CeilDiv(L, W)
    <2>1. Len(Parents(below, k + 1, W)) = CeilDiv(L, W)
        BY <1>1, <1>2, <1>3, ParentsOf
    <2> QED
        BY <1>1, <2>1
<1>7. /\ P \in Nat /\ g \in Seq(Entries) /\ Len(g) \in 1..W /\ P + Len(g) <= L
      /\ \A i \in 1..Len(g) : g[i] = below[P + i]
    <2>1. below \in Seq(Entries) /\ W \in Nat \ {0} /\ n \in 1..CeilDiv(Len(below), W)
        BY <1>2, <1>3, <1>6
    <2>2. P \in Nat /\ g \in Seq(Entries)
        BY <2>1, Groups
    <2>3. Len(g) \in 1..W
        BY <2>1, Groups
    <2>4. P + Len(g) <= L
        BY <2>1, Groups
    <2>5. \A i \in 1..Len(g) : g[i] = below[P + i]
        BY <2>1, Groups
    <2> QED
        BY <2>2, <2>3, <2>4, <2>5
<1>8. (n < Len(row) => Len(g) = W) /\ (n = Len(row) => P + Len(g) = L)
    <2>1. n < CeilDiv(L, W) => Len(g) = W
        BY <1>2, <1>3, <1>6, Groups
    <2>2. n = CeilDiv(L, W) => P + Len(g) = L
        BY <1>2, <1>3, <1>6, Groups
    <2> QED
        BY <1>6, <2>1, <2>2
<1> HIDE DEF g, P, L
<1>9. Len(g) \in Nat /\ Len(g) >= 1 /\ P \in Nat /\ P + Len(g) <= L /\ L \in Nat
    <2>1. W \in Nat /\ Len(g) \in 1..W /\ P \in Nat /\ P + Len(g) <= L
        BY <1>3, <1>7
    <2>2. Len(g) \in Nat /\ Len(g) >= 1
        BY <2>1
    <2> QED
        BY <1>2, <2>1, <2>2
<1>10. \A i \in 1..Len(g) : P + i \in 1..L
    BY <1>9
<1>11. ASSUME Len(g) # 1 PROVE Len(g) >= 2 /\ PayloadSize < Total(g) /\ unit < Total(g) /\ g[1].length = unit
    <2>1. Len(g) >= 2 /\ Len(g) \in Nat
        <3>1. \A x \in Nat : x >= 1 /\ x # 1 => x >= 2
            OBVIOUS
        <3> QED
            BY <1>11, <1>9, <3>1
    <2>2. 1 * unit <= (Len(g) - 1) * unit
        <3>1. 1 <= Len(g) - 1 /\ Len(g) - 1 \in Int /\ 1 \in Int
            BY <2>1
        <3> QED
            BY <1>2, <3>1, TimesMonotone
    <2>3. 1 * unit = unit /\ (Len(g) - 1) * unit \in Nat
        <3>1. \A x, y \in Nat : x * y \in Nat
            OBVIOUS
        <3>2. Len(g) - 1 \in Nat
            BY <2>1
        <3>3. (Len(g) - 1) * unit \in Nat
            BY <1>2, <3>1, <3>2, Zenon
        <3>4. 1 * unit = unit
            BY <1>2
        <3> QED
            BY <3>3, <3>4
    <2>4. g[1] = below[P + 1] /\ P + 1 \in 1..L /\ P + 1 # L
        BY <1>2, <1>7, <1>10, <2>1
    <2>5. below[P + 1].length = (P + 1) * unit - ((P + 1) - 1) * unit
        BY <1>2, <2>4 DEF End, L
    <2>6. (P + 1) * unit - ((P + 1) - 1) * unit = unit
        BY <1>2, <1>7
    <2> QED
        <3>1. unit < Total(g) /\ PayloadSize < Total(g)
            <4> DEFINE most == (Len(g) - 1) * unit
            <4>1. unit <= most /\ most < Total(g) /\ most \in Nat
                BY <1>4, <2>2, <2>3
            <4> HIDE DEF most
            <4> QED
                BY <1>2, <1>4, <4>1
        <3> QED
            BY <2>1, <2>4, <2>5, <2>6, <3>1
<1> QED
    BY <1>4, <1>5, <1>7, <1>8, <1>10, <1>11 DEF g, P, L, below, row, rows, W

(***************************************************************************)
(* What a reader may rely on in a store of chunks: spans that are numbers, *)
(* references to chunks further down, leaves that hold what they span.     *)
(***************************************************************************)
Rank(ref) == IF ref.parity > 0 THEN 0 ELSE ref.row

Sound(chunks, ref) ==
    /\ Rank(ref) \in Nat /\ DecodeSpan(chunks[ref]) \in Nat
    /\ chunks[ref].payload \in Seq(Int) /\ chunks[ref].refs \in Seq(DOMAIN chunks)
    /\ \A n \in 1..Len(chunks[ref].refs) : Rank(chunks[ref].refs[n]) < Rank(ref)
    /\ DecodeSpan(chunks[ref]) <= PayloadSize => DecodeSpan(chunks[ref]) <= Len(chunks[ref].payload)

Store(chunks) == \A ref \in DOMAIN chunks : Sound(chunks, ref)

\* The leaves of a tree are slices of its content.
LEMMA LeafHolds ==
    ASSUME NEW bytes \in Seq(Int), NEW level \in Levels, NEW n \in 1..Len(RowsOf(bytes, level)[1])
    PROVE  LET g == Group(bytes, n, PayloadSize)
               low == (n - 1) * PayloadSize
           IN  /\ g \in Seq(Int) /\ Len(g) \in Nat /\ Len(g) <= PayloadSize /\ RowsOf(bytes, level)[1][n].length = Len(g)
               /\ low \in Nat /\ low + Len(g) <= Len(bytes) /\ \A i \in 1..Len(g) : g[i] = bytes[low + i]
<1> DEFINE row == Leaves(bytes)
           g == Group(bytes, n, PayloadSize)
           low == (n - 1) * PayloadSize
<1>1. RowsOf(bytes, level)[1] = row /\ n \in 1..Len(row)
    BY TreeRows DEF Chain
<1>2. /\ Len(row) = IF Len(bytes) = 0 THEN 1 ELSE CeilDiv(Len(bytes), PayloadSize)
      /\ Len(bytes) = 0 => Group(bytes, 1, PayloadSize) = <<>>
    <2>1. Len(row) = IF Len(bytes) = 0 THEN 1 ELSE CeilDiv(Len(bytes), PayloadSize)
        BY LeavesOf
    <2>2. Len(bytes) = 0 => Group(bytes, 1, PayloadSize) = <<>>
        BY LeavesOf
    <2> QED
        BY <2>1, <2>2
<1>3. row[n].length = Len(g)
    <2>1. row[n] = Entry(1, n, Len(g))
        BY <1>1, LeavesOf
    <2>2. \A a, b, c : Entry(a, b, c).length = c
        BY DEF Entry
    <2> QED
        BY <2>1, <2>2
<1>4. PayloadSize \in Nat \ {0} /\ Len(bytes) \in Nat
    BY ChunkAssumption
<1>5. CASE Len(bytes) = 0
    <2>0. n = 1
        BY <1>1, <1>2, <1>5
    <2>1. n = 1 /\ g = <<>> /\ low = 0
        BY <1>2, <1>4, <1>5, <2>0
    <2>2. <<>> \in Seq(Int) /\ Len(<<>>) = 0
        OBVIOUS
    <2> HIDE DEF g, low, row
    <2>3. g \in Seq(Int) /\ Len(g) = 0
        BY <2>1, <2>2
    <2> QED
        BY <1>1, <1>3, <1>4, <1>5, <2>1, <2>3 DEF g, low
<1>6. CASE Len(bytes) # 0
    <2>1. n \in 1..CeilDiv(Len(bytes), PayloadSize)
        BY <1>1, <1>2, <1>6
    <2>2. g \in Seq(Int) /\ low \in Nat
        BY <1>4, <2>1, Groups
    <2>3. Len(g) \in 1..PayloadSize
        BY <1>4, <2>1, Groups
    <2>4. low + Len(g) <= Len(bytes)
        BY <1>4, <2>1, Groups
    <2>5. \A i \in 1..Len(g) : g[i] = bytes[low + i]
        BY <1>4, <2>1, Groups
    <2> HIDE DEF g, low, row
    <2>6. Len(g) \in Nat /\ Len(g) <= PayloadSize
        BY <1>4, <2>3
    <2> QED
        BY <1>1, <1>3, <2>2, <2>4, <2>5, <2>6 DEF g, low
<1> QED
    BY <1>5, <1>6

LEMMA LeafSpans ==
    ASSUME NEW S, NEW payload \in Seq(S)
    PROVE  DecodeSpan(Leaf(payload)) = Len(payload) /\ Leaf(payload).payload = payload /\ Leaf(payload).refs = <<>>
<1>1. 0 * SpanBase + Len(payload) = Len(payload)
    BY ChunkAssumption
<1> QED
    BY <1>1 DEF DecodeSpan, Leaf

LEMMA WrapSpans ==
    ASSUME NEW group \in Seq(Entries), NEW ref, NEW level \in Levels
    PROVE  LET chunk == Intermediate(group, ref, level)
           IN  /\ DecodeSpan(chunk) = Total(group) /\ chunk.payload = <<>>
               /\ chunk.refs = [n \in 1..Len(group) |-> group[n].ref] \o
                               [n \in 1..GroupShape(level).parity |-> [ref EXCEPT !.parity = n]]
<1>1. 0 * SpanBase + Total(group) = Total(group)
    BY ChunkAssumption, TotalTyped
<1>2. level # 0 => 128 + level > 128
    BY ShapeOf
<1> QED
    BY <1>1, <1>2 DEF DecodeSpan, Intermediate

LEMMA StoreMade ==
    ASSUME NEW bytes \in Seq(Int), NEW level \in Levels
    PROVE  Store(Split(bytes, level).chunks)
<1> DEFINE rows == RowsOf(bytes, level)
           W == GroupShape(level).data
           p == GroupShape(level).parity
           chunks == Split(bytes, level).chunks
<1>0. PayloadSize \in Nat \ {0} /\ p \in Nat /\ Len(rows) \in Nat
    BY ChunkAssumption, ShapeOf, TreeRows
<1> SUFFICES ASSUME NEW ref \in DOMAIN chunks PROVE Sound(chunks, ref)
    BY DEF Store
<1>1. /\ ref.parity \in Nat
      /\ ref.parity > 0 => chunks[ref] = ParityChunk
      /\ ref.parity = 0 => ref \in Data(rows)
      /\ ref.parity = 0 /\ ref.row = 1 => chunks[ref] = Leaf(Group(bytes, ref.at, PayloadSize))
      /\ ref.parity = 0 /\ ref.row > 1 => chunks[ref] = Intermediate(Group(rows[ref.row - 1], ref.at, W), ref, level)
    BY ChunkKinds
<1>2. ASSUME NEW payload \in Seq(Int), chunks[ref] = Leaf(payload), Rank(ref) \in Nat PROVE Sound(chunks, ref)
    <2>1. DecodeSpan(chunks[ref]) = Len(payload) /\ chunks[ref].payload = payload /\ chunks[ref].refs = <<>>
        BY <1>2, LeafSpans
    <2>2. Len(payload) \in Nat /\ <<>> \in Seq(DOMAIN chunks) /\ Len(<<>>) = 0
        OBVIOUS
    <2> HIDE DEF chunks
    <2> QED
        BY <1>2, <2>1, <2>2 DEF Sound
<1>3. CASE ref.parity > 0
    <2>1. <<0>> \in Seq(Int) /\ Rank(ref) \in Nat
        BY <1>3 DEF Rank
    <2>2. chunks[ref] = Leaf(<<0>>)
        BY <1>1, <1>3 DEF ParityChunk
    <2> HIDE DEF chunks
    <2> QED
        BY <1>2, <2>1, <2>2
<1>4. CASE ref.parity = 0
    <2>0. /\ ref.row \in 1..Len(rows) /\ ref.at \in 1..Len(rows[ref.row]) /\ Rank(ref) = ref.row
          /\ ref = rows[ref.row][ref.at].ref /\ ref = Ref(ref.row, ref.at, 0)
          /\ ref.row > 1 => Len(Group(rows[ref.row - 1], ref.at, W)) # 1
        <3>1. ref \in Data(rows)
            BY <1>1, <1>4
        <3> QED
            BY <1>4, <3>1, DataMade DEF Rank
    <2>1. CASE ref.row = 1
        <3>1. Group(bytes, ref.at, PayloadSize) \in Seq(Int)
            BY <2>0, <2>1, LeafHolds
        <3>2. Rank(ref) \in Nat
            BY <2>0, <2>1
        <3> QED
            BY <1>1, <1>2, <1>4, <2>1, <3>1, <3>2
    <2>2. CASE ref.row > 1
        <3> DEFINE k == ref.row - 1
                   g == Group(rows[k], ref.at, W)
                   P == (ref.at - 1) * W
        <3>1. k \in Nat /\ k >= 1 /\ k + 1 = ref.row /\ k \in 1..Len(rows) /\ k + 1 \in 1..Len(rows)
            BY <1>0, <2>0, <2>2
        <3>2. PICK unit : Even(rows[k], Len(bytes), unit)
            BY <3>1, RowsEven
        <3>3. ref.at \in 1..Len(rows[k + 1])
            BY <2>0, <3>1
        <3>4. /\ g \in Seq(Entries) /\ Len(g) \in Nat /\ Total(g) \in Nat /\ PayloadSize < Total(g)
              /\ \A i \in 1..Len(g) : P + i \in 1..Len(rows[k]) /\ g[i] = rows[k][P + i]
            <4>1. Len(g) # 1
                BY <2>0, <2>2
            <4>2. g \in Seq(Entries) /\ Total(g) \in Nat
                BY <3>1, <3>2, <3>3, Wraps
            <4>3. PayloadSize < Total(g)
                BY <3>1, <3>2, <3>3, <4>1, Wraps
            <4>4. \A i \in 1..Len(g) : P + i \in 1..Len(rows[k]) /\ g[i] = rows[k][P + i]
                BY <3>1, <3>2, <3>3, Wraps
            <4> QED
                BY <4>2, <4>3, <4>4
        <3>5. chunks[ref] = Intermediate(g, ref, level)
            BY <1>1, <1>4, <2>2
        <3>6. \A i \in 1..Len(g) : g[i].ref \in DOMAIN chunks /\ Rank(g[i].ref) < Rank(ref)
            <4> SUFFICES ASSUME NEW i \in 1..Len(g) PROVE g[i].ref \in DOMAIN chunks /\ Rank(g[i].ref) < Rank(ref)
                OBVIOUS
            <4> DEFINE child == rows[k][P + i].ref
            <4>1. P + i \in 1..Len(rows[k]) /\ g[i].ref = child
                BY <3>4
            <4>2. child \in Data(rows) /\ child \in DOMAIN chunks /\ child.row \in 1..k
                BY <3>1, <4>1, EntriesStored
            <4>3. child.parity = 0
                BY <4>2, DataMade
            <4> HIDE DEF child
            <4>4. Rank(child) = child.row
                BY <4>3 DEF Rank
            <4> QED
                BY <2>0, <3>1, <4>1, <4>2, <4>4
        <3>7. \A n \in 1..p : [ref EXCEPT !.parity = n] \in DOMAIN chunks /\ Rank([ref EXCEPT !.parity = n]) < Rank(ref)
            <4> SUFFICES ASSUME NEW n \in 1..p
                         PROVE  [ref EXCEPT !.parity = n] \in DOMAIN chunks /\ Rank([ref EXCEPT !.parity = n]) < Rank(ref)
                OBVIOUS
            <4>1. ref \in Data(rows)
                BY <1>1, <1>4
            <4>2. [ref EXCEPT !.parity = n] \in Parity(rows, p)
                BY <2>2, <4>1 DEF Parity
            <4>3. [ref EXCEPT !.parity = n].parity = n /\ n > 0
                BY <1>0, <2>0 DEF Ref
            <4>4. [ref EXCEPT !.parity = n] \in DOMAIN chunks
                BY <4>2, TreeChunks
            <4>5. Rank([ref EXCEPT !.parity = n]) = 0
                BY <4>3 DEF Rank
            <4> QED
                BY <1>0, <2>0, <4>4, <4>5
        <3> DEFINE below == [n \in 1..Len(g) |-> g[n].ref]
                   shards == [n \in 1..p |-> [ref EXCEPT !.parity = n]]
        <3>8. /\ below \in Seq(DOMAIN chunks) /\ Len(below) = Len(g)
              /\ \A n \in 1..Len(g) : below[n] = g[n].ref
            <4> HIDE DEF g, chunks
            <4> QED
                BY <3>4, <3>6
        <3>9. /\ shards \in Seq(DOMAIN chunks) /\ Len(shards) = p
              /\ \A n \in 1..p : shards[n] = [ref EXCEPT !.parity = n]
            <4> HIDE DEF chunks, p
            <4> QED
                BY <1>0, <3>7
        <3>10. DecodeSpan(chunks[ref]) = Total(g) /\ chunks[ref].payload = <<>> /\ chunks[ref].refs = below \o shards
            <4>1. g \in Seq(Entries)
                BY <3>4
            <4> HIDE DEF g, chunks
            <4>2. DecodeSpan(Intermediate(g, ref, level)) = Total(g)
                BY <4>1, WrapSpans
            <4>3. Intermediate(g, ref, level).payload = <<>>
                BY <4>1, WrapSpans
            <4>4. Intermediate(g, ref, level).refs = below \o shards
                BY <4>1, WrapSpans
            <4> HIDE DEF below, shards
            <4> QED
                BY <3>5, <4>2, <4>3, <4>4
        <3> HIDE DEF below, shards, g, chunks, p, rows
        <3>11. /\ below \o shards \in Seq(DOMAIN chunks)
               /\ Len(below \o shards) = Len(g) + p
               /\ \A n \in 1..(Len(g) + p) : (below \o shards)[n] = IF n <= Len(g) THEN below[n] ELSE shards[n - Len(g)]
            <4>1. below \in Seq(DOMAIN chunks) /\ shards \in Seq(DOMAIN chunks) /\ Len(below) = Len(g) /\ Len(shards) = p
                BY <3>8, <3>9
            <4>2. below \o shards \in Seq(DOMAIN chunks) /\ Len(below \o shards) = Len(below) + Len(shards)
                BY <4>1, ConcatProperties
            <4>3. \A n \in 1..(Len(below) + Len(shards)) :
                      (below \o shards)[n] = IF n <= Len(below) THEN below[n] ELSE shards[n - Len(below)]
                BY <4>1, ConcatProperties
            <4> QED
                BY <4>1, <4>2, <4>3
        <3>12. \A n \in 1..(Len(g) + p) : Rank((below \o shards)[n]) < Rank(ref)
            <4> SUFFICES ASSUME NEW n \in 1..(Len(g) + p) PROVE Rank((below \o shards)[n]) < Rank(ref)
                OBVIOUS
            <4>1. CASE n <= Len(g)
                <5>1. n \in 1..Len(g)
                    BY <1>0, <3>4, <4>1
                <5> QED
                    BY <3>6, <3>8, <3>11, <4>1, <5>1
            <4>2. CASE ~(n <= Len(g))
                <5>1. n - Len(g) \in 1..p
                    BY <1>0, <3>4, <4>2
                <5> QED
                    BY <3>7, <3>9, <3>11, <4>2, <5>1
            <4> QED
                BY <4>1, <4>2
        <3>13. Rank(ref) \in Nat /\ <<>> \in Seq(Int) /\ ~(Total(g) <= PayloadSize)
            BY <1>0, <2>0, <3>4
        <3> QED
            BY <3>4, <3>10, <3>11, <3>12, <3>13 DEF Sound
    <2> QED
        BY <2>0, <2>1, <2>2, <1>0
<1> QED
    BY <1>1, <1>3, <1>4

\* Joined, sequences are a sequence.
LEMMA FlattenTyped ==
    ASSUME NEW S, NEW seqs \in Seq(Seq(S))
    PROVE  FlattenSeq(seqs) \in Seq(S)
<1>1. CASE Len(seqs) = 0
    <2>1. FlattenSeq(seqs) = seqs
        BY <1>1 DEF FlattenSeq
    <2>2. seqs = <<>>
        BY <1>1
    <2>3. <<>> \in Seq(S)
        OBVIOUS
    <2>4. seqs \in Seq(S)
        BY <2>2, <2>3, Zenon
    <2> QED
        BY <2>1, <2>4, Zenon
<1>2. CASE Len(seqs) # 0
    <2>1. Len(seqs) \in Nat /\ Len(seqs) > 0
        BY <1>2
    <2>2. PICK f \in [1..Len(seqs) -> Seq(S)] : FlattenSeq(seqs) = f[Len(seqs)]
        BY <2>1, Flattened
    <2>3. Len(seqs) \in 1..Len(seqs)
        BY <2>1
    <2>4. f[Len(seqs)] \in Seq(S)
        BY <2>2, <2>3, Zenon
    <2> QED
        BY <2>2, <2>4, Zenon
<1> QED
    BY <1>1, <1>2

\* The last multiple that a number reaches.
LEMMA Quotient ==
    ASSUME NEW m \in Nat, NEW n \in Nat \ {0}
    PROVE  m \div n \in Nat /\ (m \div n) * n <= m /\ m < (m \div n + 1) * n
OBVIOUS

\* Where the reading of a chunk goes on, and what it asks the i-th child for.
First(chunks, r) == r.start \div Unit(chunks, chunks[r.ref])

Final(chunks, r) ==
    Min({CeilDiv(r.end, Unit(chunks, chunks[r.ref])),
         CeilDiv(DecodeSpan(chunks[r.ref]), Unit(chunks, chunks[r.ref]))}) - 1

Asked(chunks, r, i) ==
    LET low == Low(chunks, chunks[r.ref], i)
        high == High(chunks, chunks[r.ref], i)
    IN  [ref |-> chunks[r.ref].refs[i + 1], start |-> Max({r.start, low}) - low, end |-> Min({r.end, high}) - low]

\* A well-formed chunk is split evenly, with references for all of it.
LEMMA Formed ==
    ASSUME NEW chunks, Store(chunks), NEW ref \in DOMAIN chunks, ~Malformed(chunks, chunks[ref])
    PROVE  /\ Unit(chunks, chunks[ref]) \in Nat \ {0} /\ DecodeSpan(chunks[ref]) \in Nat
           /\ Unit(chunks, chunks[ref]) < DecodeSpan(chunks[ref])
           /\ CeilDiv(DecodeSpan(chunks[ref]), Unit(chunks, chunks[ref])) \in Nat
           /\ Len(chunks[ref].refs) \in Nat
           /\ CeilDiv(DecodeSpan(chunks[ref]), Unit(chunks, chunks[ref])) <= Len(chunks[ref].refs)
           /\ \A n \in 1..Len(chunks[ref].refs) :
                  chunks[ref].refs[n] \in DOMAIN chunks /\ Rank(chunks[ref].refs[n]) < Rank(ref)
<1> DEFINE refs == chunks[ref].refs
           unit == Unit(chunks, chunks[ref])
           size == DecodeSpan(chunks[ref])
<1>1. refs \in Seq(DOMAIN chunks) /\ size \in Nat /\ \A n \in 1..Len(refs) : Rank(refs[n]) < Rank(ref)
    BY DEF Store, Sound
<1>2. refs # <<>> /\ unit > 0 /\ unit < size /\ ~(Len(refs) < CeilDiv(size, unit))
    BY DEF Malformed
<1>3. unit = DecodeSpan(chunks[refs[1]])
    BY DEF Unit
<1>4. refs[1] \in DOMAIN chunks
    <2> HIDE DEF refs
    <2> QED
        BY <1>1, <1>2
<1>5. unit \in Nat
    <2> HIDE DEF unit, refs
    <2> QED
        BY <1>3, <1>4 DEF Store, Sound
<1> HIDE DEF refs, unit, size
<1>6. unit \in Nat \ {0}
    BY <1>2, <1>5
<1>7. CeilDiv(size, unit) \in Nat
    BY <1>1, <1>6, Ceiling
<1>8. Len(refs) \in Nat /\ \A n \in 1..Len(refs) : refs[n] \in DOMAIN chunks
    BY <1>1
<1>9. CeilDiv(size, unit) <= Len(refs)
    BY <1>2, <1>7, <1>8
<1> QED
    BY <1>1, <1>2, <1>6, <1>7, <1>8, <1>9 DEF refs, unit, size

\* What is asked of a child can be asked of it, and the child is further down.
LEMMA ChildAsked ==
    ASSUME NEW chunks, Store(chunks), NEW r \in Requests(chunks), ~Malformed(chunks, chunks[r.ref]),
           NEW i \in Int, i >= First(chunks, r), i <= Final(chunks, r)
    PROVE  LET child == chunks[r.ref].refs[i + 1]
               low == Low(chunks, chunks[r.ref], i)
               high == High(chunks, chunks[r.ref], i)
           IN  /\ i \in Nat /\ i + 1 \in 1..CeilDiv(DecodeSpan(chunks[r.ref]), Unit(chunks, chunks[r.ref]))
               /\ child \in DOMAIN chunks /\ Rank(child) < Rank(r.ref)
               /\ low \in Nat /\ high \in Nat /\ low < r.end /\ low < high /\ high <= DecodeSpan(chunks[r.ref])
               /\ DecodeSpan(chunks[child]) = high - low => Asked(chunks, r, i) \in Requests(chunks)
<1> DEFINE refs == chunks[r.ref].refs
           unit == Unit(chunks, chunks[r.ref])
           size == DecodeSpan(chunks[r.ref])
           low == Low(chunks, chunks[r.ref], i)
           high == High(chunks, chunks[r.ref], i)
           child == refs[i + 1]
<1>1. r.ref \in DOMAIN chunks /\ r.start \in Nat /\ r.end \in Nat /\ r.end <= size
    BY DEF Requests
<1>2. /\ unit \in Nat \ {0} /\ size \in Nat /\ CeilDiv(size, unit) \in Nat /\ Len(refs) \in Nat
      /\ CeilDiv(size, unit) <= Len(refs)
      /\ \A n \in 1..Len(refs) : refs[n] \in DOMAIN chunks /\ Rank(refs[n]) < Rank(r.ref)
    BY <1>1, Formed
<1>3. low = i * unit /\ high = Min({low + unit, size})
    BY DEF Low, High
<1>4. i >= r.start \div unit /\ i <= Min({CeilDiv(r.end, unit), CeilDiv(size, unit)}) - 1
    BY DEF First, Final
<1>5. Asked(chunks, r, i) = [ref |-> child, start |-> Max({r.start, low}) - low, end |-> Min({r.end, high}) - low]
    BY DEF Asked
<1> DEFINE start == r.start
           end == r.end
<1> HIDE DEF refs, unit, size, low, high, child, start, end
<1>6. start \div unit \in Nat
    <2>1. start \in Nat
        BY <1>1 DEF start
    <2> QED
        BY <1>2, <2>1, Quotient
<1>7. i \in Nat
    BY <1>4, <1>6 DEF start
<1>8. CeilDiv(end, unit) \in Nat /\ CeilDiv(size, unit) \in Nat
    BY <1>1, <1>2, Ceiling DEF end
<1>9. i < CeilDiv(end, unit) /\ i < CeilDiv(size, unit)
    <2>1. i <= Min({CeilDiv(end, unit), CeilDiv(size, unit)}) - 1
        BY <1>4 DEF end
    <2>2. Min({CeilDiv(end, unit), CeilDiv(size, unit)}) =
              IF CeilDiv(end, unit) <= CeilDiv(size, unit) THEN CeilDiv(end, unit) ELSE CeilDiv(size, unit)
        BY <1>8, MinOfTwo
    <2> QED
        BY <1>8, <2>1, <2>2
<1>10. i * unit < end
    <2>1. \A j \in Int : j < CeilDiv(end, unit) <=> j * unit < end
        BY <1>1, <1>2, Ceiling DEF end
    <2> QED
        BY <1>9, <2>1, Zenon
<1>11. i + 1 \in 1..CeilDiv(size, unit) /\ i + 1 \in 1..Len(refs)
    BY <1>2, <1>7, <1>9
<1>12. child \in DOMAIN chunks /\ Rank(child) < Rank(r.ref)
    BY <1>2, <1>11 DEF child
<1>13. low \in Nat /\ low < end
    <2>1. \A x, y \in Nat : x * y \in Nat
        OBVIOUS
    <2>2. i * unit \in Nat
        BY <1>2, <1>7, <2>1
    <2> QED
        BY <1>3, <1>10, <2>2
<1>14. high \in Nat /\ low < high /\ high <= size
    <2>1. high = IF low + unit <= size THEN low + unit ELSE size
        BY <1>2, <1>3, <1>13, MinOfTwo
    <2>2. low < size
        BY <1>1, <1>2, <1>13 DEF end
    <2> QED
        BY <1>2, <1>13, <2>1, <2>2
<1>15. ASSUME DecodeSpan(chunks[child]) = high - low PROVE Asked(chunks, r, i) \in Requests(chunks)
    <2>1. Max({start, low}) = (IF start <= low THEN low ELSE start) /\ Min({end, high}) = (IF end <= high THEN end ELSE high)
        <3>1. start \in Int /\ end \in Int /\ low \in Int /\ high \in Int
            BY <1>1, <1>13, <1>14 DEF start, end
        <3>2. Max({start, low}) = (IF start <= low THEN low ELSE start)
            BY <3>1, LargerOfTwo
        <3>3. Min({end, high}) = (IF end <= high THEN end ELSE high)
            BY <3>1, MinOfTwo
        <3> QED
            BY <3>2, <3>3
    <2>2. Max({start, low}) - low \in Nat
        BY <1>1, <1>13, <2>1 DEF start
    <2>3. Min({end, high}) - low \in Nat /\ Min({end, high}) - low <= high - low
        BY <1>1, <1>13, <1>14, <2>1 DEF end
    <2>4. Asked(chunks, r, i) = [ref |-> child, start |-> Max({start, low}) - low, end |-> Min({end, high}) - low]
        BY <1>5 DEF start, end
    <2> DEFINE s == Max({start, low}) - low
               e == Min({end, high}) - low
    <2>5. e <= DecodeSpan(chunks[child]) /\ s \in Nat /\ e \in Nat
        BY <1>15, <2>2, <2>3
    <2> HIDE DEF s, e
    <2>6. [ref |-> child, start |-> s, end |-> e] \in Requests(chunks)
        BY <1>12, <2>5 DEF Requests
    <2> QED
        BY <2>4, <2>6 DEF s, e
<1> QED
    BY <1>7, <1>11, <1>12, <1>13, <1>14, <1>15 DEF refs, unit, size, low, high, child, end

\* What a child gives is bytes, and rests on what is asked of chunks further down.
LEMMA ChildRead ==
    ASSUME NEW chunks, Store(chunks), NEW bad, NEW r \in Requests(chunks), ~Malformed(chunks, chunks[r.ref]),
           NEW i \in Int, i >= First(chunks, r), i <= Final(chunks, r),
           NEW g \in [Requests(chunks) -> Seq(Int)], NEW h \in [Requests(chunks) -> Seq(Int)],
           \A q \in Requests(chunks) : Rank(q.ref) < Rank(r.ref) => g[q] = h[q]
    PROVE  ReadChild(chunks, bad, g, r, i) \in Seq(Int) /\ ReadChild(chunks, bad, g, r, i) = ReadChild(chunks, bad, h, r, i)
<1> DEFINE child == chunks[r.ref].refs[i + 1]
           low == Low(chunks, chunks[r.ref], i)
           high == High(chunks, chunks[r.ref], i)
           q == Asked(chunks, r, i)
<1>1. Rank(child) < Rank(r.ref) /\ (DecodeSpan(chunks[child]) = high - low => q \in Requests(chunks))
    BY ChildAsked
<1>2. \A f : ReadChild(chunks, bad, f, r, i) =
                 IF child = bad \/ DecodeSpan(chunks[child]) # high - low THEN Raised ELSE f[q]
    BY DEF ReadChild, Asked
<1>3. q.ref = child
    BY DEF Asked
<1>4. Raised \in Seq(Int)
    BY DEF Raised
<1> HIDE DEF child, low, high, q
<1> QED
    BY <1>1, <1>2, <1>3, <1>4

\* So a step of the reader gives bytes, and rests on chunks further down.
LEMMA StepRead ==
    ASSUME NEW chunks, Store(chunks), NEW bad, NEW r \in Requests(chunks),
           NEW g \in [Requests(chunks) -> Seq(Int)], NEW h \in [Requests(chunks) -> Seq(Int)],
           \A q \in Requests(chunks) : Rank(q.ref) < Rank(r.ref) => g[q] = h[q]
    PROVE  ReadStep(chunks, bad, g, r) \in Seq(Int) /\ ReadStep(chunks, bad, g, r) = ReadStep(chunks, bad, h, r)
<1> DEFINE chunk == chunks[r.ref]
           size == DecodeSpan(chunk)
           first == First(chunks, r)
           final == Final(chunks, r)
           pieces(f) == [n \in 1..(final - first + 1) |-> ReadChild(chunks, bad, f, r, first + n - 1)]
<1>1. \A f : ReadStep(chunks, bad, f, r) =
          CASE size <= PayloadSize -> SubSeq(chunk.payload, r.start + 1, r.end)
            [] size > PayloadSize /\ (Malformed(chunks, chunk) \/ chunk.refs[1] = bad) -> Raised
            [] OTHER -> FlattenSeq(pieces(f))
    BY DEF ReadStep, First, Final
<1>2. /\ r.ref \in DOMAIN chunks /\ r.start \in Nat /\ r.end \in Nat /\ r.end <= size /\ PayloadSize \in Nat
      /\ size \in Nat /\ chunk.payload \in Seq(Int) /\ (size <= PayloadSize => size <= Len(chunk.payload))
    BY ChunkAssumption DEF Requests, Store, Sound
<1>3. ASSUME ~Malformed(chunks, chunk) PROVE first \in Nat /\ final \in Int
    <2> DEFINE unit == Unit(chunks, chunk)
    <2>1. unit \in Nat \ {0} /\ CeilDiv(size, unit) \in Nat
        BY <1>2, <1>3, Formed
    <2>2. first = r.start \div unit /\ final = Min({CeilDiv(r.end, unit), CeilDiv(size, unit)}) - 1
        BY DEF First, Final
    <2> HIDE DEF unit, first, final, size
    <2>3. first \in Nat
        BY <1>2, <2>1, <2>2, Quotient
    <2>4. CeilDiv(r.end, unit) \in Nat
        BY <1>2, <2>1, Ceiling
    <2>5. Min({CeilDiv(r.end, unit), CeilDiv(size, unit)}) \in Int
        <3>1. \A a, b \in Nat : Min({a, b}) \in Int
            BY MinOfTwo
        <3> QED
            BY <2>1, <2>4, <3>1, Zenon
    <2> QED
        BY <2>2, <2>3, <2>5
<1>4. ASSUME ~Malformed(chunks, chunk), NEW n \in 1..(final - first + 1)
      PROVE  /\ ReadChild(chunks, bad, g, r, first + n - 1) \in Seq(Int)
             /\ ReadChild(chunks, bad, g, r, first + n - 1) = ReadChild(chunks, bad, h, r, first + n - 1)
    <2>1. first + n - 1 \in Int /\ first + n - 1 >= first /\ first + n - 1 <= final
        <3> HIDE DEF first, final
        <3> QED
            BY <1>3, <1>4
    <2> QED
        BY <1>4, <2>1, ChildRead
<1>5. ASSUME ~Malformed(chunks, chunk) PROVE FlattenSeq(pieces(g)) \in Seq(Int) /\ pieces(g) = pieces(h)
    <2>1. first \in Nat /\ final \in Int
        BY <1>3, <1>5
    <2> HIDE DEF first, final
    <2> DEFINE m == final - first + 1
               a(n) == ReadChild(chunks, bad, g, r, first + n - 1)
               b(n) == ReadChild(chunks, bad, h, r, first + n - 1)
    <2>2. \A n \in 1..m : a(n) \in Seq(Int) /\ a(n) = b(n)
        BY <1>4, <1>5
    <2>3. m \in Int
        BY <2>1
    <2>4. pieces(g) \in Seq(Seq(Int)) /\ pieces(g) = pieces(h)
        <3> HIDE DEF m, a, b
        <3>1. [n \in 1..m |-> a(n)] \in Seq(Seq(Int))
            BY <2>2, <2>3
        <3>2. [n \in 1..m |-> a(n)] = [n \in 1..m |-> b(n)]
            BY <2>2
        <3> QED
            BY <3>1, <3>2 DEF m, a, b
    <2> HIDE DEF pieces
    <2> QED
        BY <2>4, FlattenTyped
<1>6. size <= PayloadSize => SubSeq(chunk.payload, r.start + 1, r.end) \in Seq(Int)
    <2>1. ASSUME size <= PayloadSize PROVE r.start + 1 \in Int /\ r.start + 1 >= 1 /\ r.end <= Len(chunk.payload)
        <3> HIDE DEF size, chunk
        <3> QED
            BY <1>2, <2>1
    <2>2. chunk.payload \in Seq(Int) /\ r.start + 1 \in Int /\ r.end \in Int
        <3> HIDE DEF size, chunk
        <3> QED
            BY <1>2
    <2> HIDE DEF size, chunk
    <2>3. ASSUME size <= PayloadSize PROVE SubSeq(chunk.payload, r.start + 1, r.end) \in Seq(Int)
        BY <2>1, <2>2, <2>3, SliceOf
    <2> QED
        BY <2>3
<1>7. Raised \in Seq(Int)
    BY DEF Raised
<1> HIDE DEF chunk, size, pieces
<1>8. CASE size <= PayloadSize
    <2>1. ~(size > PayloadSize)
        BY <1>2, <1>8
    <2>2. \A f : ReadStep(chunks, bad, f, r) = SubSeq(chunk.payload, r.start + 1, r.end)
        BY <1>1, <1>8, <2>1
    <2> QED
        BY <1>6, <1>8, <2>2
<1>9. CASE ~(size <= PayloadSize) /\ (Malformed(chunks, chunk) \/ chunk.refs[1] = bad)
    <2>1. size > PayloadSize
        BY <1>2, <1>9
    <2>2. \A f : ReadStep(chunks, bad, f, r) = Raised
        BY <1>1, <1>9, <2>1
    <2> QED
        BY <1>7, <2>2
<1>10. CASE ~(size <= PayloadSize) /\ ~(Malformed(chunks, chunk) \/ chunk.refs[1] = bad)
    <2>1. \A f : ReadStep(chunks, bad, f, r) = FlattenSeq(pieces(f))
        BY <1>1, <1>10
    <2> QED
        BY <1>5, <1>10, <2>1
<1> QED
    BY <1>8, <1>9, <1>10

\* The reader's recursion defines what it reads.
LEMMA ReadDefined ==
    ASSUME NEW chunks, Store(chunks), NEW bad
    PROVE  \A r \in Requests(chunks) : ReadTree(chunks, bad)[r] = ReadStep(chunks, bad, ReadTree(chunks, bad), r)
<1> DEFINE D == Requests(chunks)
           H == [g \in [D -> Seq(Int)] |-> [r \in D |-> ReadStep(chunks, bad, g, r)]]
           rank == [r \in D |-> Rank(r.ref)]
<1>1. rank \in [D -> Nat] /\ Seq(Int) # {}
    <2>1. \A r \in D : Rank(r.ref) \in Nat
        BY DEF Requests, Store, Sound
    <2>2. <<>> \in Seq(Int)
        OBVIOUS
    <2> HIDE DEF D
    <2> QED
        BY <2>1, <2>2
<1>2. ASSUME NEW g \in [D -> Seq(Int)], NEW h \in [D -> Seq(Int)], NEW r \in D,
             \A q \in D : rank[q] < rank[r] => g[q] = h[q]
      PROVE  ReadStep(chunks, bad, g, r) \in Seq(Int) /\ ReadStep(chunks, bad, g, r) = ReadStep(chunks, bad, h, r)
    <2>1. \A q \in D : Rank(q.ref) < Rank(r.ref) => g[q] = h[q]
        BY <1>2
    <2> QED
        BY <1>2, <2>1, StepRead
<1> HIDE DEF D, rank
<1>3. H \in [[D -> Seq(Int)] -> [D -> Seq(Int)]]
    BY <1>2
<1>4. Descends(H, D, Seq(Int), rank)
    <2>1. \A g, h \in [D -> Seq(Int)], r \in D : (\A q \in D : rank[q] < rank[r] => g[q] = h[q]) => H[g][r] = H[h][r]
        BY <1>2
    <2> HIDE DEF H
    <2> QED
        BY <1>1, <1>3, <2>1 DEF Descends
<1>5. \E f \in [D -> Seq(Int)] : f = H[f]
    <2> HIDE DEF H
    <2> QED
        BY <1>4, RecursionDefines
<1>6. \E f : f = [r \in D |-> ReadStep(chunks, bad, f, r)]
    BY <1>5
<1> DEFINE tree == CHOOSE f : f = [r \in D |-> ReadStep(chunks, bad, f, r)]
<1>7. tree = [r \in D |-> ReadStep(chunks, bad, tree, r)]
    BY <1>6
<1>8. ReadTree(chunks, bad) = tree
    BY DEF ReadTree, D
<1> HIDE DEF tree
<1>9. \A r \in D : tree[r] = ReadStep(chunks, bad, tree, r)
    BY <1>7
<1> QED
    BY <1>8, <1>9 DEF D

\* The same of the reader that goes through all of a tree.
LEMMA StepIterated ==
    ASSUME NEW chunks, Store(chunks), NEW bad, NEW ref \in DOMAIN chunks,
           NEW g \in [DOMAIN chunks -> Seq(Int)], NEW h \in [DOMAIN chunks -> Seq(Int)],
           \A q \in DOMAIN chunks : Rank(q) < Rank(ref) => g[q] = h[q]
    PROVE  IterStep(chunks, bad, g, ref) \in Seq(Int) /\ IterStep(chunks, bad, g, ref) = IterStep(chunks, bad, h, ref)
<1> DEFINE chunk == chunks[ref]
           size == DecodeSpan(chunk)
           count == CeilDiv(size, Unit(chunks, chunk))
           pieces(f) == [n \in 1..count |-> f[chunk.refs[n]]]
<1>1. \A f : IterStep(chunks, bad, f, ref) =
          CASE ref = bad -> Raised
            [] ref # bad /\ size <= PayloadSize -> SubSeq(chunk.payload, 1, size)
            [] ref # bad /\ size > PayloadSize /\ (Malformed(chunks, chunk) \/ chunk.refs[1] = bad) -> Raised
            [] OTHER -> FlattenSeq(pieces(f))
    BY DEF IterStep
<1>2. /\ PayloadSize \in Nat /\ size \in Nat /\ chunk.payload \in Seq(Int)
      /\ (size <= PayloadSize => size <= Len(chunk.payload))
    BY ChunkAssumption DEF Store, Sound
<1>3. ASSUME ~Malformed(chunks, chunk) PROVE FlattenSeq(pieces(g)) \in Seq(Int) /\ pieces(g) = pieces(h)
    <2>1. count \in Nat /\ \A n \in 1..count : chunk.refs[n] \in DOMAIN chunks /\ Rank(chunk.refs[n]) < Rank(ref)
        <3>1. count \in Nat /\ Len(chunk.refs) \in Nat /\ count <= Len(chunk.refs)
            BY <1>3, Formed
        <3>2. \A n \in 1..Len(chunk.refs) : chunk.refs[n] \in DOMAIN chunks /\ Rank(chunk.refs[n]) < Rank(ref)
            BY <1>3, Formed
        <3> HIDE DEF count, chunk
        <3>3. \A n \in 1..count : n \in 1..Len(chunk.refs)
            BY <3>1
        <3> QED
            BY <3>1, <3>2, <3>3
    <2> HIDE DEF count, chunk
    <2>2. \A n \in 1..count : g[chunk.refs[n]] \in Seq(Int) /\ g[chunk.refs[n]] = h[chunk.refs[n]]
        BY <2>1
    <2>3. pieces(g) \in Seq(Seq(Int))
        BY <2>1, <2>2
    <2>4. pieces(g) = pieces(h)
        BY <2>2
    <2> HIDE DEF pieces
    <2> QED
        BY <2>3, <2>4, FlattenTyped
<1>4. size <= PayloadSize => SubSeq(chunk.payload, 1, size) \in Seq(Int)
    <2> HIDE DEF size, chunk
    <2> QED
        BY <1>2
<1>5. Raised \in Seq(Int)
    BY DEF Raised
<1> HIDE DEF chunk, size, pieces
<1>6. CASE ref = bad \/ (~(size <= PayloadSize) /\ (Malformed(chunks, chunk) \/ chunk.refs[1] = bad))
    <2>1. \A f : IterStep(chunks, bad, f, ref) = Raised
        BY <1>1, <1>2, <1>6
    <2> QED
        BY <1>5, <2>1
<1>7. CASE ref # bad /\ size <= PayloadSize
    <2>1. \A f : IterStep(chunks, bad, f, ref) = SubSeq(chunk.payload, 1, size)
        BY <1>1, <1>2, <1>7
    <2> QED
        BY <1>4, <1>7, <2>1
<1>8. CASE ref # bad /\ ~(size <= PayloadSize) /\ ~(Malformed(chunks, chunk) \/ chunk.refs[1] = bad)
    <2>1. \A f : IterStep(chunks, bad, f, ref) = FlattenSeq(pieces(f))
        BY <1>1, <1>2, <1>8
    <2> QED
        BY <1>3, <1>8, <2>1
<1> QED
    BY <1>6, <1>7, <1>8

LEMMA IterDefined ==
    ASSUME NEW tree, Store(tree.chunks), NEW bad
    PROVE  \E f : /\ IterTree(tree, bad) = f[tree.root]
                  /\ \A ref \in DOMAIN tree.chunks : f[ref] = IterStep(tree.chunks, bad, f, ref)
<1> DEFINE chunks == tree.chunks
           D == DOMAIN chunks
           H == [g \in [D -> Seq(Int)] |-> [ref \in D |-> IterStep(chunks, bad, g, ref)]]
           rank == [ref \in D |-> Rank(ref)]
<1>1. rank \in [D -> Nat] /\ Seq(Int) # {}
    <2>1. \A ref \in D : Rank(ref) \in Nat
        BY DEF Store, Sound
    <2>2. <<>> \in Seq(Int)
        OBVIOUS
    <2> HIDE DEF D
    <2> QED
        BY <2>1, <2>2
<1>2. ASSUME NEW g \in [D -> Seq(Int)], NEW h \in [D -> Seq(Int)], NEW ref \in D,
             \A q \in D : rank[q] < rank[ref] => g[q] = h[q]
      PROVE  IterStep(chunks, bad, g, ref) \in Seq(Int) /\ IterStep(chunks, bad, g, ref) = IterStep(chunks, bad, h, ref)
    <2>1. \A q \in D : Rank(q) < Rank(ref) => g[q] = h[q]
        BY <1>2
    <2> QED
        BY <1>2, <2>1, StepIterated
<1> HIDE DEF D, rank
<1>3. H \in [[D -> Seq(Int)] -> [D -> Seq(Int)]]
    BY <1>2
<1>4. Descends(H, D, Seq(Int), rank)
    <2>1. \A g, h \in [D -> Seq(Int)], ref \in D :
              (\A q \in D : rank[q] < rank[ref] => g[q] = h[q]) => H[g][ref] = H[h][ref]
        BY <1>2
    <2> HIDE DEF H
    <2> QED
        BY <1>1, <1>3, <2>1 DEF Descends
<1>5. \E f \in [D -> Seq(Int)] : f = H[f]
    <2> HIDE DEF H
    <2> QED
        BY <1>4, RecursionDefines
<1>6. \E f : f = [ref \in D |-> IterStep(chunks, bad, f, ref)]
    BY <1>5
<1> DEFINE iter == CHOOSE f : f = [ref \in D |-> IterStep(chunks, bad, f, ref)]
<1>7. iter = [ref \in D |-> IterStep(chunks, bad, iter, ref)]
    BY <1>6
<1>8. IterTree(tree, bad) = iter[tree.root]
    BY DEF IterTree, D
<1> HIDE DEF iter
<1>9. \A ref \in D : iter[ref] = IterStep(chunks, bad, iter, ref)
    BY <1>7
<1> QED
    BY <1>8, <1>9 DEF D

(***************************************************************************)
(* The place of an entry in the content, and induction over the rows.      *)
(***************************************************************************)
Place(row, i, unit) == <<row[i].ref, (i - 1) * unit, row[i].length>>

\* An entry stands for bytes that the content has.
LEMMA Placed ==
    ASSUME NEW row, NEW size, NEW unit, Even(row, size, unit), NEW i \in 1..Len(row)
    PROVE  (i - 1) * unit \in Nat /\ row[i].length \in Nat /\ (i - 1) * unit + row[i].length <= size
<1> DEFINE L == Len(row)
<1>1. /\ unit \in Nat /\ size \in Nat /\ row \in Seq(Entries) /\ L \in Nat /\ (L > 1 => (L - 1) * unit < size)
      /\ row[i].length = End(row, size, unit, i) - (i - 1) * unit
    BY DEF Even
<1>2. i \in Nat /\ i >= 1 /\ i <= L
    BY <1>1
<1>3. row[i].length \in Nat
    <2>1. row[i] \in Entries
        BY <1>1, ElementOfSeq
    <2> QED
        BY <2>1 DEF Entries
<1>4. (i - 1) * unit \in Nat
    <2>1. \A x, y \in Nat : x * y \in Nat
        OBVIOUS
    <2>2. i - 1 \in Nat
        BY <1>2
    <2> QED
        BY <1>1, <2>1, <2>2, Zenon
<1>5. i * unit \in Int
    BY <1>1, <1>2
<1>6. CASE i = L
    <2>1. End(row, size, unit, i) = size
        BY <1>6 DEF End
    <2> HIDE DEF L
    <2> QED
        BY <1>1, <1>3, <1>4, <2>1
<1>7. CASE i # L
    <2>1. End(row, size, unit, i) = i * unit
        BY <1>7 DEF End
    <2>2. i <= L - 1 /\ L > 1 /\ L - 1 \in Int /\ i \in Int
        BY <1>1, <1>2, <1>7
    <2>3. i * unit <= (L - 1) * unit
        BY <1>1, <2>2, TimesMonotone
    <2>4. (L - 1) * unit \in Int
        BY <1>1
    <2>5. (L - 1) * unit < size
        BY <1>1, <2>2
    <2> HIDE DEF L
    <2> QED
        BY <1>1, <1>3, <1>4, <1>5, <2>1, <2>3, <2>4, <2>5
<1> QED
    BY <1>6, <1>7

\* The n-th entry of row k + 1 wraps a group of row k.
Wrapped(bytes, level, k, n, unit) ==
    /\ k \in Nat /\ k >= 1 /\ k + 1 \in 1..Len(RowsOf(bytes, level)) /\ n \in 1..Len(RowsOf(bytes, level)[k + 1])
    /\ Even(RowsOf(bytes, level)[k], Len(bytes), unit)
    /\ Len(Group(RowsOf(bytes, level)[k], n, GroupShape(level).data)) # 1

\* Each entry of a group spans a unit, and the last one the rest.
Divided(g, unit) == \A i \in 1..Len(g) : g[i].length = (IF i = Len(g) THEN Total(g) ELSE i * unit) - (i - 1) * unit

LEMMA GroupPieces ==
    ASSUME NEW bytes \in Seq(Int), NEW level \in Levels, NEW k \in Nat, k + 1 \in 1..Len(RowsOf(bytes, level)), k >= 1,
           NEW n \in 1..Len(RowsOf(bytes, level)[k + 1]),
           NEW unit, Even(RowsOf(bytes, level)[k], Len(bytes), unit)
    PROVE  LET W == GroupShape(level).data
               g == Group(RowsOf(bytes, level)[k], n, W)
           IN  /\ (n - 1) * (W * unit) = ((n - 1) * W) * unit
               /\ Divided(g, unit)
<1> DEFINE rows == RowsOf(bytes, level)
           W == GroupShape(level).data
           below == rows[k]
           row == rows[k + 1]
           g == Group(below, n, W)
           P == (n - 1) * W
           L == Len(below)
           len == Len(g)
           size == Len(bytes)
<1>1. /\ W \in Nat \ {0, 1} /\ Len(below) > 1 /\ row = Parents(below, k + 1, W)
      /\ k + 1 \in Nat /\ Even(below, size, unit) /\ n \in 1..Len(row)
    <2>1. /\ \A j \in 1..(Len(rows) - 1) : Len(rows[j]) > 1 /\ rows[j + 1] = Parents(rows[j], j + 1, W)
          /\ Len(rows) \in Nat
        BY TreeRows DEF Chain
    <2>2. k \in 1..(Len(rows) - 1)
        BY <2>1
    <2> HIDE DEF rows
    <2> QED
        BY <2>1, <2>2, ShapeOf DEF rows
<1>2. /\ len \in 1..W /\ P \in Nat /\ Total(g) \in Nat /\ row[n].length = Total(g)
      /\ \A i \in 1..len : P + i \in 1..L /\ g[i] = below[P + i]
      /\ (n = Len(row) => P + len = L)
    <2>1. P \in Nat
        BY Wraps
    <2>2. len \in 1..W
        BY Wraps
    <2>3. Total(g) \in Nat
        BY Wraps
    <2>4. row[n].length = Total(g)
        BY Wraps
    <2>5. \A i \in 1..len : P + i \in 1..L /\ g[i] = below[P + i]
        BY Wraps
    <2>6. ASSUME n = Len(row) PROVE P + len = L
        BY <2>6, Wraps
    <2> QED
        BY <2>1, <2>4, <2>5, <2>6, <2>2, <2>3
<1> HIDE DEF rows, W, size, below, row
<1>3. /\ below \in Seq(Entries) /\ L \in Nat /\ unit \in Nat /\ size \in Nat
      /\ \A i \in 1..L : below[i].length = End(below, size, unit, i) - (i - 1) * unit
    BY <1>1 DEF Even
<1>4. Even(row, size, W * unit) /\ Len(row) = CeilDiv(L, W) /\ Len(row) \in Nat
    <2>1. Even(Parents(below, k + 1, W), size, W * unit)
        BY <1>1, ParentsEven
    <2>2. W \in Nat \ {0}
        BY <1>1
    <2>3. Len(Parents(below, k + 1, W)) = CeilDiv(L, W)
        BY <1>1, <1>3, <2>2, ParentsOf
    <2>4. CeilDiv(L, W) \in Nat
        BY <1>3, <2>2, Ceiling
    <2> QED
        BY <1>1, <2>1, <2>3, <2>4
<1>5. n \in Nat /\ n >= 1 /\ n <= Len(row)
    BY <1>1, <1>4
<1>6. (n - 1) * (W * unit) = P * unit /\ n * (W * unit) = P * unit + W * unit
    BY <1>1, <1>3, <1>5
<1>7. P * unit \in Nat /\ W * unit \in Nat /\ len * unit \in Nat /\ (len - 1) * unit = len * unit - unit /\ len \in Nat
    <2>1. len \in Nat /\ len >= 1
        BY <1>1, <1>2
    <2> HIDE DEF P, len
    <2>2. \A x, y \in Nat : x * y \in Nat
        OBVIOUS
    <2>3. P * unit \in Nat /\ W * unit \in Nat /\ len * unit \in Nat
        BY <1>1, <1>2, <1>3, <2>1, <2>2, Zenon
    <2>4. (len - 1) * unit = len * unit - unit
        BY <1>3, <2>1
    <2> QED
        BY <2>1, <2>3, <2>4
<1>8. Total(g) = End(row, size, W * unit, n) - (n - 1) * (W * unit)
    BY <1>1, <1>2, <1>4 DEF Even
<1> HIDE DEF g, P, len
<1>9. ASSUME NEW i \in 1..len PROVE g[i].length = End(below, size, unit, P + i) - (P * unit + (i - 1) * unit)
    <2>1. g[i].length = End(below, size, unit, P + i) - ((P + i) - 1) * unit
        BY <1>2, <1>3
    <2>2. ((P + i) - 1) * unit = P * unit + (i - 1) * unit
        <3>1. P \in Nat /\ unit \in Nat /\ i \in Nat
            BY <1>2, <1>3, <1>7
        <3> QED
            BY <3>1
    <2> QED
        BY <2>1, <2>2
<1>10. ASSUME NEW i \in 1..len, i # len PROVE g[i].length = i * unit - (i - 1) * unit
    <2>1. len \in 1..len /\ i \in Nat /\ i < len
        BY <1>7, <1>10
    <2>2. P + len \in 1..L
        BY <1>2, <2>1
    <2>3. P + i # L
        BY <1>2, <1>3, <1>7, <2>1, <2>2
    <2>4. End(below, size, unit, P + i) = (P + i) * unit
        BY <2>3 DEF End, L
    <2>5. (P + i) * unit = P * unit + i * unit /\ i * unit \in Int /\ (i - 1) * unit \in Int
        <3>1. P \in Nat /\ unit \in Nat /\ i \in Nat
            BY <1>2, <1>3, <2>1
        <3>2. (P + i) * unit = P * unit + i * unit
            BY <3>1
        <3>3. \A x, y \in Int : x * y \in Int
            OBVIOUS
        <3>4. i \in Int /\ i - 1 \in Int /\ unit \in Int
            BY <3>1
        <3>5. i * unit \in Int /\ (i - 1) * unit \in Int
            BY <3>3, <3>4, Zenon
        <3> QED
            BY <3>2, <3>5
    <2> DEFINE a == P * unit
               b == i * unit
               c == (i - 1) * unit
    <2>6. g[i].length = (a + b) - (a + c)
        BY <1>9, <2>4, <2>5
    <2>7. a \in Int /\ b \in Int /\ c \in Int
        BY <1>7, <2>5
    <2> HIDE DEF a, b, c
    <2>8. g[i].length = b - c
        BY <2>6, <2>7
    <2> QED
        BY <2>8 DEF b, c
<1>11. g[len].length = Total(g) - (len - 1) * unit
    <2>1. len \in 1..len
        BY <1>1, <1>2
    <2>2. End(below, size, unit, P + len) = End(row, size, W * unit, n)
        <3>1. CASE n = Len(row)
            BY <1>2, <3>1 DEF End, L
        <3>2. CASE n # Len(row)
            <4>1. n < Len(row) /\ n \in Int
                BY <1>4, <1>5, <3>2
            <4>2. W \in Nat \ {0} /\ n \in 1..CeilDiv(L, W) /\ n < CeilDiv(L, W)
                BY <1>1, <1>4, <1>5, <4>1
            <4>3. len = W
                BY <1>3, <4>2, Groups DEF len, g, L
            <4>4. n < CeilDiv(L, W) /\ len = W /\ n \in Int
                BY <4>1, <4>2, <4>3
            <4>5. \A i \in Int : i < CeilDiv(L, W) <=> i * W < L
                BY <1>1, <1>3, Ceiling
            <4>6. n * W < L
                BY <4>4, <4>5, Zenon
            <4>7. n * W = P + W
                BY <1>1, <1>5 DEF P
            <4>8. P + len # L
                <5>1. P + len = n * W
                    BY <4>4, <4>7
                <5>2. L \in Int /\ n * W \in Int
                    BY <1>1, <1>3, <1>5
                <5> QED
                    BY <4>6, <5>1, <5>2
            <4>9. (P + len) * unit = n * (W * unit)
                BY <1>1, <1>2, <1>3, <1>6, <4>4
            <4> QED
                BY <3>2, <4>8, <4>9 DEF End, L
        <3> QED
            BY <3>1, <3>2
    <2>3. g[len].length = End(below, size, unit, P + len) - (P * unit + (len - 1) * unit)
        BY <1>9, <2>1
    <2>4. End(below, size, unit, P + len) \in Int
        <3>1. P \in Nat /\ len \in Nat /\ unit \in Nat /\ size \in Nat
            BY <1>2, <1>3, <1>7
        <3>2. (P + len) * unit \in Int
            BY <3>1
        <3> QED
            BY <3>1, <3>2 DEF End
    <2>5. Total(g) = End(below, size, unit, P + len) - P * unit
        BY <1>6, <1>8, <2>2
    <2> DEFINE end == End(below, size, unit, P + len)
               most == (len - 1) * unit
    <2>6. most \in Int
        BY <1>3, <1>7
    <2> HIDE DEF end, most
    <2>7. g[len].length = Total(g) - most
        BY <1>7, <2>3, <2>4, <2>5, <2>6 DEF end, most
    <2> QED
        BY <2>7 DEF most
<1>12. \A i \in 1..len : g[i].length = (IF i = len THEN Total(g) ELSE i * unit) - (i - 1) * unit
    BY <1>10, <1>11
<1>13. Divided(g, unit)
    BY <1>12 DEF Divided, len
<1> QED
    BY <1>6, <1>13 DEF g, P, len, below, rows, W

\* What holds of the leaves, and of a wrapped group when of the row below, holds in every row.
LEMMA TreeInduction ==
    ASSUME NEW bytes \in Seq(Int), NEW level \in Levels, NEW Good,
           \A i \in 1..Len(RowsOf(bytes, level)[1]) : Place(RowsOf(bytes, level)[1], i, PayloadSize) \in Good,
           \A k, n, unit :
               /\ Wrapped(bytes, level, k, n, unit)
               /\ \A i \in 1..Len(RowsOf(bytes, level)[k]) : Place(RowsOf(bytes, level)[k], i, unit) \in Good
               => Place(RowsOf(bytes, level)[k + 1], n, GroupShape(level).data * unit) \in Good,
           NEW k \in 1..Len(RowsOf(bytes, level))
    PROVE  \E unit : /\ Even(RowsOf(bytes, level)[k], Len(bytes), unit)
                     /\ \A i \in 1..Len(RowsOf(bytes, level)[k]) : Place(RowsOf(bytes, level)[k], i, unit) \in Good
<1> DEFINE rows == RowsOf(bytes, level)
           W == GroupShape(level).data
           L == Len(rows)
           size == Len(bytes)
           Holds(j, unit) == Even(rows[j], size, unit) /\ \A i \in 1..Len(rows[j]) : Place(rows[j], i, unit) \in Good
           Reached == {j \in Nat : j + 1 \in 1..L => \E unit : Holds(j + 1, unit)}
<1>1. /\ L \in Nat /\ L >= 1 /\ rows[1] = Leaves(bytes) /\ W \in Nat \ {0, 1} /\ k \in 1..L
      /\ \A j \in 1..(L - 1) : Len(rows[j]) > 1 /\ rows[j + 1] = Parents(rows[j], j + 1, W)
    BY TreeRows, ShapeOf DEF Chain
<1>2. Holds(1, PayloadSize)
    <2>1. Even(rows[1], size, PayloadSize)
        BY <1>1, LeavesEven
    <2> QED
        BY <2>1
<1>3. 0 \in Reached
    <2> HIDE DEF Holds, L
    <2> QED
        BY <1>2
<1>4. ASSUME NEW j \in Nat, j >= 1, j + 1 \in 1..L, NEW unit, Holds(j, unit) PROVE Holds(j + 1, W * unit)
    <2>1. j \in 1..(L - 1) /\ j + 1 \in Nat
        BY <1>1, <1>4
    <2>2. Even(rows[j], size, unit) /\ Len(rows[j]) > 1 /\ rows[j + 1] = Parents(rows[j], j + 1, W)
        BY <1>1, <1>4, <2>1
    <2>3. Even(rows[j + 1], size, W * unit)
        <3>1. Even(Parents(rows[j], j + 1, W), size, W * unit)
            BY <1>1, <2>1, <2>2, ParentsEven
        <3> QED
            BY <2>2, <3>1
    <2>4. ASSUME NEW n \in 1..Len(rows[j + 1]) PROVE Place(rows[j + 1], n, W * unit) \in Good
        <3> DEFINE g == Group(rows[j], n, W)
                   P == (n - 1) * W
        <3>1. CASE Len(g) # 1
            <4>1. Wrapped(bytes, level, j, n, unit)
                BY <1>4, <2>2, <2>4, <3>1 DEF Wrapped
            <4> QED
                BY <1>4, <4>1
        <3>2. CASE Len(g) = 1
            <4>1. (n - 1) * (W * unit) = P * unit
                BY <1>4, <2>2, <2>4, GroupPieces
            <4>2. P \in Nat /\ \A i \in 1..Len(g) : P + i \in 1..Len(rows[j]) /\ g[i] = rows[j][P + i]
                <5>1. P \in Nat
                    BY <1>4, <2>2, <2>4, Wraps
                <5>2. \A i \in 1..Len(g) : P + i \in 1..Len(rows[j]) /\ g[i] = rows[j][P + i]
                    BY <1>4, <2>2, <2>4, Wraps
                <5> QED
                    BY <5>1, <5>2
            <4>3. rows[j + 1][n] = g[1]
                <5>1. W \in Nat \ {0} /\ rows[j] \in Seq(Entries)
                    BY <1>1, <2>2 DEF Even
                <5>2. Len(Parents(rows[j], j + 1, W)) = CeilDiv(Len(rows[j]), W)
                    BY <2>1, <5>1, ParentsOf
                <5>3. n \in 1..CeilDiv(Len(rows[j]), W)
                    BY <2>2, <2>4, <5>2
                <5>4. rows[j + 1][n] = Parent(g, j + 1, n)
                    <6>1. \A x \in 1..CeilDiv(Len(rows[j]), W) :
                              Parents(rows[j], j + 1, W)[x] = Parent(Group(rows[j], x, W), j + 1, x)
                        BY <2>1, <5>1, ParentsOf
                    <6> QED
                        BY <2>2, <5>3, <6>1
                <5> QED
                    BY <3>2, <5>4 DEF Parent
            <4> HIDE DEF g, P, rows, W
            <4>4. 1 \in 1..Len(g) /\ (P + 1) - 1 = P
                BY <3>2, <4>2
            <4>5. P + 1 \in 1..Len(rows[j]) /\ rows[j + 1][n] = rows[j][P + 1]
                BY <4>2, <4>3, <4>4
            <4>6. Place(rows[j], P + 1, unit) \in Good
                BY <1>4, <4>5
            <4>7. Place(rows[j + 1], n, W * unit) = Place(rows[j], P + 1, unit)
                BY <4>1, <4>4, <4>5 DEF Place
            <4> QED
                BY <4>6, <4>7
        <3> QED
            BY <3>1, <3>2
    <2> QED
        BY <2>3, <2>4
<1>5. ASSUME NEW j \in Reached PROVE j + 1 \in Reached
    <2>1. j \in Nat /\ (j + 1 \in 1..L => \E unit : Holds(j + 1, unit))
        OBVIOUS
    <2> HIDE DEF Holds, L
    <2>2. ASSUME (j + 1) + 1 \in 1..L PROVE \E unit : Holds((j + 1) + 1, unit)
        <3>1. j + 1 \in 1..L /\ j + 1 \in Nat /\ j + 1 >= 1
            BY <1>1, <2>1, <2>2
        <3>2. PICK unit : Holds(j + 1, unit)
            BY <2>1, <3>1
        <3>3. Holds((j + 1) + 1, W * unit)
            BY <1>4, <2>2, <3>1, <3>2
        <3> QED
            BY <3>3
    <2> QED
        BY <2>1, <2>2
<1>6. Reached = Nat
    <2>1. Reached \in SUBSET Nat
        OBVIOUS
    <2> HIDE DEF Reached
    <2> QED
        BY <1>3, <1>5, <2>1, SetInduction
<1>7. k - 1 \in Nat /\ (k - 1) + 1 = k
    BY <1>1
<1> HIDE DEF Holds, L
<1>8. \E unit : Holds(k, unit)
    BY <1>1, <1>6, <1>7
<1> QED
    BY <1>8 DEF Holds

(***************************************************************************)
(* The chunks of a tree, as a reader meets them.                           *)
(***************************************************************************)
LEMMA LeafChunk ==
    ASSUME NEW bytes \in Seq(Int), NEW level \in Levels, NEW i \in 1..Len(RowsOf(bytes, level)[1])
    PROVE  LET ref == RowsOf(bytes, level)[1][i].ref
           IN  /\ ref \in DOMAIN Split(bytes, level).chunks
               /\ Split(bytes, level).chunks[ref] = Leaf(Group(bytes, i, PayloadSize))
<1> DEFINE rows == RowsOf(bytes, level)
           W == GroupShape(level).data
           chunks == Split(bytes, level).chunks
           ref == rows[1][i].ref
<1>1. Chain(rows, bytes, W) /\ Len(rows) \in Nat /\ Len(rows) >= 1 /\ W \in Nat \ {0, 1}
    BY TreeRows, ShapeOf
<1>2. 1 \in 1..Len(rows)
    BY <1>1
<1>3. HasRefs(rows, W, 1)
    BY <1>1, <1>2, RefsKept
<1>4. ref \in Data(rows) /\ ref \in DOMAIN chunks /\ ref.row \in 1..1
    BY <1>2, EntriesStored
<1>5. ref.parity = 0
    BY <1>4, DataMade
<1>6. ref.row = 1 /\ ref.at = i
    BY <1>3, <1>4 DEF HasRefs
<1> HIDE DEF ref
<1>7. chunks[ref] = Leaf(Group(bytes, ref.at, PayloadSize))
    BY <1>4, <1>5, <1>6, ChunkKinds
<1> QED
    BY <1>4, <1>6, <1>7 DEF ref

LEMMA WrapChunk ==
    ASSUME NEW bytes \in Seq(Int), NEW level \in Levels, NEW k, NEW n, NEW unit, Wrapped(bytes, level, k, n, unit)
    PROVE  LET ref == RowsOf(bytes, level)[k + 1][n].ref
               g == Group(RowsOf(bytes, level)[k], n, GroupShape(level).data)
           IN  /\ ref \in DOMAIN Split(bytes, level).chunks /\ g \in Seq(Entries)
               /\ Split(bytes, level).chunks[ref] = Intermediate(g, ref, level)
               /\ Total(g) \in Nat /\ Total(g) > PayloadSize /\ RowsOf(bytes, level)[k + 1][n].length = Total(g)
<1> DEFINE rows == RowsOf(bytes, level)
           W == GroupShape(level).data
           chunks == Split(bytes, level).chunks
           ref == rows[k + 1][n].ref
           g == Group(rows[k], n, W)
<1>1. Chain(rows, bytes, W) /\ Len(rows) \in Nat /\ W \in Nat \ {0, 1}
    BY TreeRows, ShapeOf
<1>2. /\ k \in Nat /\ k >= 1 /\ k + 1 \in 1..Len(rows) /\ n \in 1..Len(rows[k + 1]) /\ Len(g) # 1
      /\ Even(rows[k], Len(bytes), unit)
    BY DEF Wrapped
<1>3. /\ k \in Nat /\ k >= 1 /\ k + 1 \in 1..Len(rows) /\ n \in 1..Len(rows[k + 1])
      /\ Even(rows[k], Len(bytes), unit)
    BY <1>2
<1>4. HasRefs(rows, W, k + 1)
    BY <1>1, <1>2, RefsKept
<1>5. ref \in Data(rows) /\ ref \in DOMAIN chunks /\ ref.row \in 1..(k + 1)
    BY <1>2, EntriesStored
<1>6. ref.parity = 0
    BY <1>5, DataMade
<1>7. (k + 1) - 1 = k
    BY <1>2
<1>8. ref.row = k + 1 /\ ref.at = n
    <2>1. /\ ref.row = k + 1 => ref.at = n
          /\ ref.row # k + 1 => Len(Group(rows[(k + 1) - 1], n, W)) = 1
        BY <1>2, <1>4 DEF HasRefs
    <2> HIDE DEF ref, rows, W
    <2> QED
        BY <1>2, <1>7, <2>1
<1> HIDE DEF ref
<1>9. ref.row > 1 /\ ref.row - 1 = k
    BY <1>2, <1>8
<1>10. chunks[ref] = Intermediate(Group(rows[ref.row - 1], ref.at, W), ref, level)
    BY <1>5, <1>6, <1>9, ChunkKinds
<1>11. chunks[ref] = Intermediate(g, ref, level)
    BY <1>8, <1>9, <1>10
<1>12. g \in Seq(Entries)
    BY <1>2, Wraps
<1>13. Total(g) \in Nat
    BY <1>2, Wraps
<1>14. rows[k + 1][n].length = Total(g)
    BY <1>3, Wraps
<1>15. PayloadSize < Total(g)
    BY <1>2, Wraps
<1>16. Total(g) > PayloadSize
    <2> DEFINE total == Total(g)
    <2> HIDE DEF total
    <2> QED
        BY <1>13, <1>15, ChunkAssumption DEF total
<1> QED
    BY <1>5, <1>11, <1>12, <1>13, <1>14, <1>16 DEF ref

\* An entry says what the span of its chunk says.
LEMMA EntrySpans ==
    ASSUME NEW bytes \in Seq(Int), NEW level \in Levels, NEW k \in 1..Len(RowsOf(bytes, level)),
           NEW i \in 1..Len(RowsOf(bytes, level)[k])
    PROVE  DecodeSpan(Split(bytes, level).chunks[RowsOf(bytes, level)[k][i].ref]) = RowsOf(bytes, level)[k][i].length
<1> DEFINE rows == RowsOf(bytes, level)
           W == GroupShape(level).data
           chunks == Split(bytes, level).chunks
           Good == {t \in (DOMAIN chunks) \X Nat \X Nat : DecodeSpan(chunks[t[1]]) = t[3]}
<1>1. ASSUME NEW ref \in DOMAIN chunks, NEW low \in Nat, NEW length \in Nat, DecodeSpan(chunks[ref]) = length
      PROVE  <<ref, low, length>> \in Good
    <2> HIDE DEF chunks
    <2> QED
        BY <1>1
<1>2. ASSUME NEW j \in 1..Len(rows[1]) PROVE Place(rows[1], j, PayloadSize) \in Good
    <2>1. 1 \in 1..Len(rows) /\ rows[1] = Leaves(bytes)
        BY TreeRows DEF Chain
    <2>2. Even(rows[1], Len(bytes), PayloadSize)
        BY <2>1, LeavesEven
    <2>3. (j - 1) * PayloadSize \in Nat /\ rows[1][j].length \in Nat
        BY <2>2, Placed
    <2> DEFINE ref == rows[1][j].ref
               g == Group(bytes, j, PayloadSize)
    <2>4. ref \in DOMAIN chunks /\ chunks[ref] = Leaf(g)
        BY LeafChunk
    <2>5. g \in Seq(Int) /\ rows[1][j].length = Len(g)
        <3>1. g \in Seq(Int)
            BY LeafHolds
        <3>2. rows[1][j].length = Len(g)
            BY LeafHolds
        <3> QED
            BY <3>1, <3>2
    <2> HIDE DEF g, ref, chunks, rows
    <2>6. DecodeSpan(chunks[ref]) = rows[1][j].length
        BY <2>4, <2>5, LeafSpans
    <2> HIDE DEF Good
    <2> QED
        BY <1>1, <2>3, <2>4, <2>6 DEF Place, ref
<1>3. ASSUME NEW m, NEW n, NEW unit, Wrapped(bytes, level, m, n, unit),
             \A j \in 1..Len(rows[m]) : Place(rows[m], j, unit) \in Good
      PROVE  Place(rows[m + 1], n, W * unit) \in Good
    <2> DEFINE ref == rows[m + 1][n].ref
               g == Group(rows[m], n, W)
    <2>1. /\ ref \in DOMAIN chunks /\ g \in Seq(Entries) /\ chunks[ref] = Intermediate(g, ref, level)
          /\ Total(g) \in Nat /\ rows[m + 1][n].length = Total(g)
        BY <1>3, WrapChunk
    <2>2. (n - 1) * (W * unit) \in Nat
        <3>1. Even(rows[m + 1], Len(bytes), W * unit) /\ n \in 1..Len(rows[m + 1])
            <4>1. m \in Nat /\ m >= 1 /\ m + 1 \in 1..Len(rows) /\ n \in 1..Len(rows[m + 1]) /\ Even(rows[m], Len(bytes), unit)
                BY <1>3 DEF Wrapped
            <4>2. m \in 1..(Len(rows) - 1) /\ m + 1 \in Nat
                BY <4>1, TreeRows
            <4>3. Len(rows[m]) > 1 /\ rows[m + 1] = Parents(rows[m], m + 1, W) /\ W \in Nat \ {0, 1}
                BY <4>2, TreeRows, ShapeOf DEF Chain
            <4> HIDE DEF rows, W
            <4>4. Even(Parents(rows[m], m + 1, W), Len(bytes), W * unit)
                BY <4>1, <4>2, <4>3, ParentsEven
            <4> QED
                BY <4>1, <4>3, <4>4
        <3> QED
            BY <3>1, Placed
    <2> HIDE DEF g, ref, chunks, rows
    <2>3. DecodeSpan(chunks[ref]) = rows[m + 1][n].length
        BY <2>1, WrapSpans
    <2> HIDE DEF Good
    <2> QED
        BY <1>1, <2>1, <2>2, <2>3 DEF Place, ref
<1> HIDE DEF Good
<1>4. \E unit : \A j \in 1..Len(rows[k]) : Place(rows[k], j, unit) \in Good
    BY <1>2, <1>3, TreeInduction
<1>5. PICK unit : Place(rows[k], i, unit) \in Good
    BY <1>4
<1>6. Place(rows[k], i, unit)[1] = rows[k][i].ref /\ Place(rows[k], i, unit)[3] = rows[k][i].length
    BY DEF Place
<1> QED
    BY <1>5, <1>6 DEF Good

\* A reader finds the children of a wrapped group, and what each of them spans.
Child(bytes, level, k, n, unit, i) ==
    LET rows == RowsOf(bytes, level)
        chunks == Split(bytes, level).chunks
        chunk == chunks[rows[k + 1][n].ref]
        g == Group(rows[k], n, GroupShape(level).data)
        place == (n - 1) * GroupShape(level).data + i
    IN  /\ place \in 1..Len(rows[k])
        /\ chunk.refs[i] = rows[k][place].ref /\ chunk.refs[i] \in DOMAIN chunks
        /\ DecodeSpan(chunks[chunk.refs[i]]) = (IF i = Len(g) THEN Total(g) ELSE i * unit) - (i - 1) * unit

LEMMA WrappedChunk ==
    ASSUME NEW bytes \in Seq(Int), NEW level \in Levels, NEW k, NEW n, NEW unit, Wrapped(bytes, level, k, n, unit)
    PROVE  LET rows == RowsOf(bytes, level)
               W == GroupShape(level).data
               chunks == Split(bytes, level).chunks
               chunk == chunks[rows[k + 1][n].ref]
               g == Group(rows[k], n, W)
           IN  /\ ~Malformed(chunks, chunk) /\ Unit(chunks, chunk) = unit /\ unit \in Nat \ {0}
               /\ DecodeSpan(chunk) = Total(g) /\ CeilDiv(Total(g), unit) = Len(g)
               /\ \A i \in 1..Len(g) : Child(bytes, level, k, n, unit, i)
<1> DEFINE rows == RowsOf(bytes, level)
           W == GroupShape(level).data
           chunks == Split(bytes, level).chunks
           p == GroupShape(level).parity
           ref == rows[k + 1][n].ref
           chunk == chunks[ref]
           g == Group(rows[k], n, W)
           P == (n - 1) * W
           below == [i \in 1..Len(g) |-> g[i].ref]
           shards == [i \in 1..p |-> [ref EXCEPT !.parity = i]]
<1>1. /\ k \in Nat /\ k >= 1 /\ k + 1 \in 1..Len(rows) /\ n \in 1..Len(rows[k + 1]) /\ Len(g) # 1
      /\ Even(rows[k], Len(bytes), unit) /\ k \in 1..Len(rows)
    <2>1. /\ k \in Nat /\ k >= 1 /\ k + 1 \in 1..Len(rows) /\ n \in 1..Len(rows[k + 1]) /\ Len(g) # 1
          /\ Even(rows[k], Len(bytes), unit)
        BY DEF Wrapped
    <2>2. k \in 1..Len(rows)
        BY <2>1, TreeRows
    <2> QED
        BY <2>1, <2>2
<1>2. /\ ref \in DOMAIN chunks /\ g \in Seq(Entries) /\ chunk = Intermediate(g, ref, level)
      /\ Total(g) \in Nat /\ Total(g) > PayloadSize
    BY WrapChunk
<1>3. /\ k \in Nat /\ k >= 1 /\ k + 1 \in 1..Len(rows) /\ n \in 1..Len(rows[k + 1])
      /\ Even(rows[k], Len(bytes), unit)
    BY <1>1
<1>4. Len(g) \in Nat /\ Len(g) >= 2 /\ unit < Total(g) /\ g[1].length = unit
    <2>1. Len(g) # 1 => Len(g) >= 2
        BY <1>3, Wraps
    <2>2. Len(g) # 1 => unit < Total(g)
        BY <1>3, Wraps
    <2>3. Len(g) \in Nat
        BY <1>2
    <2>4. g[1].length = unit
        <3>1. Divided(g, unit)
            BY <1>3, GroupPieces
        <3>2. unit \in Nat /\ 1 \in 1..Len(g) /\ 1 # Len(g)
            BY <1>1, <2>1, <2>3 DEF Even
        <3> HIDE DEF g
        <3>3. g[1].length = 1 * unit - (1 - 1) * unit
            BY <3>1, <3>2 DEF Divided
        <3> QED
            BY <3>2, <3>3
    <2> QED
        BY <1>1, <2>1, <2>2, <2>4, <2>3
<1>5. \A i \in 1..Len(g) : P + i \in 1..Len(rows[k]) /\ g[i] = rows[k][P + i]
    BY <1>3, Wraps
<1>6. (Len(g) - 1) * unit < Total(g) /\ Total(g) <= Len(g) * unit
    BY <1>1, Wraps
<1>7. unit \in Nat \ {0} /\ p \in Nat
    <2>1. unit \in Nat /\ unit >= PayloadSize /\ PayloadSize \in Nat \ {0}
        BY <1>1, ChunkAssumption DEF Even
    <2> QED
        BY <2>1, ShapeOf
<1>8. DecodeSpan(chunk) = Total(g) /\ chunk.refs = below \o shards
    <2> HIDE DEF g, chunk, rows, ref
    <2>1. DecodeSpan(Intermediate(g, ref, level)) = Total(g)
        BY <1>2, WrapSpans
    <2>2. Intermediate(g, ref, level).refs = below \o shards
        BY <1>2, WrapSpans
    <2> HIDE DEF below, shards
    <2> QED
        BY <1>2, <2>1, <2>2
<1>9. Len(chunk.refs) = Len(g) + p /\ chunk.refs # <<>> /\ \A i \in 1..Len(g) : chunk.refs[i] = g[i].ref
    <2> HIDE DEF g, chunk, rows, ref, p
    <2>1. below \in Seq({g[i].ref : i \in 1..Len(g)} \union {shards[i] : i \in 1..p}) /\ Len(below) = Len(g)
        BY <1>4
    <2>2. shards \in Seq({g[i].ref : i \in 1..Len(g)} \union {shards[i] : i \in 1..p}) /\ Len(shards) = p
        BY <1>7
    <2>3. \A i \in 1..Len(g) : below[i] = g[i].ref
        OBVIOUS
    <2> HIDE DEF below, shards
    <2>4. Len(below \o shards) = Len(below) + Len(shards)
        BY <2>1, <2>2, ConcatProperties
    <2>5. \A i \in 1..(Len(below) + Len(shards)) :
              (below \o shards)[i] = IF i <= Len(below) THEN below[i] ELSE shards[i - Len(below)]
        BY <2>1, <2>2, ConcatProperties
    <2>6. \A i \in 1..Len(g) : i \in 1..(Len(below) + Len(shards)) /\ i <= Len(below)
        BY <1>4, <1>7, <2>1, <2>2
    <2>7. Len(chunk.refs) > 0
        BY <1>4, <1>7, <1>8, <2>1, <2>2, <2>4
    <2>8. chunk.refs # <<>>
        BY <2>7
    <2> QED
        BY <1>8, <2>1, <2>2, <2>3, <2>4, <2>5, <2>6, <2>8
<1>10. ASSUME NEW i \in 1..Len(g)
      PROVE  /\ P + i \in 1..Len(rows[k]) /\ chunk.refs[i] = rows[k][P + i].ref /\ chunk.refs[i] \in DOMAIN chunks
             /\ DecodeSpan(chunks[chunk.refs[i]]) = g[i].length
    <2> DEFINE j == P + i
    <2>1. j \in 1..Len(rows[k]) /\ g[i] = rows[k][j] /\ chunk.refs[i] = rows[k][j].ref
        BY <1>5, <1>9
    <2> HIDE DEF j
    <2>2. rows[k][j].ref \in DOMAIN chunks
        BY <1>1, <2>1, EntriesStored
    <2>3. DecodeSpan(chunks[rows[k][j].ref]) = rows[k][j].length
        BY <1>1, <2>1, EntrySpans
    <2> HIDE DEF rows, chunks, g, P, chunk
    <2> QED
        BY <2>1, <2>2, <2>3 DEF j
<1>11. \A i \in 1..Len(g) : g[i].length = (IF i = Len(g) THEN Total(g) ELSE i * unit) - (i - 1) * unit
    <2>1. Divided(g, unit)
        BY <1>3, GroupPieces
    <2> QED
        BY <2>1 DEF Divided
<1>12. Unit(chunks, chunk) = unit
    <2>1. 1 \in 1..Len(g)
        BY <1>4
    <2> HIDE DEF g, chunk, chunks
    <2> QED
        BY <1>4, <1>10, <2>1 DEF Unit
<1>13. CeilDiv(Total(g), unit) = Len(g)
    <2> DEFINE total == Total(g)
               len == Len(g)
    <2> HIDE DEF total, len
    <2>1. /\ total \in Nat /\ len \in Nat /\ len - 1 \in Int /\ len \in Int
          /\ (len - 1) * unit < total /\ ~(len * unit < total)
        <3>1. len * unit \in Int
            BY <1>4, <1>7 DEF len
        <3> QED
            BY <1>2, <1>4, <1>6, <3>1 DEF total, len
    <2>2. CeilDiv(total, unit) \in Nat
        BY <1>7, <2>1, Ceiling
    <2>3. \A i \in Int : i < CeilDiv(total, unit) <=> i * unit < total
        BY <1>7, <2>1, Ceiling
    <2>4. len - 1 < CeilDiv(total, unit) /\ ~(len < CeilDiv(total, unit))
        BY <2>1, <2>3, Zenon
    <2>5. CeilDiv(total, unit) = len
        BY <2>1, <2>2, <2>4
    <2> QED
        BY <2>5 DEF total, len
<1>14. ~Malformed(chunks, chunk)
    <2>1. ~(Len(chunk.refs) < Len(g))
        <3> HIDE DEF chunk, g, p
        <3> QED
            BY <1>4, <1>7, <1>9
    <2>2. unit > 0
        BY <1>7
    <2> HIDE DEF chunk, chunks, g
    <2> QED
        BY <1>4, <1>8, <1>9, <1>12, <1>13, <2>1, <2>2 DEF Malformed
<1> HIDE DEF g, chunk, chunks, rows, ref
<1>15. \A i \in 1..Len(g) :
           /\ P + i \in 1..Len(rows[k]) /\ chunk.refs[i] = rows[k][P + i].ref /\ chunk.refs[i] \in DOMAIN chunks
           /\ DecodeSpan(chunks[chunk.refs[i]]) = (IF i = Len(g) THEN Total(g) ELSE i * unit) - (i - 1) * unit
    BY <1>10, <1>11
<1>16. \A i \in 1..Len(g) : Child(bytes, level, k, n, unit, i)
    BY <1>15 DEF Child, g, chunk, chunks, rows, ref
<1> QED
    BY <1>7, <1>8, <1>12, <1>13, <1>14, <1>16 DEF g, chunk, chunks, rows, ref

(***************************************************************************)
(* What a range of a chunk asks its children for.                          *)
(***************************************************************************)
At(s, e, unit, n) ==
    CASE n = 0 -> s
      [] n # 0 /\ n = CeilDiv(e, unit) - (s \div unit) -> e
      [] OTHER -> ((s \div unit) + n) * unit

Cut(s, e, unit, size, n) ==
    /\ At(s, e, unit, n - 1) \in Nat /\ At(s, e, unit, n) \in Nat
    /\ At(s, e, unit, n - 1) < At(s, e, unit, n) /\ At(s, e, unit, n) <= e
    /\ Max({s, ((s \div unit) + n - 1) * unit}) = At(s, e, unit, n - 1)
    /\ Min({e, Min({((s \div unit) + n - 1) * unit + unit, size})}) = At(s, e, unit, n)

Ends(s, e, unit, size) ==
    LET first == s \div unit
        m == CeilDiv(e, unit) - first
    IN  /\ Min({CeilDiv(e, unit), CeilDiv(size, unit)}) - 1 = first + m - 1
        /\ At(s, e, unit, 0) = s /\ At(s, e, unit, m) = e

LEMMA Cuts ==
    ASSUME NEW unit \in Nat \ {0}, NEW size \in Nat, NEW s \in Nat, NEW e \in Nat, s < e, e <= size
    PROVE  LET first == s \div unit
               m == CeilDiv(e, unit) - first
           IN  /\ first \in Nat /\ m \in Nat \ {0} /\ first + m <= CeilDiv(size, unit)
               /\ Ends(s, e, unit, size)
               /\ \A n \in 1..m : Cut(s, e, unit, size, n)
<1> DEFINE first == s \div unit
           c == CeilDiv(e, unit)
           all == CeilDiv(size, unit)
           m == c - first
           at(n) == At(s, e, unit, n)
<1>1. first \in Nat /\ first * unit <= s /\ s < (first + 1) * unit
    BY Quotient
<1>2. c \in Nat /\ all \in Nat
    BY Ceiling
<1>3. \A i \in Int : i < c <=> i * unit < e
    BY Ceiling
<1>4. \A i \in Int : i < all <=> i * unit < size
    BY Ceiling
<1>5. \A n : at(n) = CASE n = 0 -> s [] n # 0 /\ n = m -> e [] OTHER -> (first + n) * unit
    BY DEF At
<1> HIDE DEF first, c, all, at
<1>6. \A i \in Int : i * unit \in Int
    OBVIOUS
<1>7. first < c
    <2>1. first * unit < e /\ first \in Int
        BY <1>1, <1>6
    <2> QED
        BY <1>3, <2>1, Zenon
<1>8. c <= all
    <2>1. SUFFICES ASSUME all < c PROVE FALSE
        BY <1>2
    <2>2. all \in Int /\ ~(all < all)
        BY <1>2
    <2>3. all * unit < e /\ ~(all * unit < size)
        BY <1>3, <1>4, <2>1, <2>2, Zenon
    <2>4. all * unit \in Int
        BY <1>6, <2>2
    <2> QED
        BY <2>3, <2>4
<1>9. m \in Nat \ {0} /\ first + m <= all /\ first + m = c
    BY <1>1, <1>2, <1>7, <1>8
<1>10. Min({c, all}) - 1 = first + m - 1
    <2>1. Min({c, all}) = IF c <= all THEN c ELSE all
        BY <1>2, MinOfTwo
    <2> QED
        BY <1>1, <1>2, <1>8, <1>9, <2>1
<1> HIDE DEF m
<1>11. at(0) = s /\ at(m) = e
    BY <1>5, <1>9
<1>12. ASSUME NEW n \in 1..m
       PROVE  /\ at(n - 1) \in Nat /\ at(n) \in Nat /\ at(n - 1) < at(n) /\ at(n) <= e
              /\ Max({s, (first + n - 1) * unit}) = at(n - 1)
              /\ Min({e, Min({(first + n - 1) * unit + unit, size})}) = at(n)
    <2> DEFINE i == first + n - 1
               low == i * unit
               next == (first + n) * unit
    <2>1. n \in Nat /\ n >= 1 /\ n <= m /\ i \in Nat /\ i \in Int /\ first + n \in Int /\ i < c /\ first \in Int
        BY <1>1, <1>9
    <2>2. low \in Nat /\ next = low + unit
        <3>1. \A x, y \in Nat : x * y \in Nat
            OBVIOUS
        <3>2. low \in Nat
            BY <2>1, <3>1, Zenon
        <3>3. (first + n) * unit = (first + n - 1) * unit + unit
            BY <1>1, <2>1
        <3> QED
            BY <3>2, <3>3
    <2>3. low < e
        BY <1>3, <2>1, Zenon
    <2>4. n # m => next < e
        <3>1. n # m => first + n < c
            BY <1>9, <2>1
        <3> QED
            BY <1>3, <2>1, <3>1, Zenon
    <2>5. n = m => e <= next
        <3>1. n = m => ~(first + n < c)
            BY <1>2, <1>9
        <3>2. n = m => ~(next < e)
            BY <1>3, <2>1, <3>1, Zenon
        <3> HIDE DEF next
        <3> QED
            BY <2>2, <3>2
    <2>6. n = 1 => low <= s
        <3>1. n = 1 => i = first
            BY <1>1
        <3> QED
            BY <1>1, <3>1
    <2>7. n # 1 => s < low
        <3> SUFFICES ASSUME n # 1 PROVE s < low
            OBVIOUS
        <3>1. first + 1 <= i /\ first + 1 \in Int
            BY <1>1, <2>1
        <3>2. (first + 1) * unit <= low
            BY <2>1, <3>1, TimesMonotone
        <3>3. (first + 1) * unit \in Int
            BY <1>6, <3>1
        <3> HIDE DEF low
        <3> QED
            BY <1>1, <2>2, <3>2, <3>3
    <2>8. s < next
        <3>1. first + 1 <= first + n /\ first + 1 \in Int
            BY <1>1, <2>1
        <3>2. (first + 1) * unit <= next
            BY <2>1, <3>1, TimesMonotone
        <3>3. (first + 1) * unit \in Int
            BY <1>6, <3>1
        <3> HIDE DEF next
        <3> QED
            BY <1>1, <2>2, <3>2, <3>3
    <2>9. at(n - 1) = IF n = 1 THEN s ELSE low
        <3>1. n - 1 # m /\ (n - 1 = 0 <=> n = 1) /\ first + (n - 1) = i
            BY <1>1, <1>9, <2>1
        <3> HIDE DEF i
        <3> QED
            BY <1>5, <3>1
    <2>10. at(n) = IF n = m THEN e ELSE next
        BY <1>5, <2>1
    <2> HIDE DEF low, next, i
    <2>11. Max({s, low}) = IF s <= low THEN low ELSE s
        BY <2>2, LargerOfTwo
    <2>12. Min({low + unit, size}) = IF low + unit <= size THEN low + unit ELSE size
        BY <2>2, MinOfTwo
    <2> DEFINE high == Min({low + unit, size})
    <2>13. high \in Nat /\ high = IF next <= size THEN next ELSE size
        BY <2>2, <2>12
    <2> HIDE DEF high
    <2>14. Min({e, high}) = IF e <= high THEN e ELSE high
        BY <2>13, MinOfTwo
    <2>15. Max({s, low}) = at(n - 1) /\ at(n - 1) \in Nat
        BY <2>2, <2>6, <2>7, <2>9, <2>11
    <2>16. Min({e, high}) = at(n) /\ at(n) \in Nat /\ at(n) <= e
        BY <2>2, <2>4, <2>5, <2>10, <2>13, <2>14
    <2>17. at(n - 1) < at(n)
        BY <2>2, <2>3, <2>8, <2>9, <2>10
    <2> QED
        BY <2>15, <2>16, <2>17 DEF low, i, high
<1>13. \A n \in 1..m : Cut(s, e, unit, size, n)
    BY <1>12 DEF Cut, first, at
<1>14. Ends(s, e, unit, size)
    BY <1>10, <1>11 DEF Ends, first, c, all, m, at
<1> QED
    BY <1>1, <1>9, <1>13, <1>14 DEF first, c, all, m, at

(***************************************************************************)
(* The reader: what it gets of a range of an entry.                        *)
(***************************************************************************)
\* The bytes asked for; or a failure, if the endpoint answers with another chunk.
Delivers(bytes, chunks, bad, got, from, to) ==
    got \in Seq(Int) /\ (got = SubSeq(bytes, from + 1, to) \/ (bad \in DOMAIN chunks /\ Failed(got)))

Request(ref, s, e) == [ref |-> ref, start |-> s, end |-> e]

Readable(bytes, chunks, bad, f) ==
    {t \in (DOMAIN chunks) \X Nat \X Nat :
        \A s, e \in Nat : s < e /\ e <= t[3] => Delivers(bytes, chunks, bad, f[Request(t[1], s, e)], t[2] + s, t[2] + e)}

LEMMA ReadableRange ==
    ASSUME NEW bytes, NEW chunks, NEW bad, NEW f, NEW ref, NEW low, NEW length,
           <<ref, low, length>> \in Readable(bytes, chunks, bad, f), NEW s \in Nat, NEW e \in Nat, s < e, e <= length
    PROVE  Delivers(bytes, chunks, bad, f[Request(ref, s, e)], low + s, low + e)
<1> DEFINE t == <<ref, low, length>>
<1>1. t[1] = ref /\ t[2] = low /\ t[3] = length
    OBVIOUS
<1>2. \A x, y \in Nat : x < y /\ y <= t[3] => Delivers(bytes, chunks, bad, f[Request(t[1], x, y)], t[2] + x, t[2] + y)
    BY DEF Readable
<1> HIDE DEF t
<1> QED
    BY <1>1, <1>2

LEMMA SubSlice ==
    ASSUME NEW bytes \in Seq(Int), NEW g \in Seq(Int), NEW low \in Nat, low + Len(g) <= Len(bytes),
           \A i \in 1..Len(g) : g[i] = bytes[low + i],
           NEW s \in Nat, NEW e \in Nat, s <= e, e <= Len(g)
    PROVE  SubSeq(g, s + 1, e) \in Seq(Int) /\ SubSeq(g, s + 1, e) = SubSeq(bytes, (low + s) + 1, low + e)
<1>1. /\ SubSeq(g, s + 1, e) \in Seq(Int) /\ Len(SubSeq(g, s + 1, e)) = e - s
      /\ \A i \in 1..(e - s) : SubSeq(g, s + 1, e)[i] = g[(s + 1) + i - 1]
    <2>1. s + 1 \in Int /\ s + 1 >= 1 /\ e \in Int /\ s + 1 <= e + 1 /\ e - (s + 1) + 1 = e - s
        OBVIOUS
    <2>2. e <= Len(g)
        OBVIOUS
    <2> DEFINE m == s + 1
    <2>3. m \in Int /\ m >= 1 /\ m <= e + 1 /\ e - m + 1 = e - s
        BY <2>1
    <2> HIDE DEF m
    <2>4. /\ SubSeq(g, m, e) \in Seq(Int) /\ Len(SubSeq(g, m, e)) = e - m + 1
          /\ \A i \in 1..(e - m + 1) : SubSeq(g, m, e)[i] = g[m + i - 1]
        BY <2>1, <2>2, <2>3, SliceOf
    <2> QED
        BY <2>3, <2>4 DEF m
<1>2. /\ SubSeq(bytes, (low + s) + 1, low + e) \in Seq(Int) /\ Len(SubSeq(bytes, (low + s) + 1, low + e)) = e - s
      /\ \A i \in 1..(e - s) : SubSeq(bytes, (low + s) + 1, low + e)[i] = bytes[((low + s) + 1) + i - 1]
    <2> DEFINE m == (low + s) + 1
               n == low + e
    <2>1. Len(g) \in Nat /\ Len(bytes) \in Nat
        OBVIOUS
    <2>2. m \in Int /\ m >= 1 /\ n \in Int /\ m <= n + 1 /\ n - m + 1 = e - s /\ n <= Len(bytes)
        BY <2>1
    <2> HIDE DEF m, n
    <2>3. /\ SubSeq(bytes, m, n) \in Seq(Int) /\ Len(SubSeq(bytes, m, n)) = n - m + 1
          /\ \A i \in 1..(n - m + 1) : SubSeq(bytes, m, n)[i] = bytes[m + i - 1]
        BY <2>2, SliceOf
    <2> QED
        BY <2>2, <2>3 DEF m, n
<1>3. \A i \in 1..(e - s) : g[(s + 1) + i - 1] = bytes[((low + s) + 1) + i - 1]
    <2> SUFFICES ASSUME NEW i \in 1..(e - s) PROVE g[(s + 1) + i - 1] = bytes[((low + s) + 1) + i - 1]
        OBVIOUS
    <2>1. (s + 1) + i - 1 \in 1..Len(g) /\ low + ((s + 1) + i - 1) = ((low + s) + 1) + i - 1
        OBVIOUS
    <2> QED
        BY <2>1
<1> DEFINE a == SubSeq(g, s + 1, e)
           b == SubSeq(bytes, (low + s) + 1, low + e)
<1>4. a \in Seq(Int) /\ b \in Seq(Int) /\ Len(a) = Len(b) /\ \A i \in 1..Len(a) : a[i] = b[i]
    <2>1. a \in Seq(Int) /\ Len(a) = e - s /\ \A i \in 1..(e - s) : a[i] = g[(s + 1) + i - 1]
        BY <1>1
    <2>2. b \in Seq(Int) /\ Len(b) = e - s /\ \A i \in 1..(e - s) : b[i] = bytes[((low + s) + 1) + i - 1]
        BY <1>2
    <2> HIDE DEF a, b
    <2>3. \A i \in 1..(e - s) : a[i] = b[i]
        BY <1>3, <2>1, <2>2, Zenon
    <2> QED
        BY <2>1, <2>2, <2>3, Zenon
<1> HIDE DEF a, b
<1>5. a = b
    BY <1>4, SeqEqual
<1> QED
    BY <1>4, <1>5 DEF a, b

\* A chunk with a payload is read out of it.
LEMMA ShortRead ==
    ASSUME NEW chunks, NEW bad, NEW f, NEW r,
           DecodeSpan(chunks[r.ref]) \in Nat, DecodeSpan(chunks[r.ref]) <= PayloadSize
    PROVE  ReadStep(chunks, bad, f, r) = SubSeq(chunks[r.ref].payload, r.start + 1, r.end)
<1> DEFINE chunk == chunks[r.ref]
           size == DecodeSpan(chunk)
           pieces == FlattenSeq([n \in 1..(Final(chunks, r) - First(chunks, r) + 1) |->
                                     ReadChild(chunks, bad, f, r, First(chunks, r) + n - 1)])
           part == SubSeq(chunk.payload, r.start + 1, r.end)
<1>1. ReadStep(chunks, bad, f, r) =
          CASE size <= PayloadSize -> part
            [] size > PayloadSize /\ (Malformed(chunks, chunk) \/ chunk.refs[1] = bad) -> Raised
            [] OTHER -> pieces
    BY DEF ReadStep, First, Final
<1>2. size \in Nat /\ size <= PayloadSize /\ PayloadSize \in Nat
    BY ChunkAssumption
<1> HIDE DEF size, pieces, part
<1>3. ReadStep(chunks, bad, f, r) = part
    BY <1>1, <1>2
<1> QED
    BY <1>3 DEF part

\* A chunk above the leaves is read out of its children.
LEMMA LongRead ==
    ASSUME NEW chunks, NEW bad, NEW f, NEW r,
           DecodeSpan(chunks[r.ref]) \in Nat, DecodeSpan(chunks[r.ref]) > PayloadSize, ~Malformed(chunks, chunks[r.ref])
    PROVE  /\ chunks[r.ref].refs[1] = bad => ReadStep(chunks, bad, f, r) = Raised
           /\ chunks[r.ref].refs[1] # bad =>
                  ReadStep(chunks, bad, f, r) =
                      FlattenSeq([n \in 1..(Final(chunks, r) - First(chunks, r) + 1) |->
                                      ReadChild(chunks, bad, f, r, First(chunks, r) + n - 1)])
<1> DEFINE chunk == chunks[r.ref]
           size == DecodeSpan(chunk)
           pieces == FlattenSeq([n \in 1..(Final(chunks, r) - First(chunks, r) + 1) |->
                                     ReadChild(chunks, bad, f, r, First(chunks, r) + n - 1)])
<1>1. ReadStep(chunks, bad, f, r) =
          CASE size <= PayloadSize -> SubSeq(chunk.payload, r.start + 1, r.end)
            [] size > PayloadSize /\ (Malformed(chunks, chunk) \/ chunk.refs[1] = bad) -> Raised
            [] OTHER -> pieces
    BY DEF ReadStep, First, Final
<1>2. size \in Nat /\ size > PayloadSize /\ PayloadSize \in Nat
    BY ChunkAssumption
<1> HIDE DEF size, pieces
<1>3. chunk.refs[1] = bad => ReadStep(chunks, bad, f, r) = Raised
    BY <1>1, <1>2
<1>4. chunk.refs[1] # bad => ReadStep(chunks, bad, f, r) = pieces
    BY <1>1, <1>2
<1> QED
    BY <1>3, <1>4 DEF pieces

LEMMA LeafRead ==
    ASSUME NEW bytes \in Seq(Int), NEW level \in Levels, NEW bad, NEW i \in 1..Len(RowsOf(bytes, level)[1])
    PROVE  LET chunks == Split(bytes, level).chunks
           IN  Place(RowsOf(bytes, level)[1], i, PayloadSize) \in Readable(bytes, chunks, bad, ReadTree(chunks, bad))
<1> DEFINE row == RowsOf(bytes, level)[1]
           chunks == Split(bytes, level).chunks
           ref == row[i].ref
           g == Group(bytes, i, PayloadSize)
           low == (i - 1) * PayloadSize
           f == ReadTree(chunks, bad)
<1>1. ref \in DOMAIN chunks /\ chunks[ref] = Leaf(g)
    BY LeafChunk
<1>2. /\ g \in Seq(Int) /\ Len(g) \in Nat /\ Len(g) <= PayloadSize /\ row[i].length = Len(g)
      /\ low \in Nat /\ low + Len(g) <= Len(bytes) /\ \A j \in 1..Len(g) : g[j] = bytes[low + j]
    <2>1. g \in Seq(Int) /\ Len(g) \in Nat
        BY LeafHolds
    <2>2. Len(g) <= PayloadSize
        BY LeafHolds
    <2>3. row[i].length = Len(g)
        BY LeafHolds
    <2>4. low \in Nat
        BY LeafHolds
    <2>5. low + Len(g) <= Len(bytes)
        BY LeafHolds
    <2>6. \A j \in 1..Len(g) : g[j] = bytes[low + j]
        BY LeafHolds
    <2> QED
        BY <2>1, <2>2, <2>3, <2>4, <2>5, <2>6
<1>3. \A r \in Requests(chunks) : f[r] = ReadStep(chunks, bad, f, r)
    BY StoreMade, ReadDefined
<1> HIDE DEF row, chunks, ref, g, low, f
<1>4. DecodeSpan(chunks[ref]) = Len(g) /\ chunks[ref].payload = g
    BY <1>1, <1>2, LeafSpans
<1>5. ASSUME NEW s \in Nat, NEW e \in Nat, s < e, e <= Len(g)
      PROVE  Delivers(bytes, chunks, bad, f[Request(ref, s, e)], low + s, low + e)
    <2> DEFINE r == Request(ref, s, e)
    <2>1. r.ref = ref /\ r.start = s /\ r.end = e
        BY DEF Request
    <2>2. r \in Requests(chunks)
        BY <1>1, <1>4, <1>5 DEF Requests, Request
    <2> HIDE DEF r
    <2>3. ReadStep(chunks, bad, f, r) = SubSeq(g, s + 1, e)
        <3>1. DecodeSpan(chunks[r.ref]) = Len(g) /\ chunks[r.ref].payload = g
            BY <1>4, <2>1
        <3>2. DecodeSpan(chunks[r.ref]) \in Nat /\ DecodeSpan(chunks[r.ref]) <= PayloadSize
            BY <1>2, <3>1
        <3>3. ReadStep(chunks, bad, f, r) = SubSeq(chunks[r.ref].payload, r.start + 1, r.end)
            BY <3>2, ShortRead
        <3> QED
            BY <2>1, <3>1, <3>3
    <2>4. SubSeq(g, s + 1, e) \in Seq(Int) /\ SubSeq(g, s + 1, e) = SubSeq(bytes, (low + s) + 1, low + e)
        <3>1. s <= e /\ e <= Len(g)
            BY <1>5
        <3>2. /\ g \in Seq(Int) /\ low \in Nat /\ low + Len(g) <= Len(bytes)
              /\ \A j \in 1..Len(g) : g[j] = bytes[low + j]
            BY <1>2
        <3>3. SubSeq(g, s + 1, e) \in Seq(Int)
            BY <3>1, <3>2, SubSlice
        <3>4. SubSeq(g, s + 1, e) = SubSeq(bytes, (low + s) + 1, low + e)
            BY <3>1, <3>2, SubSlice
        <3> QED
            BY <3>3, <3>4
    <2> QED
        BY <1>3, <2>2, <2>3, <2>4 DEF Delivers, r
<1>6. <<ref, low, Len(g)>> \in Readable(bytes, chunks, bad, f)
    BY <1>1, <1>2, <1>5 DEF Readable
<1> QED
    BY <1>2, <1>6 DEF Place, row, chunks, ref, low, f

\* A piece of a range: what a child gives of it, at its place in the content.
LEMMA PieceRead ==
    ASSUME NEW bytes \in Seq(Int), NEW level \in Levels, NEW bad, NEW k, NEW n, NEW unit, Wrapped(bytes, level, k, n, unit),
           \A i \in 1..Len(RowsOf(bytes, level)[k]) :
               Place(RowsOf(bytes, level)[k], i, unit)
                   \in Readable(bytes, Split(bytes, level).chunks, bad, ReadTree(Split(bytes, level).chunks, bad)),
           NEW s \in Nat, NEW e \in Nat, s < e, e <= RowsOf(bytes, level)[k + 1][n].length,
           NEW piece \in 1..(CeilDiv(e, unit) - (s \div unit))
    PROVE  LET chunks == Split(bytes, level).chunks
               base == (n - 1) * (GroupShape(level).data * unit)
           IN  Delivers(bytes, chunks, bad,
                        ReadChild(chunks, bad, ReadTree(chunks, bad),
                                  Request(RowsOf(bytes, level)[k + 1][n].ref, s, e), (s \div unit) + piece - 1),
                        base + At(s, e, unit, piece - 1), base + At(s, e, unit, piece))
<1> DEFINE rows == RowsOf(bytes, level)
           W == GroupShape(level).data
           chunks == Split(bytes, level).chunks
           f == ReadTree(chunks, bad)
           ref == rows[k + 1][n].ref
           chunk == chunks[ref]
           g == Group(rows[k], n, W)
           total == Total(g)
           P == (n - 1) * W
           r == Request(ref, s, e)
           i == (s \div unit) + piece - 1
           low == Low(chunks, chunk, i)
           high == High(chunks, chunk, i)
           child == chunk.refs[i + 1]
           from == At(s, e, unit, piece - 1)
           to == At(s, e, unit, piece)
           base == (n - 1) * (W * unit)
<1>1. /\ k \in Nat /\ k >= 1 /\ k + 1 \in 1..Len(rows) /\ n \in 1..Len(rows[k + 1]) /\ Even(rows[k], Len(bytes), unit)
    BY DEF Wrapped
<1>2. total \in Nat /\ rows[k + 1][n].length = total /\ ref \in DOMAIN chunks
    BY WrapChunk
<1>3. Unit(chunks, chunk) = unit /\ unit \in Nat \ {0} /\ DecodeSpan(chunk) = total /\ CeilDiv(total, unit) = Len(g)
    BY WrappedChunk
<1>4. \A j \in 1..Len(g) :
          /\ P + j \in 1..Len(rows[k])
          /\ chunk.refs[j] = rows[k][P + j].ref /\ chunk.refs[j] \in DOMAIN chunks
          /\ DecodeSpan(chunks[chunk.refs[j]]) = (IF j = Len(g) THEN total ELSE j * unit) - (j - 1) * unit
    <2> SUFFICES ASSUME NEW j \in 1..Len(g) PROVE Child(bytes, level, k, n, unit, j)
        BY DEF Child
    <2> QED
        BY WrappedChunk
<1>5. /\ P \in Nat /\ Len(g) \in Nat /\ (Len(g) - 1) * unit < total /\ total <= Len(g) * unit
      /\ base = P * unit
    <2>1. P \in Nat
        BY <1>1, Wraps
    <2>2. g \in Seq(Entries)
        BY <1>1, Wraps
    <2>3. (Len(g) - 1) * unit < total
        BY <1>1, Wraps
    <2>4. total <= Len(g) * unit
        BY <1>1, Wraps
    <2>5. base = P * unit
        BY <1>1, GroupPieces
    <2> HIDE DEF g
    <2> QED
        BY <2>1, <2>2, <2>3, <2>4, <2>5
<1>6. low = i * unit /\ high = Min({i * unit + unit, total})
    BY <1>3 DEF Low, High
<1>7. r.ref = ref /\ r.start = s /\ r.end = e
    BY DEF Request
<1> DEFINE count == Len(g)
<1> HIDE DEF total, count
<1>8. /\ (s \div unit) \in Nat /\ (s \div unit) + (CeilDiv(e, unit) - (s \div unit)) <= CeilDiv(total, unit)
      /\ from \in Nat /\ to \in Nat /\ from < to
      /\ Max({s, low}) = from /\ Min({e, high}) = to
    <2>1. e <= total
        BY <1>2
    <2>2. /\ (s \div unit) \in Nat /\ (s \div unit) + (CeilDiv(e, unit) - (s \div unit)) <= CeilDiv(total, unit)
        BY <1>2, <1>3, <2>1, Cuts
    <2>3. Cut(s, e, unit, total, piece)
        BY <1>2, <1>3, <2>1, Cuts
    <2>4. from \in Nat /\ to \in Nat /\ from < to /\ Max({s, i * unit}) = from
        BY <2>3 DEF Cut
    <2>5. Min({e, Min({i * unit + unit, total})}) = to
        BY <2>3 DEF Cut
    <2> HIDE DEF from, to, i, low, high
    <2> QED
        BY <1>6, <2>2, <2>3, <2>4, <2>5
<1>9. i \in Nat /\ i + 1 \in 1..count
    <2> DEFINE first == s \div unit
               c == CeilDiv(e, unit)
    <2>1. c \in Nat
        BY <1>3, Ceiling
    <2>2. first \in Nat /\ first + (c - first) <= count /\ piece \in 1..(c - first) /\ i = first + piece - 1 /\ count \in Nat
        BY <1>3, <1>5, <1>8 DEF count
    <2> HIDE DEF first, c, i
    <2> QED
        BY <2>1, <2>2
<1>10. /\ P + (i + 1) \in 1..Len(rows[k]) /\ child = rows[k][P + (i + 1)].ref /\ child \in DOMAIN chunks
       /\ DecodeSpan(chunks[child]) = (IF i + 1 = count THEN total ELSE (i + 1) * unit) - ((i + 1) - 1) * unit
    <2> DEFINE j == i + 1
    <2>1. j \in 1..Len(g)
        BY <1>9 DEF count
    <2> HIDE DEF j, chunks, chunk, rows, g, P
    <2> QED
        BY <1>4, <2>1 DEF j, count
<1> HIDE DEF rows, W, chunks, f, ref, chunk, g, P, r, low, high, child, from, to, base
<1>11. low \in Nat /\ (i + 1) * unit = low + unit /\ ((i + 1) - 1) * unit = low
    <2>1. \A x, y \in Nat : x * y \in Nat
        OBVIOUS
    <2> HIDE DEF i
    <2>2. low \in Nat
        BY <1>3, <1>6, <1>9, <2>1, Zenon
    <2>3. (i + 1) * unit = i * unit + unit /\ ((i + 1) - 1) * unit = i * unit
        BY <1>3, <1>9
    <2> QED
        BY <1>6, <2>2, <2>3
<1>12. high \in Nat /\ DecodeSpan(chunks[child]) = high - low
    <2> HIDE DEF i
    <2>1. high = IF low + unit <= total THEN low + unit ELSE total
        BY <1>2, <1>3, <1>6, <1>11, MinOfTwo
    <2>2. CASE i + 1 = count
        <3>1. total <= low + unit
            BY <1>5, <1>11, <2>2 DEF count
        <3>2. high = total
            BY <1>2, <1>3, <1>11, <2>1, <3>1
        <3> QED
            BY <1>2, <1>10, <1>11, <2>2, <3>2
    <2>3. CASE i + 1 # count
        <3>1. i + 1 <= count - 1 /\ i + 1 \in Int /\ count - 1 \in Int
            BY <1>5, <1>9, <2>3 DEF count
        <3>2. (i + 1) * unit <= (count - 1) * unit
            BY <1>3, <3>1, TimesMonotone
        <3>3. (count - 1) * unit < total /\ (count - 1) * unit \in Int
            BY <1>3, <1>5, <3>1 DEF count
        <3>4. low + unit <= total
            BY <1>2, <1>3, <1>11, <3>2, <3>3
        <3> QED
            BY <1>3, <1>10, <1>11, <2>1, <2>3, <3>4
    <2> QED
        BY <2>2, <2>3
<1> DEFINE got == ReadChild(chunks, bad, f, r, i)
<1>13. got = IF child = bad THEN Raised ELSE f[Request(child, from - low, to - low)]
    <2>1. got = IF child = bad \/ DecodeSpan(chunks[child]) # high - low THEN Raised
                ELSE f[[ref |-> child, start |-> Max({r.start, low}) - low, end |-> Min({r.end, high}) - low]]
        BY <1>7 DEF ReadChild, low, high, child, chunk
    <2> HIDE DEF got, i
    <2>2. Request(child, from - low, to - low) =
              [ref |-> child, start |-> Max({r.start, low}) - low, end |-> Min({r.end, high}) - low]
        BY <1>7, <1>8 DEF Request
    <2> QED
        BY <1>12, <2>1, <2>2
<1>14. CASE child = bad
    <2>1. got = Raised
        BY <1>13, <1>14
    <2>2. Raised \in Seq(Int) /\ Failed(Raised)
        <3>1. 1 \in DOMAIN <<-1>> /\ <<-1>>[1] = -1 /\ <<-1>> \in Seq(Int)
            OBVIOUS
        <3> QED
            BY <3>1 DEF Raised, Failed
    <2> HIDE DEF got
    <2>3. Delivers(bytes, chunks, bad, got, base + from, base + to)
        BY <1>10, <1>14, <2>1, <2>2 DEF Delivers
    <2> QED
        BY <2>3 DEF got, rows, W, chunks, f, ref, r, from, to, base
<1>15. CASE child # bad
    <2> DEFINE j == P + (i + 1)
    <2>1. got = f[Request(child, from - low, to - low)]
        BY <1>13, <1>15
    <2>2. from - low \in Nat /\ to - low \in Nat /\ from - low < to - low /\ to - low <= high - low
        <3>1. from = IF s <= low THEN low ELSE s
            BY <1>8, <1>11, LargerOfTwo
        <3>2. to = IF e <= high THEN e ELSE high
            BY <1>8, <1>12, MinOfTwo
        <3> QED
            BY <1>8, <1>11, <1>12, <3>1, <3>2
    <2>3. rows[k][j].length = high - low
        <3>1. k \in 1..Len(rows)
            BY <1>1, TreeRows DEF rows
        <3>2. DecodeSpan(chunks[rows[k][j].ref]) = rows[k][j].length
            BY <1>10, <3>1, EntrySpans DEF rows, chunks
        <3> HIDE DEF j
        <3> QED
            BY <1>10, <1>12, <3>2 DEF j
    <2>4. (j - 1) * unit = base + low
        <3>1. j - 1 = P + i
            BY <1>5, <1>9
        <3>2. (P + i) * unit = P * unit + i * unit
            BY <1>3, <1>5, <1>9
        <3> HIDE DEF j
        <3> QED
            BY <1>5, <1>6, <3>1, <3>2
    <2>5. Place(rows[k], j, unit) \in Readable(bytes, chunks, bad, f)
        BY <1>10 DEF rows, chunks, f
    <2>6. Place(rows[k], j, unit) = <<child, base + low, high - low>>
        BY <1>10, <2>3, <2>4 DEF Place
    <2> HIDE DEF got, j, i
    <2>7. <<child, base + low, high - low>> \in Readable(bytes, chunks, bad, f)
        BY <2>5, <2>6
    <2>8. Delivers(bytes, chunks, bad, got, (base + low) + (from - low), (base + low) + (to - low))
        BY <2>1, <2>2, <2>7, ReadableRange
    <2>9. base \in Nat
        <3>1. \A x, y \in Nat : x * y \in Nat
            OBVIOUS
        <3> QED
            BY <1>3, <1>5, <3>1, Zenon
    <2>10. (base + low) + (from - low) = base + from /\ (base + low) + (to - low) = base + to
        BY <1>8, <1>11, <2>9
    <2>11. Delivers(bytes, chunks, bad, got, base + from, base + to)
        BY <2>8, <2>10
    <2> QED
        BY <2>11 DEF got, i, rows, W, chunks, f, ref, r, from, to, base
<1> QED
    BY <1>14, <1>15

\* A wrapped group stands for bytes that the content has.
LEMMA WrappedPlace ==
    ASSUME NEW bytes \in Seq(Int), NEW level \in Levels, NEW k, NEW n, NEW unit, Wrapped(bytes, level, k, n, unit)
    PROVE  LET base == (n - 1) * (GroupShape(level).data * unit)
               length == RowsOf(bytes, level)[k + 1][n].length
           IN  base \in Nat /\ length \in Nat /\ base + length <= Len(bytes)
<1> DEFINE rows == RowsOf(bytes, level)
           W == GroupShape(level).data
<1>1. k \in Nat /\ k >= 1 /\ k + 1 \in 1..Len(rows) /\ n \in 1..Len(rows[k + 1]) /\ Even(rows[k], Len(bytes), unit)
    BY DEF Wrapped
<1>2. k \in 1..(Len(rows) - 1) /\ k + 1 \in Nat
    BY <1>1, TreeRows
<1>3. Len(rows[k]) > 1 /\ rows[k + 1] = Parents(rows[k], k + 1, W) /\ W \in Nat \ {0, 1}
    BY <1>2, TreeRows, ShapeOf DEF Chain
<1> HIDE DEF rows, W
<1>4. Even(Parents(rows[k], k + 1, W), Len(bytes), W * unit)
    BY <1>1, <1>2, <1>3, ParentsEven
<1>5. Even(rows[k + 1], Len(bytes), W * unit)
    BY <1>3, <1>4
<1>6. /\ (n - 1) * (W * unit) \in Nat /\ rows[k + 1][n].length \in Nat
      /\ (n - 1) * (W * unit) + rows[k + 1][n].length <= Len(bytes)
    BY <1>1, <1>5, Placed
<1> QED
    BY <1>6 DEF rows, W

\* Pieces that follow on each other, joined.
LEMMA Joined ==
    ASSUME NEW bytes \in Seq(Int), NEW chunks, NEW bad, NEW m \in Nat, NEW cut \in [0..m -> 0..Len(bytes)], NEW seqs,
           seqs = [n \in 1..m |-> seqs[n]],
           \A n \in 1..m : cut[n - 1] <= cut[n] /\ Delivers(bytes, chunks, bad, seqs[n], cut[n - 1], cut[n])
    PROVE  Delivers(bytes, chunks, bad, FlattenSeq(seqs), cut[0], cut[m])
<1> DEFINE may == bad \in DOMAIN chunks
<1>1. \A n \in 1..m : seqs[n] \in Seq(Int) /\ (seqs[n] = SubSeq(bytes, cut[n - 1] + 1, cut[n]) \/ (may /\ Failed(seqs[n])))
    BY DEF Delivers
<1>2. seqs \in Seq(Seq(Int)) /\ Len(seqs) = m
    <2> DEFINE T == Seq(Int)
    <2>1. \A n \in 1..m : seqs[n] \in T
        BY <1>1
    <2> HIDE DEF T
    <2>2. [n \in 1..m |-> seqs[n]] \in [1..m -> T]
        BY <2>1
    <2>3. seqs \in [1..m -> T]
        BY <2>2
    <2>4. seqs \in Seq(T)
        <3>1. [1..m -> T] \subseteq UNION {[1..n -> T] : n \in Nat}
            OBVIOUS
        <3> QED
            BY <2>3, <3>1, SeqDef, Zenon
    <2>5. Len(seqs) = m
        <3>1. Len(seqs) \in Nat /\ DOMAIN seqs = 1..Len(seqs) /\ DOMAIN seqs = 1..m
            BY <2>3, <2>4
        <3> QED
            BY <3>1
    <2> QED
        BY <2>4, <2>5 DEF T
<1>3. may \in BOOLEAN
    OBVIOUS
<1> HIDE DEF may
<1>4. /\ cut \in [0..Len(seqs) -> 0..Len(bytes)] /\ \A n \in 1..Len(seqs) : cut[n - 1] <= cut[n]
      /\ \A n \in 1..Len(seqs) : seqs[n] = SubSeq(bytes, cut[n - 1] + 1, cut[n]) \/ (may /\ Failed(seqs[n]))
    BY <1>1, <1>2
<1>5. FlattenSeq(seqs) \in Seq(Int)
    BY <1>2, <1>3, <1>4, Slices
<1>6. FlattenSeq(seqs) = SubSeq(bytes, cut[0] + 1, cut[Len(seqs)]) \/ (may /\ Failed(FlattenSeq(seqs)))
    BY <1>2, <1>3, <1>4, Slices
<1> QED
    BY <1>2, <1>5, <1>6 DEF Delivers, may

LEMMA FailedRaised ==
    Raised \in Seq(Int) /\ Failed(Raised)
<1>1. 1 \in DOMAIN <<-1>> /\ <<-1>>[1] = -1 /\ <<-1>> \in Seq(Int)
    OBVIOUS
<1> QED
    BY <1>1 DEF Raised, Failed

\* A range of a wrapped group is read right when the ranges of its entries are.
LEMMA WrapRead ==
    ASSUME NEW bytes \in Seq(Int), NEW level \in Levels, NEW bad, NEW k, NEW n, NEW unit, Wrapped(bytes, level, k, n, unit),
           \A i \in 1..Len(RowsOf(bytes, level)[k]) :
               Place(RowsOf(bytes, level)[k], i, unit)
                   \in Readable(bytes, Split(bytes, level).chunks, bad, ReadTree(Split(bytes, level).chunks, bad))
    PROVE  Place(RowsOf(bytes, level)[k + 1], n, GroupShape(level).data * unit)
               \in Readable(bytes, Split(bytes, level).chunks, bad, ReadTree(Split(bytes, level).chunks, bad))
<1> DEFINE rows == RowsOf(bytes, level)
           W == GroupShape(level).data
           chunks == Split(bytes, level).chunks
           f == ReadTree(chunks, bad)
           ref == rows[k + 1][n].ref
           total == rows[k + 1][n].length
           base == (n - 1) * (W * unit)
<1>1. ref \in DOMAIN chunks /\ total = Total(Group(rows[k], n, W)) /\ total > PayloadSize
    BY WrapChunk
<1>2. base \in Nat /\ total \in Nat /\ base + total <= Len(bytes)
    BY WrappedPlace
<1>3. /\ ~Malformed(chunks, chunks[ref]) /\ Unit(chunks, chunks[ref]) = unit /\ unit \in Nat \ {0}
      /\ DecodeSpan(chunks[ref]) = total
    BY <1>1, WrappedChunk
<1>4. chunks[ref].refs[1] \in DOMAIN chunks
    <2>1. 1 \in 1..Len(chunks[ref].refs)
        <3>1. chunks[ref].refs \in Seq(DOMAIN chunks) /\ chunks[ref].refs # <<>>
            BY <1>1, <1>3, StoreMade DEF Store, Sound, Malformed
        <3> HIDE DEF chunks, ref
        <3> QED
            BY <3>1
    <2>2. chunks[ref].refs \in Seq(DOMAIN chunks)
        BY <1>1, StoreMade DEF Store, Sound
    <2> HIDE DEF chunks, ref
    <2> QED
        BY <2>1, <2>2, ElementOfSeq
<1>5. \A q \in Requests(chunks) : f[q] = ReadStep(chunks, bad, f, q)
    BY StoreMade, ReadDefined
<1>6. ASSUME NEW s \in Nat, NEW e \in Nat, s < e, e <= total
      PROVE  Delivers(bytes, chunks, bad, f[Request(ref, s, e)], base + s, base + e)
    <2> DEFINE r == Request(ref, s, e)
               first == s \div unit
               m == CeilDiv(e, unit) - first
               got(j) == ReadChild(chunks, bad, f, r, first + j - 1)
               seqs == [j \in 1..m |-> got(j)]
               cut == [j \in 0..m |-> base + At(s, e, unit, j)]
    <2>1. r.ref = ref /\ r.start = s /\ r.end = e
        BY DEF Request
    <2>2. unit \in Nat \ {0} /\ total \in Nat /\ s < e /\ e <= total
        BY <1>2, <1>3, <1>6
    <2>3. first \in Nat /\ m \in Nat \ {0} /\ Min({CeilDiv(e, unit), CeilDiv(total, unit)}) - 1 = first + m - 1
        <3> HIDE DEF total
        <3>1. first \in Nat
            BY <2>2, Cuts
        <3>2. m \in Nat \ {0}
            BY <2>2, Cuts
        <3>3. Min({CeilDiv(e, unit), CeilDiv(total, unit)}) - 1 = first + m - 1
            <4>1. Ends(s, e, unit, total)
                BY <2>2, Cuts
            <4> QED
                BY <4>1 DEF Ends
        <3> QED
            BY <3>1, <3>2, <3>3
    <2>4. At(s, e, unit, 0) = s /\ At(s, e, unit, m) = e
        <3> HIDE DEF total
        <3>1. Ends(s, e, unit, total)
            BY <2>2, Cuts
        <3> QED
            BY <3>1 DEF Ends
    <2>5. ASSUME NEW j \in 1..m PROVE Cut(s, e, unit, total, j)
        <3> HIDE DEF total
        <3> QED
            BY <2>2, Cuts
    <2>6. ASSUME NEW j \in 1..m
          PROVE  Delivers(bytes, chunks, bad, got(j), base + At(s, e, unit, j - 1), base + At(s, e, unit, j))
        BY <1>6, PieceRead
    <2>7. f[r] = ReadStep(chunks, bad, f, r)
        <3>1. r \in Requests(chunks)
            BY <1>1, <1>3, <1>6 DEF Requests, Request
        <3> HIDE DEF r, chunks, f
        <3> QED
            BY <1>5, <3>1
    <2>8. First(chunks, r) = first /\ Final(chunks, r) - First(chunks, r) + 1 = m
        <3>1. First(chunks, r) = first
            BY <1>3, <2>1 DEF First
        <3>2. Final(chunks, r) = first + m - 1
            BY <1>3, <2>1, <2>3 DEF Final
        <3> HIDE DEF first, m
        <3> QED
            BY <2>3, <3>1, <3>2
    <2>9. /\ chunks[ref].refs[1] = bad => f[r] = Raised
          /\ chunks[ref].refs[1] # bad => f[r] = FlattenSeq(seqs)
        <3> HIDE DEF r, chunks, f, ref, first, m
        <3>1. DecodeSpan(chunks[r.ref]) \in Nat /\ DecodeSpan(chunks[r.ref]) > PayloadSize /\ ~Malformed(chunks, chunks[r.ref])
            BY <1>1, <1>2, <1>3, <2>1
        <3>2. chunks[r.ref].refs[1] = bad => ReadStep(chunks, bad, f, r) = Raised
            BY <3>1, LongRead
        <3>3. chunks[r.ref].refs[1] # bad =>
                  ReadStep(chunks, bad, f, r) =
                      FlattenSeq([j \in 1..(Final(chunks, r) - First(chunks, r) + 1) |->
                                      ReadChild(chunks, bad, f, r, First(chunks, r) + j - 1)])
            BY <3>1, LongRead
        <3>4. [j \in 1..(Final(chunks, r) - First(chunks, r) + 1) |-> ReadChild(chunks, bad, f, r, First(chunks, r) + j - 1)]
                  = seqs
            BY <2>8
        <3> HIDE DEF seqs
        <3> QED
            BY <2>1, <2>7, <3>2, <3>3, <3>4
    <2>10. CASE chunks[ref].refs[1] = bad
        <3> HIDE DEF r, chunks, f, ref
        <3>1. f[r] = Raised /\ bad \in DOMAIN chunks
            BY <1>4, <2>9, <2>10
        <3>2. Delivers(bytes, chunks, bad, f[r], base + s, base + e)
            BY <3>1, FailedRaised DEF Delivers
        <3> QED
            BY <3>2 DEF r
    <2>11. CASE chunks[ref].refs[1] # bad
        <3> HIDE DEF chunks, f, ref, base, total, m, got, r, first
        <3>1. \A j \in 0..m : At(s, e, unit, j) \in Nat /\ At(s, e, unit, j) <= e
            <4>1. \A j \in 1..m : At(s, e, unit, j) \in Nat /\ At(s, e, unit, j) <= e
                BY <2>5 DEF Cut
            <4>2. \A j \in 0..m : j = 0 \/ j \in 1..m
                BY <2>3
            <4> QED
                BY <1>6, <2>4, <4>1, <4>2
        <3>2. cut \in [0..m -> 0..Len(bytes)]
            <4>1. \A j \in 0..m : base + At(s, e, unit, j) \in 0..Len(bytes)
                BY <1>2, <1>6, <3>1
            <4> QED
                BY <4>1
        <3>3. ASSUME NEW j \in 1..m
              PROVE  /\ cut[j - 1] = base + At(s, e, unit, j - 1) /\ cut[j] = base + At(s, e, unit, j)
                     /\ cut[j - 1] <= cut[j] /\ seqs[j] = got(j)
            <4>1. j - 1 \in 0..m /\ j \in 0..m
                BY <2>3
            <4>2. cut[j - 1] = base + At(s, e, unit, j - 1) /\ cut[j] = base + At(s, e, unit, j)
                BY <4>1
            <4>3. At(s, e, unit, j - 1) < At(s, e, unit, j) /\ At(s, e, unit, j - 1) \in Nat /\ At(s, e, unit, j) \in Nat
                BY <2>5 DEF Cut
            <4> QED
                BY <1>2, <4>2, <4>3
        <3>4. cut[0] = base + s /\ cut[m] = base + e
            <4>1. 0 \in 0..m /\ m \in 0..m
                BY <2>3
            <4> QED
                BY <2>4, <4>1
        <3>5. seqs = [j \in 1..m |-> seqs[j]]
            OBVIOUS
        <3> HIDE DEF seqs, cut
        <3>6. \A j \in 1..m : cut[j - 1] <= cut[j] /\ Delivers(bytes, chunks, bad, seqs[j], cut[j - 1], cut[j])
            BY <2>6, <3>3
        <3>7. m \in Nat
            BY <2>3
        <3>8. Delivers(bytes, chunks, bad, FlattenSeq(seqs), cut[0], cut[m])
            BY <3>2, <3>5, <3>6, <3>7, Joined
        <3>9. Delivers(bytes, chunks, bad, f[r], base + s, base + e)
            BY <2>9, <2>11, <3>4, <3>8
        <3> QED
            BY <3>9 DEF r
    <2> QED
        BY <2>10, <2>11
<1> HIDE DEF rows, chunks, f, ref, total, base
<1>7. <<ref, base, total>> \in Readable(bytes, chunks, bad, f)
    BY <1>1, <1>2, <1>6 DEF Readable
<1> QED
    BY <1>7 DEF Place, rows, chunks, f, ref, total, base

\* The last row has the root only, for all of the content.
LEMMA RootPlace ==
    ASSUME NEW bytes \in Seq(Int), NEW level \in Levels, NEW Good,
           \A i \in 1..Len(RowsOf(bytes, level)[1]) : Place(RowsOf(bytes, level)[1], i, PayloadSize) \in Good,
           \A k, n, unit :
               /\ Wrapped(bytes, level, k, n, unit)
               /\ \A i \in 1..Len(RowsOf(bytes, level)[k]) : Place(RowsOf(bytes, level)[k], i, unit) \in Good
               => Place(RowsOf(bytes, level)[k + 1], n, GroupShape(level).data * unit) \in Good
    PROVE  <<Split(bytes, level).root, 0, Len(bytes)>> \in Good
<1> DEFINE rows == RowsOf(bytes, level)
           L == Len(rows)
           top == rows[L]
<1>1. L \in Nat /\ L >= 1 /\ Len(top) <= 1 /\ L \in 1..L /\ rows \in Seq(Seq(Entries))
    BY TreeRows DEF Chain
<1>2. PICK unit : Even(top, Len(bytes), unit) /\ \A i \in 1..Len(top) : Place(top, i, unit) \in Good
    BY <1>1, TreeInduction
<1>3. Split(bytes, level).root = top[1].ref
    BY TreeChunks DEF Last
<1> HIDE DEF rows, top, L
<1>4. /\ Len(top) = 1 /\ 1 \in 1..Len(top) /\ unit \in Nat /\ Len(bytes) \in Nat
      /\ top[1].length = End(top, Len(bytes), unit, 1) - (1 - 1) * unit
    <2>1. top \in Seq(Entries) /\ Len(top) >= 1 /\ Len(top) \in Nat
        BY <1>2 DEF Even
    <2>2. Len(top) <= 1
        BY <1>1
    <2>3. \A q \in Nat : q >= 1 /\ q <= 1 => q = 1 /\ 1 \in 1..q
        OBVIOUS
    <2>4. Len(top) = 1 /\ 1 \in 1..Len(top)
        BY <2>1, <2>2, <2>3, Zenon
    <2> QED
        BY <1>2, <2>4 DEF Even
<1>5. (1 - 1) * unit = 0
    BY <1>4
<1>6. top[1].length = Len(bytes)
    BY <1>4, <1>5 DEF End
<1>7. Place(top, 1, unit) = <<top[1].ref, 0, Len(bytes)>>
    BY <1>5, <1>6 DEF Place
<1> QED
    BY <1>2, <1>3, <1>4, <1>7

LEMMA TreeRead ==
    ASSUME NEW bytes \in Seq(Int), NEW level \in Levels, NEW bad
    PROVE  LET tree == Split(bytes, level)
           IN  <<tree.root, 0, Len(bytes)>> \in Readable(bytes, tree.chunks, bad, ReadTree(tree.chunks, bad))
<1> DEFINE chunks == Split(bytes, level).chunks
           Good == Readable(bytes, chunks, bad, ReadTree(chunks, bad))
<1>1. \A i \in 1..Len(RowsOf(bytes, level)[1]) : Place(RowsOf(bytes, level)[1], i, PayloadSize) \in Good
    BY LeafRead
<1>2. \A k, n, unit :
          /\ Wrapped(bytes, level, k, n, unit)
          /\ \A i \in 1..Len(RowsOf(bytes, level)[k]) : Place(RowsOf(bytes, level)[k], i, unit) \in Good
          => Place(RowsOf(bytes, level)[k + 1], n, GroupShape(level).data * unit) \in Good
    BY WrapRead
<1> HIDE DEF Good
<1>3. <<Split(bytes, level).root, 0, Len(bytes)>> \in Good
    BY <1>1, <1>2, RootPlace
<1> QED
    BY <1>3 DEF Good

(***************************************************************************)
(* The reader that goes through all of a tree.                             *)
(***************************************************************************)
Iterable(bytes, chunks, bad, f) ==
    {t \in (DOMAIN chunks) \X Nat \X Nat : Delivers(bytes, chunks, bad, f[t[1]], t[2], t[2] + t[3])}

LEMMA IterableAll ==
    ASSUME NEW bytes, NEW chunks, NEW bad, NEW f, NEW ref, NEW low, NEW length
    PROVE  <<ref, low, length>> \in Iterable(bytes, chunks, bad, f) <=>
               /\ ref \in DOMAIN chunks /\ low \in Nat /\ length \in Nat
               /\ Delivers(bytes, chunks, bad, f[ref], low, low + length)
<1> DEFINE t == <<ref, low, length>>
<1>1. t[1] = ref /\ t[2] = low /\ t[3] = length
    OBVIOUS
<1>2. t \in (DOMAIN chunks) \X Nat \X Nat <=> ref \in DOMAIN chunks /\ low \in Nat /\ length \in Nat
    OBVIOUS
<1>3. t \in Iterable(bytes, chunks, bad, f) <=>
          t \in (DOMAIN chunks) \X Nat \X Nat /\ Delivers(bytes, chunks, bad, f[t[1]], t[2], t[2] + t[3])
    BY DEF Iterable
<1> HIDE DEF t
<1>4. t \in Iterable(bytes, chunks, bad, f) <=>
          /\ ref \in DOMAIN chunks /\ low \in Nat /\ length \in Nat
          /\ Delivers(bytes, chunks, bad, f[ref], low, low + length)
    BY <1>1, <1>2, <1>3
<1> QED
    BY <1>4 DEF t

\* What a step of the iteration gives, by the kind of chunk.
Gives(chunks, bad, f, ref) ==
    LET size == DecodeSpan(chunks[ref])
        given == IterStep(chunks, bad, f, ref)
    IN  /\ ref = bad => given = Raised
        /\ ref # bad /\ size <= PayloadSize => given = SubSeq(chunks[ref].payload, 1, size)
        /\ ref # bad /\ size > PayloadSize /\ chunks[ref].refs[1] = bad => given = Raised
        /\ ref # bad /\ size > PayloadSize /\ chunks[ref].refs[1] # bad /\ ~Malformed(chunks, chunks[ref]) =>
               given = FlattenSeq([n \in 1..CeilDiv(size, Unit(chunks, chunks[ref])) |-> f[chunks[ref].refs[n]]])

LEMMA IterCases ==
    ASSUME NEW chunks, NEW bad, NEW f, NEW ref, DecodeSpan(chunks[ref]) \in Nat
    PROVE  Gives(chunks, bad, f, ref)
<1> DEFINE chunk == chunks[ref]
           size == DecodeSpan(chunk)
           given == IterStep(chunks, bad, f, ref)
           part == SubSeq(chunk.payload, 1, size)
           pieces == FlattenSeq([n \in 1..CeilDiv(size, Unit(chunks, chunk)) |-> f[chunk.refs[n]]])
<1>1. given =
          CASE ref = bad -> Raised
            [] ref # bad /\ size <= PayloadSize -> part
            [] ref # bad /\ size > PayloadSize /\ (Malformed(chunks, chunk) \/ chunk.refs[1] = bad) -> Raised
            [] OTHER -> pieces
    BY DEF IterStep
<1>2. size \in Nat /\ PayloadSize \in Nat
    BY ChunkAssumption
<1> HIDE DEF size, part, pieces, given
<1>3. ref = bad => given = Raised
    BY <1>1
<1>4. ref # bad /\ size <= PayloadSize => given = part
    BY <1>1, <1>2
<1>5. ref # bad /\ size > PayloadSize /\ chunk.refs[1] = bad => given = Raised
    BY <1>1, <1>2
<1>6. ref # bad /\ size > PayloadSize /\ chunk.refs[1] # bad /\ ~Malformed(chunks, chunk) => given = pieces
    BY <1>1, <1>2
<1> QED
    BY <1>3, <1>4, <1>5, <1>6 DEF Gives, size, part, pieces, given

LEMMA LeafIterated ==
    ASSUME NEW bytes \in Seq(Int), NEW level \in Levels, NEW bad, NEW i \in 1..Len(RowsOf(bytes, level)[1]), NEW f,
           \A ref \in DOMAIN Split(bytes, level).chunks : f[ref] = IterStep(Split(bytes, level).chunks, bad, f, ref)
    PROVE  Place(RowsOf(bytes, level)[1], i, PayloadSize) \in Iterable(bytes, Split(bytes, level).chunks, bad, f)
<1> DEFINE row == RowsOf(bytes, level)[1]
           chunks == Split(bytes, level).chunks
           ref == row[i].ref
           g == Group(bytes, i, PayloadSize)
           low == (i - 1) * PayloadSize
<1>1. ref \in DOMAIN chunks /\ chunks[ref] = Leaf(g)
    BY LeafChunk
<1>2. /\ g \in Seq(Int) /\ Len(g) \in Nat /\ Len(g) <= PayloadSize /\ row[i].length = Len(g)
      /\ low \in Nat /\ low + Len(g) <= Len(bytes) /\ \A j \in 1..Len(g) : g[j] = bytes[low + j]
    <2>1. g \in Seq(Int) /\ Len(g) \in Nat
        BY LeafHolds
    <2>2. Len(g) <= PayloadSize
        BY LeafHolds
    <2>3. row[i].length = Len(g)
        BY LeafHolds
    <2>4. low \in Nat
        BY LeafHolds
    <2>5. low + Len(g) <= Len(bytes)
        BY LeafHolds
    <2>6. \A j \in 1..Len(g) : g[j] = bytes[low + j]
        BY LeafHolds
    <2> QED
        BY <2>1, <2>2, <2>3, <2>4, <2>5, <2>6
<1>3. f[ref] = IterStep(chunks, bad, f, ref)
    BY <1>1
<1> HIDE DEF row, chunks, ref, g, low
<1>4. DecodeSpan(chunks[ref]) = Len(g) /\ chunks[ref].payload = g
    BY <1>1, <1>2, LeafSpans
<1>5. DecodeSpan(chunks[ref]) \in Nat /\ DecodeSpan(chunks[ref]) <= PayloadSize
    BY <1>2, <1>4
<1>6. Gives(chunks, bad, f, ref)
    BY <1>5, IterCases
<1>7. ref = bad => f[ref] = Raised
    BY <1>3, <1>6 DEF Gives
<1>8. ref # bad => f[ref] = SubSeq(g, 0 + 1, Len(g))
    <2>1. ref # bad => f[ref] = SubSeq(chunks[ref].payload, 1, DecodeSpan(chunks[ref]))
        BY <1>3, <1>5, <1>6 DEF Gives
    <2> QED
        BY <1>4, <2>1
<1>9. SubSeq(g, 0 + 1, Len(g)) \in Seq(Int) /\ SubSeq(g, 0 + 1, Len(g)) = SubSeq(bytes, (low + 0) + 1, low + Len(g))
    <2>1. 0 \in Nat /\ Len(g) \in Nat /\ 0 <= Len(g) /\ Len(g) <= Len(g)
        BY <1>2
    <2>2. /\ g \in Seq(Int) /\ low \in Nat /\ low + Len(g) <= Len(bytes)
          /\ \A j \in 1..Len(g) : g[j] = bytes[low + j]
        BY <1>2
    <2>3. SubSeq(g, 0 + 1, Len(g)) \in Seq(Int)
        BY <2>1, <2>2, SubSlice
    <2>4. SubSeq(g, 0 + 1, Len(g)) = SubSeq(bytes, (low + 0) + 1, low + Len(g))
        BY <2>1, <2>2, SubSlice
    <2> QED
        BY <2>3, <2>4
<1>10. low + 0 = low
    BY <1>2
<1>11. Delivers(bytes, chunks, bad, f[ref], low, low + Len(g))
    BY <1>1, <1>7, <1>8, <1>9, <1>10, FailedRaised DEF Delivers
<1>12. <<ref, low, Len(g)>> \in Iterable(bytes, chunks, bad, f)
    BY <1>1, <1>2, <1>11, IterableAll
<1> QED
    BY <1>2, <1>12 DEF Place, row, chunks, ref, low

\* What the iteration gives of the i-th entry of a group.
LEMMA PieceIterated ==
    ASSUME NEW bytes \in Seq(Int), NEW level \in Levels, NEW bad, NEW k, NEW n, NEW unit, Wrapped(bytes, level, k, n, unit),
           NEW f,
           \A i \in 1..Len(RowsOf(bytes, level)[k]) :
               Place(RowsOf(bytes, level)[k], i, unit) \in Iterable(bytes, Split(bytes, level).chunks, bad, f),
           NEW i \in 1..Len(Group(RowsOf(bytes, level)[k], n, GroupShape(level).data))
    PROVE  LET chunks == Split(bytes, level).chunks
               g == Group(RowsOf(bytes, level)[k], n, GroupShape(level).data)
               base == (n - 1) * (GroupShape(level).data * unit)
           IN  Delivers(bytes, chunks, bad, f[chunks[RowsOf(bytes, level)[k + 1][n].ref].refs[i]],
                        base + (i - 1) * unit, base + (IF i = Len(g) THEN Total(g) ELSE i * unit))
<1> DEFINE rows == RowsOf(bytes, level)
           W == GroupShape(level).data
           chunks == Split(bytes, level).chunks
           chunk == chunks[rows[k + 1][n].ref]
           g == Group(rows[k], n, W)
           total == Total(g)
           P == (n - 1) * W
           j == P + i
           base == (n - 1) * (W * unit)
           end == IF i = Len(g) THEN total ELSE i * unit
<1>1. /\ k \in Nat /\ k >= 1 /\ k + 1 \in 1..Len(rows) /\ n \in 1..Len(rows[k + 1]) /\ Even(rows[k], Len(bytes), unit)
    BY DEF Wrapped
<1>2. total \in Nat /\ unit \in Nat
    BY WrapChunk, WrappedChunk
<1>3. /\ j \in 1..Len(rows[k]) /\ chunk.refs[i] = rows[k][j].ref
      /\ DecodeSpan(chunks[chunk.refs[i]]) = end - (i - 1) * unit
    <2>1. Child(bytes, level, k, n, unit, i)
        BY WrappedChunk
    <2> QED
        BY <2>1 DEF Child
<1>4. P \in Nat /\ base = P * unit /\ Len(g) \in Nat
    <2>1. P \in Nat
        BY <1>1, Wraps
    <2>2. base = P * unit
        BY <1>1, GroupPieces
    <2>3. g \in Seq(Entries)
        BY <1>1, Wraps
    <2> HIDE DEF g
    <2> QED
        BY <2>1, <2>2, <2>3
<1>5. rows[k][j].length = end - (i - 1) * unit
    <2>1. k \in 1..Len(rows)
        BY <1>1, TreeRows
    <2>2. DecodeSpan(chunks[rows[k][j].ref]) = rows[k][j].length
        BY <1>3, <2>1, EntrySpans
    <2> HIDE DEF rows, chunks, j, end, chunk
    <2> QED
        BY <1>3, <2>2
<1>6. Place(rows[k], j, unit) \in Iterable(bytes, chunks, bad, f)
    BY <1>3
<1> HIDE DEF rows, chunks, chunk, g, total, P
<1>7. i \in Nat /\ i >= 1
    BY <1>4 DEF g, rows, W
<1>8. (j - 1) * unit = base + (i - 1) * unit
    <2>1. j - 1 = P + (i - 1)
        BY <1>4, <1>7
    <2>2. (P + (i - 1)) * unit = P * unit + (i - 1) * unit
        BY <1>2, <1>4, <1>7
    <2> HIDE DEF j, base
    <2> QED
        BY <1>4, <2>1, <2>2
<1>9. base \in Int /\ (i - 1) * unit \in Int /\ end \in Int
    <2>1. P * unit \in Int /\ (i - 1) * unit \in Int /\ i * unit \in Int
        BY <1>2, <1>4, <1>7
    <2> HIDE DEF base
    <2> QED
        BY <1>2, <1>4, <2>1
<1> HIDE DEF j, base, end
<1>10. Place(rows[k], j, unit) = <<chunk.refs[i], base + (i - 1) * unit, end - (i - 1) * unit>>
    BY <1>3, <1>5, <1>8 DEF Place
<1>11. Delivers(bytes, chunks, bad, f[chunk.refs[i]], base + (i - 1) * unit, (base + (i - 1) * unit) + (end - (i - 1) * unit))
    BY <1>6, <1>10, IterableAll
<1>12. (base + (i - 1) * unit) + (end - (i - 1) * unit) = base + end
    BY <1>9
<1>13. Delivers(bytes, chunks, bad, f[chunk.refs[i]], base + (i - 1) * unit, base + end)
    BY <1>11, <1>12
<1> QED
    BY <1>13 DEF rows, chunks, chunk, g, total, base, end

LEMMA WrapIterated ==
    ASSUME NEW bytes \in Seq(Int), NEW level \in Levels, NEW bad, NEW k, NEW n, NEW unit, Wrapped(bytes, level, k, n, unit),
           NEW f,
           \A ref \in DOMAIN Split(bytes, level).chunks : f[ref] = IterStep(Split(bytes, level).chunks, bad, f, ref),
           \A i \in 1..Len(RowsOf(bytes, level)[k]) :
               Place(RowsOf(bytes, level)[k], i, unit) \in Iterable(bytes, Split(bytes, level).chunks, bad, f)
    PROVE  Place(RowsOf(bytes, level)[k + 1], n, GroupShape(level).data * unit)
               \in Iterable(bytes, Split(bytes, level).chunks, bad, f)
<1> DEFINE rows == RowsOf(bytes, level)
           W == GroupShape(level).data
           chunks == Split(bytes, level).chunks
           ref == rows[k + 1][n].ref
           g == Group(rows[k], n, W)
           total == rows[k + 1][n].length
           base == (n - 1) * (W * unit)
           count == Len(g)
           seqs == [i \in 1..count |-> f[chunks[ref].refs[i]]]
           end(i) == IF i = count THEN total ELSE i * unit
           cut == [i \in 0..count |-> base + end(i)]
<1>1. ref \in DOMAIN chunks /\ total = Total(g) /\ total > PayloadSize
    BY WrapChunk
<1>2. base \in Nat /\ total \in Nat /\ base + total <= Len(bytes)
    BY WrappedPlace
<1>3. /\ ~Malformed(chunks, chunks[ref]) /\ Unit(chunks, chunks[ref]) = unit /\ unit \in Nat \ {0}
      /\ DecodeSpan(chunks[ref]) = total /\ CeilDiv(total, unit) = count
    BY <1>1, WrappedChunk
<1>4. chunks[ref].refs[1] \in DOMAIN chunks
    <2>1. chunks[ref].refs \in Seq(DOMAIN chunks) /\ chunks[ref].refs # <<>>
        BY <1>1, <1>3, StoreMade DEF Store, Sound, Malformed
    <2> HIDE DEF chunks, ref
    <2>2. 1 \in 1..Len(chunks[ref].refs)
        BY <2>1
    <2> QED
        BY <2>1, <2>2, ElementOfSeq
<1>5. f[ref] = IterStep(chunks, bad, f, ref)
    BY <1>1
<1>6. count \in Nat /\ count >= 1 /\ (count - 1) * unit < total
    <2>1. /\ k \in Nat /\ k >= 1 /\ k + 1 \in 1..Len(rows) /\ n \in 1..Len(rows[k + 1]) /\ Even(rows[k], Len(bytes), unit)
        BY DEF Wrapped
    <2>2. count \in 1..W /\ W \in Nat
        <3>1. count \in 1..W
            BY <2>1, Wraps
        <3> QED
            BY <3>1, ShapeOf
    <2>3. (count - 1) * unit < Total(g)
        BY <2>1, Wraps
    <2> HIDE DEF count, g, total, W
    <2> QED
        BY <1>1, <2>2, <2>3 DEF count
<1>7. ASSUME NEW i \in 1..count
      PROVE  Delivers(bytes, chunks, bad, f[chunks[ref].refs[i]], base + (i - 1) * unit, base + end(i))
    <2>1. Delivers(bytes, chunks, bad, f[chunks[ref].refs[i]],
                   base + (i - 1) * unit, base + (IF i = Len(g) THEN Total(g) ELSE i * unit))
        BY PieceIterated
    <2> HIDE DEF chunks, ref, base, g, total
    <2> QED
        BY <1>1, <2>1
<1> HIDE DEF rows, chunks, ref, g, base, total, count
<1>8. ASSUME NEW i \in 0..count PROVE end(i) \in Nat /\ end(i) <= total
    <2>1. CASE i = count
        BY <1>2, <2>1
    <2>2. CASE i # count
        <3>1. i \in Nat /\ i <= count - 1 /\ count - 1 \in Int /\ i \in Int
            BY <1>6, <2>2
        <3>2. i * unit <= (count - 1) * unit
            BY <1>3, <3>1, TimesMonotone
        <3>3. \A x, y \in Nat : x * y \in Nat
            OBVIOUS
        <3>4. i * unit \in Nat /\ (count - 1) * unit \in Nat
            BY <1>3, <1>6, <3>1, <3>3
        <3> QED
            BY <1>2, <1>6, <2>2, <3>2, <3>4
    <2> QED
        BY <2>1, <2>2
<1>9. cut \in [0..count -> 0..Len(bytes)]
    <2>1. \A i \in 0..count : base + end(i) \in 0..Len(bytes)
        <3> HIDE DEF end
        <3> QED
            BY <1>2, <1>8
    <2> HIDE DEF end
    <2> QED
        BY <2>1
<1>10. ASSUME NEW i \in 1..count
       PROVE  /\ cut[i - 1] = base + (i - 1) * unit /\ cut[i] = base + end(i) /\ cut[i - 1] <= cut[i]
              /\ seqs[i] = f[chunks[ref].refs[i]]
    <2>1. i - 1 \in 0..count /\ i \in 0..count /\ i - 1 # count /\ i \in Nat
        BY <1>6
    <2>2. cut[i - 1] = base + (i - 1) * unit /\ cut[i] = base + end(i)
        BY <2>1
    <2>3. (i - 1) * unit <= end(i)
        <3>1. CASE i = count
            <4>1. (i - 1) * unit \in Int
                BY <1>3, <2>1
            <4> QED
                BY <1>2, <1>6, <3>1, <4>1
        <3>2. CASE i # count
            <4>1. i - 1 <= i /\ i - 1 \in Int /\ i \in Int
                BY <2>1
            <4> QED
                BY <1>3, <3>2, <4>1, TimesMonotone
        <3> QED
            BY <3>1, <3>2
    <2>4. (i - 1) * unit \in Int /\ end(i) \in Int
        BY <1>3, <1>8, <2>1
    <2> HIDE DEF end, cut
    <2> QED
        BY <1>2, <2>2, <2>3, <2>4
<1>11. cut[0] = base /\ cut[count] = base + total
    <2>1. 0 \in 0..count /\ count \in 0..count /\ 0 # count /\ 0 * unit = 0
        BY <1>3, <1>6
    <2> QED
        BY <1>2, <2>1
<1>12. seqs = [i \in 1..count |-> seqs[i]]
    OBVIOUS
<1> HIDE DEF cut, end
<1>13. \A i \in 1..count : cut[i - 1] <= cut[i] /\ Delivers(bytes, chunks, bad, seqs[i], cut[i - 1], cut[i])
    BY <1>7, <1>10
<1> HIDE DEF seqs
<1>14. Delivers(bytes, chunks, bad, FlattenSeq(seqs), base, base + total)
    <2>1. Delivers(bytes, chunks, bad, FlattenSeq(seqs), cut[0], cut[count])
        BY <1>6, <1>9, <1>12, <1>13, Joined
    <2> QED
        BY <1>11, <2>1
<1>15. Delivers(bytes, chunks, bad, f[ref], base, base + total)
    <2>1. DecodeSpan(chunks[ref]) \in Nat /\ DecodeSpan(chunks[ref]) > PayloadSize
        BY <1>1, <1>2, <1>3
    <2>2. Gives(chunks, bad, f, ref)
        BY <2>1, IterCases
    <2>3. CASE ref = bad
        <3>1. f[ref] = Raised
            BY <1>5, <2>3, <2>2 DEF Gives
        <3> QED
            BY <1>1, <2>3, <3>1, FailedRaised DEF Delivers
    <2>4. CASE ref # bad /\ chunks[ref].refs[1] = bad
        <3>1. f[ref] = Raised
            BY <1>5, <2>1, <2>4, <2>2 DEF Gives
        <3> QED
            BY <1>4, <2>4, <3>1, FailedRaised DEF Delivers
    <2>5. CASE ref # bad /\ chunks[ref].refs[1] # bad
        <3>1. f[ref] = FlattenSeq([i \in 1..CeilDiv(DecodeSpan(chunks[ref]), Unit(chunks, chunks[ref])) |-> f[chunks[ref].refs[i]]])
            BY <1>3, <1>5, <2>1, <2>5, <2>2 DEF Gives
        <3>2. f[ref] = FlattenSeq(seqs)
            BY <1>3, <3>1 DEF seqs
        <3> QED
            BY <1>14, <3>2
    <2> QED
        BY <2>3, <2>4, <2>5
<1>16. <<ref, base, total>> \in Iterable(bytes, chunks, bad, f)
    BY <1>1, <1>2, <1>15, IterableAll
<1> QED
    BY <1>16 DEF Place, rows, chunks, ref, base, total

LEMMA TreeIterated ==
    ASSUME NEW bytes \in Seq(Int), NEW level \in Levels, NEW bad
    PROVE  Delivers(bytes, Split(bytes, level).chunks, bad, IterTree(Split(bytes, level), bad), 0, Len(bytes))
<1> DEFINE tree == Split(bytes, level)
<1>1. PICK f : /\ IterTree(tree, bad) = f[tree.root]
               /\ \A ref \in DOMAIN tree.chunks : f[ref] = IterStep(tree.chunks, bad, f, ref)
    BY StoreMade, IterDefined
<1> DEFINE Good == Iterable(bytes, tree.chunks, bad, f)
<1>2. \A i \in 1..Len(RowsOf(bytes, level)[1]) : Place(RowsOf(bytes, level)[1], i, PayloadSize) \in Good
    BY <1>1, LeafIterated
<1>3. \A k, n, unit :
          /\ Wrapped(bytes, level, k, n, unit)
          /\ \A i \in 1..Len(RowsOf(bytes, level)[k]) : Place(RowsOf(bytes, level)[k], i, unit) \in Good
          => Place(RowsOf(bytes, level)[k + 1], n, GroupShape(level).data * unit) \in Good
    BY <1>1, WrapIterated
<1> HIDE DEF Good
<1>4. <<tree.root, 0, Len(bytes)>> \in Good
    BY <1>2, <1>3, RootPlace
<1>5. Delivers(bytes, tree.chunks, bad, f[tree.root], 0, 0 + Len(bytes))
    BY <1>4, IterableAll DEF Good
<1>6. 0 + Len(bytes) = Len(bytes)
    OBVIOUS
<1> QED
    BY <1>1, <1>5, <1>6

\* The span of the root is the length of the content.
LEMMA RootSpan ==
    ASSUME NEW bytes \in Seq(Int), NEW level \in Levels
    PROVE  DecodeSpan(Split(bytes, level).chunks[Split(bytes, level).root]) = Len(bytes)
<1> DEFINE rows == RowsOf(bytes, level)
           chunks == Split(bytes, level).chunks
           L == Len(rows)
           top == rows[L]
<1>1. L \in Nat /\ L >= 1 /\ Len(top) <= 1 /\ L \in 1..L
    BY TreeRows
<1>2. PICK unit : Even(top, Len(bytes), unit)
    BY <1>1, RowsEven
<1>3. Split(bytes, level).root = top[1].ref
    BY TreeChunks DEF Last
<1>4. 1 \in 1..Len(top) /\ Len(top) = 1 /\ unit \in Nat /\ Len(bytes) \in Nat
    <2>1. Len(top) >= 1 /\ Len(top) \in Nat /\ unit \in Nat
        <3> HIDE DEF top
        <3> QED
            BY <1>2 DEF Even
    <2>2. \A q \in Nat : q >= 1 /\ q <= 1 => q = 1 /\ 1 \in 1..q
        OBVIOUS
    <2>3. Len(top) <= 1
        BY <1>1
    <2>4. Len(bytes) \in Nat
        OBVIOUS
    <2> HIDE DEF top
    <2>5. Len(top) = 1 /\ 1 \in 1..Len(top)
        BY <2>1, <2>2, <2>3, Zenon
    <2> QED
        BY <2>1, <2>4, <2>5
<1>5. DecodeSpan(chunks[top[1].ref]) = top[1].length
    BY <1>1, <1>4, EntrySpans
<1> HIDE DEF top, chunks
<1>6. top[1].length = End(top, Len(bytes), unit, 1) - (1 - 1) * unit
    BY <1>2, <1>4 DEF Even
<1>7. (1 - 1) * unit = 0
    BY <1>4
<1>8. top[1].length = Len(bytes)
    BY <1>4, <1>6, <1>7 DEF End
<1> QED
    BY <1>3, <1>5, <1>8 DEF chunks

\* No chunk is where an honest endpoint's other chunk would be.
LEMMA HonestAbroad ==
    ASSUME NEW bytes \in Seq(Int), NEW level \in Levels
    PROVE  Honest \notin DOMAIN Split(bytes, level).chunks
<1> DEFINE rows == RowsOf(bytes, level)
           p == GroupShape(level).parity
<1>1. DOMAIN Split(bytes, level).chunks = Data(rows) \union Parity(rows, p)
    BY TreeChunks
<1>2. Len(rows) \in Nat
    BY TreeRows
<1>3. Honest.row = 0
    BY DEF Honest, Ref
<1>4. Honest \notin Data(rows)
    <2> SUFFICES ASSUME Honest \in Data(rows) PROVE FALSE
        OBVIOUS
    <2>1. Honest.row \in 1..Len(rows)
        BY DataMade
    <2> HIDE DEF rows
    <2> QED
        BY <1>2, <1>3, <2>1
<1>5. Honest \notin Parity(rows, p)
    <2> SUFFICES ASSUME Honest \in Parity(rows, p) PROVE FALSE
        OBVIOUS
    <2>1. PICK r \in Data(rows), n \in 1..p : r.row > 1 /\ Honest = [r EXCEPT !.parity = n]
        BY DEF Parity
    <2>2. r = Ref(r.row, r.at, 0)
        BY DataMade
    <2>3. Honest.row = r.row
        BY <2>1, <2>2 DEF Ref
    <2> QED
        BY <1>3, <2>1, <2>3
<1> QED
    BY <1>1, <1>4, <1>5

\* A range of a whole tree is what the content has of it, or a failure.
LEMMA RangeRead ==
    ASSUME NEW bytes \in Seq(Int), NEW level \in Levels, NEW bad, NEW start \in Nat, NEW end \in Nat
    PROVE  LET chunks == Split(bytes, level).chunks
               got == BytesGet(Split(bytes, level), start, end, bad)
               s == Min({start, Len(bytes)})
               e == Min({end, Len(bytes)})
           IN  \/ got = SubSeq(bytes, s + 1, e)
               \/ bad \in DOMAIN chunks /\ Failed(got)
<1> DEFINE tree == Split(bytes, level)
           chunks == tree.chunks
           f == ReadTree(chunks, bad)
           got == BytesGet(tree, start, end, bad)
           size == Len(bytes)
           s == Min({start, size})
           e == Min({end, size})
<1>1. DecodeSpan(chunks[tree.root]) = size /\ size \in Nat
    BY RootSpan
<1>2. <<tree.root, 0, size>> \in Readable(bytes, chunks, bad, f)
    BY TreeRead
<1>3. tree.root \in DOMAIN chunks
    <2> DEFINE t == <<tree.root, 0, size>>
    <2>1. t \in (DOMAIN chunks) \X Nat \X Nat
        BY <1>2 DEF Readable
    <2>2. t[1] = tree.root
        OBVIOUS
    <2>3. t[1] \in DOMAIN chunks
        <3> HIDE DEF t, chunks, tree
        <3> QED
            BY <2>1
    <2> HIDE DEF t
    <2> QED
        BY <2>2, <2>3
<1>4. got = IF tree.root = bad THEN Raised ELSE IF e <= s THEN <<>> ELSE f[Request(tree.root, s, e)]
    BY <1>1 DEF BytesGet, Request
<1>5. s \in Nat /\ e \in Nat /\ e <= size
    <2>1. s = (IF start <= size THEN start ELSE size) /\ e = (IF end <= size THEN end ELSE size)
        <3>1. start \in Int /\ end \in Int /\ size \in Int
            BY <1>1
        <3>2. s = (IF start <= size THEN start ELSE size)
            BY <3>1, MinOfTwo
        <3>3. e = (IF end <= size THEN end ELSE size)
            BY <3>1, MinOfTwo
        <3> QED
            BY <3>2, <3>3
    <2> HIDE DEF s, e, size
    <2> QED
        BY <1>1, <2>1
<1> HIDE DEF tree, chunks, f, got, s, e, size
<1>6. CASE tree.root = bad
    <2>1. bad \in DOMAIN chunks /\ Failed(got)
        BY <1>3, <1>4, <1>6, FailedRaised
    <2> QED
        BY <2>1 DEF tree, chunks, got
<1>7. CASE tree.root # bad /\ e <= s
    <2>1. got = <<>>
        BY <1>4, <1>7
    <2>2. SubSeq(bytes, s + 1, e) = <<>>
        <3>1. e < s + 1 /\ s + 1 \in Int /\ e \in Int
            BY <1>5, <1>7
        <3> QED
            BY <3>1, SubSeqEmpty
    <2> QED
        BY <2>1, <2>2 DEF got, tree, s, e, size
<1>8. CASE tree.root # bad /\ s < e
    <2>1. got = f[Request(tree.root, s, e)]
        <3>1. ~(e <= s)
            BY <1>5, <1>8
        <3> QED
            BY <1>4, <1>8, <3>1
    <2>2. Delivers(bytes, chunks, bad, got, 0 + s, 0 + e)
        BY <1>2, <1>5, <1>8, <2>1, ReadableRange
    <2>3. 0 + s = s /\ 0 + e = e
        BY <1>5
    <2>4. got = SubSeq(bytes, s + 1, e) \/ (bad \in DOMAIN chunks /\ Failed(got))
        BY <2>2, <2>3 DEF Delivers
    <2> QED
        BY <2>4 DEF got, tree, chunks, s, e, size
<1> QED
    <2>1. e <= s \/ s < e
        BY <1>5
    <2> QED
        BY <1>6, <1>7, <1>8, <2>1

\* Whatever range is read out of the tree of whatever content: the bytes are
\* those of the content, or the read has failed for a chunk that its hash gave
\* away. Of every size, level and table, not of the few that TLC goes through.
THEOREM EveryRangeRead == EveryRangeMatches
<1> SUFFICES ASSUME NEW size \in 0..MaxSize, NEW level \in Levels
             PROVE  LET bytes == [n \in 1..size |-> n]
                        tree == Split(bytes, level)
                    IN  /\ IterTree(tree, Honest) = bytes
                        /\ \A start \in 0..size, end \in 0..(size + 1) :
                              BytesGet(tree, start, end, Honest) = SubSeq(bytes, start + 1, Min({end, size}))
                        /\ \A bad \in DOMAIN tree.chunks : \A got \in {IterTree(tree, bad), BytesGet(tree, 0, size, bad)} :
                              got = bytes \/ Failed(got)
    BY DEF EveryRangeMatches
<1> DEFINE bytes == [n \in 1..size |-> n]
           tree == Split(bytes, level)
<1>1. size \in Nat /\ bytes \in Seq(Int) /\ Len(bytes) = size
    <2>1. size \in Nat
        BY ChunkAssumption
    <2> QED
        BY <2>1
<1>2. SubSeq(bytes, 0 + 1, size) = bytes
    <2> HIDE DEF bytes
    <2>1. \A t \in Seq(Int) : SubSeq(t, 0 + 1, Len(t)) = t
        OBVIOUS
    <2> QED
        BY <1>1, <2>1
<1>3. Honest \notin DOMAIN tree.chunks
    <2> HIDE DEF bytes
    <2> QED
        BY <1>1, HonestAbroad
<1> HIDE DEF bytes
<1>4. ASSUME NEW bad PROVE IterTree(tree, bad) = bytes \/ (bad \in DOMAIN tree.chunks /\ Failed(IterTree(tree, bad)))
    <2>1. Delivers(bytes, tree.chunks, bad, IterTree(tree, bad), 0, Len(bytes))
        BY <1>1, TreeIterated
    <2> QED
        BY <1>1, <1>2, <2>1 DEF Delivers
<1>5. IterTree(tree, Honest) = bytes
    BY <1>3, <1>4
<1>6. ASSUME NEW start \in 0..size, NEW end \in 0..(size + 1)
      PROVE  BytesGet(tree, start, end, Honest) = SubSeq(bytes, start + 1, Min({end, size}))
    <2>1. start \in Nat /\ end \in Nat /\ start <= size
        BY <1>1
    <2>2. Min({start, size}) = start
        BY <1>1, <2>1, MinOfTwo
    <2> DEFINE s == Min({start, Len(bytes)})
               e == Min({end, Len(bytes)})
               got == BytesGet(tree, start, end, Honest)
    <2>3. got = SubSeq(bytes, s + 1, e) \/ (Honest \in DOMAIN tree.chunks /\ Failed(got))
        BY <1>1, <2>1, RangeRead
    <2>4. s = start /\ e = Min({end, size})
        BY <1>1, <2>2
    <2> HIDE DEF s, e, got
    <2> QED
        BY <1>3, <2>3, <2>4 DEF got
<1>7. ASSUME NEW bad \in DOMAIN tree.chunks
      PROVE  BytesGet(tree, 0, size, bad) = bytes \/ Failed(BytesGet(tree, 0, size, bad))
    <2> DEFINE s == Min({0, Len(bytes)})
               e == Min({size, Len(bytes)})
               got == BytesGet(tree, 0, size, bad)
    <2>1. 0 \in Nat /\ size \in Nat
        BY <1>1
    <2>2. got = SubSeq(bytes, s + 1, e) \/ (bad \in DOMAIN tree.chunks /\ Failed(got))
        BY <1>1, <2>1, RangeRead
    <2>3. s = 0 /\ e = size
        <3>1. s = IF 0 <= size THEN 0 ELSE size
            BY <1>1, MinOfTwo
        <3>2. e = IF size <= size THEN size ELSE size
            BY <1>1, MinOfTwo
        <3> QED
            BY <1>1, <3>1, <3>2
    <2> HIDE DEF s, e, got
    <2> QED
        BY <1>2, <2>2, <2>3 DEF got
<1>8. \A bad \in DOMAIN tree.chunks : \A got \in {IterTree(tree, bad), BytesGet(tree, 0, size, bad)} :
          got = bytes \/ Failed(got)
    BY <1>4, <1>7
<1> QED
    BY <1>5, <1>6, <1>8 DEF bytes

\* So what is uploaded is read back, in every state.
THEOREM RangesAreRead == Spec => []RangesRead
<1>1. RangesRead
    BY EveryRangeRead DEF RangesRead
<1> QED
    BY <1>1, PTL

(***************************************************************************)
(* The number of chunks.                                                   *)
(***************************************************************************)
\* What stamped_chunks adds up, level by level.
Adds(above, d, p) ==
    /\ above \in [0..MaxSize -> Nat] /\ \A n \in 0..MaxSize : n <= 1 => above[n] = 0
    /\ \A n \in 0..MaxSize : n > 1 =>
          CeilDiv(n, d) \in 0..MaxSize /\ above[n] = n + CeilDiv(n, d) * p + above[CeilDiv(n, d)]

LEMMA StampedAdds ==
    ASSUME NEW level \in Levels
    PROVE  Adds(StampedBelow(GroupShape(level)), GroupShape(level).data, GroupShape(level).parity)
<1> DEFINE shape == GroupShape(level)
           d == shape.data
           p == shape.parity
           D == 0..MaxSize
           Step(g, n) == IF n <= 1 THEN 0 ELSE n + CeilDiv(n, d) * p + g[CeilDiv(n, d)]
           H == [g \in [D -> Nat] |-> [n \in D |-> Step(g, n)]]
           size == [n \in D |-> n]
           Above == CHOOSE f : f = [n \in D |-> Step(f, n)]
<1>1. d \in Nat \ {0, 1} /\ p \in Nat /\ MaxSize \in Nat
    BY ShapeOf, ChunkAssumption
<1>2. StampedBelow(shape) = Above
    BY DEF StampedBelow
<1> HIDE DEF d, p
<1>3. ASSUME NEW n \in D, n > 1 PROVE CeilDiv(n, d) \in D /\ CeilDiv(n, d) < n /\ CeilDiv(n, d) * p \in Nat
    <2>1. n \in Nat /\ d \in Nat \ {0} /\ d > 1
        BY <1>1
    <2>2. CeilDiv(n, d) \in Nat /\ CeilDiv(n, d) < n
        BY <1>3, <2>1, CeilingShrinks
    <2>3. CeilDiv(n, d) * p \in Nat
        BY <1>1, <2>2
    <2> QED
        BY <1>1, <2>2, <2>3
<1>4. size \in [D -> Nat]
    BY <1>1
<1>5. ASSUME NEW g \in [D -> Nat], NEW n \in D PROVE Step(g, n) \in Nat
    <2>1. CASE n <= 1
        BY <2>1
    <2>2. CASE n > 1
        <3>1. CeilDiv(n, d) * p \in Nat /\ g[CeilDiv(n, d)] \in Nat /\ n \in Nat
            BY <1>1, <1>3, <2>2
        <3> QED
            BY <2>2, <3>1
    <2> QED
        BY <1>1, <2>1, <2>2
<1>6. H \in [[D -> Nat] -> [D -> Nat]]
    <2> HIDE DEF Step
    <2> QED
        BY <1>5
<1>7. ASSUME NEW g \in [D -> Nat], NEW h \in [D -> Nat], NEW n \in D, \A m \in D : size[m] < size[n] => g[m] = h[m]
      PROVE  H[g][n] = H[h][n]
    <2>1. n > 1 => g[CeilDiv(n, d)] = h[CeilDiv(n, d)]
        BY <1>3, <1>7
    <2>2. ~(n <= 1) => n > 1
        BY <1>1
    <2>3. Step(g, n) = Step(h, n)
        BY <2>1, <2>2
    <2> HIDE DEF Step
    <2> QED
        BY <2>3
<1>8. \E f \in [D -> Nat] : f = H[f]
    <2> HIDE DEF H, size
    <2>1. Descends(H, D, Nat, size)
        BY <1>4, <1>6, <1>7 DEF Descends
    <2> QED
        BY <2>1, RecursionDefines
<1>9. PICK f \in [D -> Nat] : f = [n \in D |-> Step(f, n)]
    BY <1>8
<1> HIDE DEF Step
<1>10. Above = [n \in D |-> Step(Above, n)]
    BY <1>9
<1>11. \A n \in D : Above[n] = Step(Above, n)
    <2> HIDE DEF Above
    <2> QED
        BY <1>10
<1>12. Above \in [D -> Nat]
    <2> DEFINE Good == {n \in Nat : \A m \in D : m <= n => Above[m] \in Nat}
    <2> HIDE DEF Above
    <2>1. 0 \in Good
        BY <1>1, <1>11 DEF Step
    <2>2. ASSUME NEW n \in Good PROVE n + 1 \in Good
        <3>1. ASSUME NEW m \in D, m <= n + 1 PROVE Above[m] \in Nat
            <4>1. CASE m <= 1
                BY <4>1, <1>11 DEF Step
            <4>2. CASE m > 1
                <5>1. CeilDiv(m, d) \in D /\ CeilDiv(m, d) <= n /\ CeilDiv(m, d) * p \in Nat
                    BY <1>1, <1>3, <3>1, <4>2
                <5>2. Above[CeilDiv(m, d)] \in Nat
                    BY <5>1
                <5>3. Above[m] = m + CeilDiv(m, d) * p + Above[CeilDiv(m, d)] /\ m \in Nat
                    BY <1>1, <1>11, <4>2 DEF Step
                <5> QED
                    BY <5>1, <5>2, <5>3
            <4> QED
                BY <1>1, <4>1, <4>2
        <3> QED
            BY <3>1
    <2>3. Good \in SUBSET Nat
        OBVIOUS
    <2>4. Good = Nat
        <3> HIDE DEF Good
        <3> QED
            BY <2>1, <2>2, <2>3, SetInduction
    <2>5. MaxSize \in Good
        <3> HIDE DEF Good
        <3> QED
            BY <1>1, <2>4
    <2>6. \A m \in D : Above[m] \in Nat
        BY <1>1, <2>5
    <2> QED
        BY <1>10, <2>6
<1> HIDE DEF Above
<1>13. \A n \in D : n <= 1 => Above[n] = 0
    BY <1>11 DEF Step
<1>14. \A n \in D : n > 1 => CeilDiv(n, d) \in D /\ Above[n] = n + CeilDiv(n, d) * p + Above[CeilDiv(n, d)]
    BY <1>1, <1>3, <1>11 DEF Step
<1> QED
    BY <1>2, <1>12, <1>13, <1>14 DEF Adds, d, p

\* Where the chunks of a row may be, and those of the rows up to it.
Slots(rows, p, k) == {Ref(k, i, q) : i \in 1..Len(rows[k]), q \in 0..(IF k = 1 THEN 0 ELSE p)}
SlotsUpto(rows, p, k) == UNION {Slots(rows, p, j) : j \in 1..k}

LEMMA SlotsCount ==
    ASSUME NEW rows, NEW k \in Nat, Len(rows[k]) \in Nat, NEW p \in Nat
    PROVE  /\ IsFiniteSet(Slots(rows, p, k))
           /\ Cardinality(Slots(rows, p, k)) <= Len(rows[k]) * ((IF k = 1 THEN 0 ELSE p) + 1)
<1> DEFINE n == Len(rows[k])
           m == IF k = 1 THEN 0 ELSE p
           P == (1..n) \X (0..m)
           T == Slots(rows, p, k)
           f == [x \in P |-> Ref(k, x[1], x[2])]
<1>1. n \in Nat /\ m \in Nat
    OBVIOUS
<1>2. T = {Ref(k, i, q) : i \in 1..n, q \in 0..m}
    BY DEF Slots
<1> HIDE DEF n, m, T
<1>3. IsFiniteSet(1..n) /\ Cardinality(1..n) = n
    <2> HIDE DEF P, f
    <2>1. 1 \in Int /\ n \in Int /\ ~(1 > n + 1)
        BY <1>1
    <2>2. IsFiniteSet(1..n) /\ Cardinality(1..n) = IF 1 > n THEN 0 ELSE n - 1 + 1
        BY <2>1, FS_Interval
    <2> QED
        BY <1>1, <2>2
<1>4. IsFiniteSet(0..m) /\ Cardinality(0..m) = m + 1
    <2> HIDE DEF P, f
    <2>1. 0 \in Int /\ m \in Int
        BY <1>1
    <2>2. IsFiniteSet(0..m) /\ Cardinality(0..m) = IF 0 > m THEN 0 ELSE m - 0 + 1
        BY <2>1, FS_Interval
    <2> QED
        BY <1>1, <2>2
<1>5. IsFiniteSet(P) /\ Cardinality(P) = n * (m + 1)
    <2> DEFINE A == 1..n
               B == 0..m
    <2> HIDE DEF A, B
    <2>1. IsFiniteSet(A \X B) /\ Cardinality(A \X B) = Cardinality(A) * Cardinality(B)
        BY <1>3, <1>4, FS_Product DEF A, B
    <2> QED
        BY <1>3, <1>4, <2>1 DEF A, B
<1>6. f \in Surjection(P, T)
    <2>1. ASSUME NEW x \in P PROVE f[x] \in T
        BY <1>2
    <2>2. ASSUME NEW t \in T PROVE \E x \in P : f[x] = t
        <3>1. PICK i \in 1..n, q \in 0..m : t = Ref(k, i, q)
            BY <1>2
        <3>2. <<i, q>> \in P /\ f[<<i, q>>] = t
            BY <3>1
        <3> QED
            BY <3>2
    <2>3. f \in [P -> T]
        <3> HIDE DEF T, P
        <3> QED
            BY <2>1
    <2> HIDE DEF f, P
    <2> QED
        BY <2>2, <2>3 DEF Surjection
<1>7. IsFiniteSet(T) /\ Cardinality(T) <= Cardinality(P)
    <2> HIDE DEF f, P
    <2> QED
        BY <1>5, <1>6, FS_Surjection
<1> HIDE DEF P
<1>8. Cardinality(T) <= n * (m + 1)
    BY <1>5, <1>7
<1> QED
    BY <1>7, <1>8 DEF T, n, m

\* All chunks are in slots of the rows.
LEMMA ChunksSlotted ==
    ASSUME NEW bytes \in Seq(Int), NEW level \in Levels
    PROVE  DOMAIN Split(bytes, level).chunks
               \subseteq SlotsUpto(RowsOf(bytes, level), GroupShape(level).parity, Len(RowsOf(bytes, level)))
<1> DEFINE rows == RowsOf(bytes, level)
           p == GroupShape(level).parity
           L == Len(rows)
<1>1. DOMAIN Split(bytes, level).chunks = Data(rows) \union Parity(rows, p)
    BY TreeChunks
<1>2. p \in Nat
    BY ShapeOf
<1>3. ASSUME NEW ref \in Data(rows)
      PROVE  ref.row \in 1..L /\ ref.at \in 1..Len(rows[ref.row]) /\ ref = Ref(ref.row, ref.at, 0)
    BY DataMade
<1> HIDE DEF rows, p
<1>4. ASSUME NEW ref \in Data(rows) PROVE ref \in Slots(rows, p, ref.row)
    <2>1. 0 \in 0..(IF ref.row = 1 THEN 0 ELSE p)
        BY <1>2
    <2> QED
        BY <1>3, <2>1 DEF Slots
<1>5. ASSUME NEW ref \in Parity(rows, p) PROVE \E k \in 1..L : ref \in Slots(rows, p, k)
    <2>1. PICK r \in Data(rows), n \in 1..p : r.row > 1 /\ ref = [r EXCEPT !.parity = n]
        BY DEF Parity
    <2>2. r.row \in 1..L /\ r.at \in 1..Len(rows[r.row]) /\ r = Ref(r.row, r.at, 0)
        BY <1>3
    <2>3. ref = Ref(r.row, r.at, n)
        BY <2>1, <2>2 DEF Ref
    <2>4. n \in 0..(IF r.row = 1 THEN 0 ELSE p)
        BY <1>2, <2>1
    <2> QED
        BY <2>2, <2>3, <2>4 DEF Slots
<1>6. ASSUME NEW ref \in Data(rows) \union Parity(rows, p) PROVE ref \in SlotsUpto(rows, p, L)
    <2>1. \E k \in 1..L : ref \in Slots(rows, p, k)
        BY <1>3, <1>4, <1>5
    <2> QED
        BY <2>1 DEF SlotsUpto
<1> QED
    BY <1>1, <1>6 DEF rows, p


\* Row by row, no more slots than the estimate adds up.
LEMMA SlotsSum ==
    ASSUME NEW rows, NEW d, NEW p \in Nat, NEW L \in Nat, L >= 1, NEW above, Adds(above, d, p),
           Len(rows[1]) \in 0..MaxSize,
           \A k \in 1..(L - 1) : Len(rows[k]) > 1 /\ Len(rows[k + 1]) = CeilDiv(Len(rows[k]), d)
    PROVE  /\ IsFiniteSet(SlotsUpto(rows, p, L)) /\ Len(rows[L]) \in 0..MaxSize
           /\ Cardinality(SlotsUpto(rows, p, L)) + above[Len(rows[L])] <= above[Len(rows[1])] + Len(rows[L])
<1> DEFINE S(k) == SlotsUpto(rows, p, k)
           N(k) == Len(rows[k])
           Holds(k) == /\ IsFiniteSet(S(k)) /\ N(k) \in 0..MaxSize
                       /\ Cardinality(S(k)) + above[N(k)] <= above[N(1)] + N(k)
           Good == {n \in Nat : n + 1 \in 1..L => Holds(n + 1)}
<1>1. /\ MaxSize \in Nat /\ above \in [0..MaxSize -> Nat] /\ N(1) \in 0..MaxSize
      /\ \A n \in 0..MaxSize : n > 1 =>
            CeilDiv(n, d) \in 0..MaxSize /\ above[n] = n + CeilDiv(n, d) * p + above[CeilDiv(n, d)]
    BY ChunkAssumption DEF Adds
<1>2. \A k \in 1..(L - 1) : N(k) > 1 /\ N(k + 1) = CeilDiv(N(k), d)
    OBVIOUS
<1>3. \A k \in Nat : N(k) \in Nat =>
          /\ IsFiniteSet(Slots(rows, p, k))
          /\ Cardinality(Slots(rows, p, k)) <= N(k) * ((IF k = 1 THEN 0 ELSE p) + 1)
    BY SlotsCount
<1>4. S(1) = Slots(rows, p, 1)
    BY DEF SlotsUpto
<1>5. \A k \in Nat : k >= 1 => S(k + 1) = S(k) \union Slots(rows, p, k + 1)
    <2> SUFFICES ASSUME NEW k \in Nat, k >= 1 PROVE S(k + 1) = S(k) \union Slots(rows, p, k + 1)
        OBVIOUS
    <2>1. 1..(k + 1) = (1..k) \union {k + 1}
        OBVIOUS
    <2> QED
        BY <2>1 DEF SlotsUpto
<1> HIDE DEF S, N
<1>6. Holds(1)
    <2>1. N(1) \in Nat /\ N(1) * (0 + 1) = N(1) /\ above[N(1)] \in Nat
        BY <1>1
    <2>2. IsFiniteSet(S(1)) /\ Cardinality(S(1)) <= N(1) * ((IF 1 = 1 THEN 0 ELSE p) + 1)
        BY <1>3, <1>4, <2>1
    <2>3. Cardinality(S(1)) <= N(1) /\ Cardinality(S(1)) \in Nat
        BY <2>1, <2>2, FS_CardinalityType
    <2> QED
        BY <1>1, <2>1, <2>2, <2>3
<1>7. ASSUME NEW k \in 1..(L - 1), Holds(k) PROVE Holds(k + 1)
    <2>1. k \in Nat /\ k >= 1 /\ k + 1 \in Nat /\ k + 1 # 1
        OBVIOUS
    <2>2. N(k) > 1 /\ N(k + 1) = CeilDiv(N(k), d) /\ N(k) \in 0..MaxSize
        BY <1>2, <1>7
    <2>3. N(k + 1) \in 0..MaxSize /\ above[N(k)] = N(k) + N(k + 1) * p + above[N(k + 1)]
        BY <1>1, <2>2
    <2>4. N(k + 1) \in Nat /\ N(k) \in Nat /\ above[N(k)] \in Nat /\ above[N(k + 1)] \in Nat /\ above[N(1)] \in Nat
        BY <1>1, <2>2, <2>3
    <2>5. N(k + 1) * (p + 1) = N(k + 1) * p + N(k + 1) /\ N(k + 1) * p \in Nat
        BY <2>4
    <2> DEFINE T == Slots(rows, p, k + 1)
    <2>6. IsFiniteSet(T) /\ Cardinality(T) <= N(k + 1) * (p + 1)
        BY <1>3, <2>1, <2>4
    <2>7. S(k + 1) = S(k) \union T
        BY <1>5, <2>1
    <2>8. IsFiniteSet(S(k)) /\ Cardinality(S(k)) + above[N(k)] <= above[N(1)] + N(k)
        BY <1>7
    <2> HIDE DEF T, Holds
    <2>9. /\ IsFiniteSet(S(k) \union T)
          /\ Cardinality(S(k) \union T) = Cardinality(S(k)) + Cardinality(T) - Cardinality(S(k) \cap T)
        BY <2>6, <2>8, FS_Union
    <2>10. IsFiniteSet(S(k) \cap T)
        BY <2>8, FS_Intersection
    <2> DEFINE x == N(k + 1) * p
               a == Cardinality(S(k))
               b == Cardinality(T)
               c == Cardinality(S(k) \cap T)
               e == Cardinality(S(k + 1))
    <2>11. a \in Nat /\ b \in Nat /\ c \in Nat
        BY <2>6, <2>8, <2>10, FS_CardinalityType
    <2>12. IsFiniteSet(S(k + 1)) /\ e = a + b - c
        BY <2>7, <2>9
    <2>13. b <= x + N(k + 1) /\ x \in Nat
        BY <2>5, <2>6
    <2>14. a + above[N(k)] <= above[N(1)] + N(k) /\ above[N(k)] = N(k) + x + above[N(k + 1)]
        BY <2>3, <2>8
    <2> DEFINE m == N(k)
               n == N(k + 1)
               u == above[m]
               v == above[n]
               w == above[N(1)]
    <2>15. m \in Nat /\ n \in Nat /\ u \in Nat /\ v \in Nat /\ w \in Nat
        BY <2>4
    <2>16. b <= x + n /\ a + u <= w + m /\ u = m + x + v
        BY <2>13, <2>14
    <2> HIDE DEF a, b, c, e, x, m, n, u, v, w
    <2>17. e + v <= w + n
        BY <2>11, <2>12, <2>13, <2>15, <2>16
    <2> QED
        BY <2>3, <2>12, <2>17 DEF Holds, e, v, n, w
<1> HIDE DEF Holds
<1>8. 0 \in Good
    BY <1>6
<1>9. ASSUME NEW n \in Good PROVE n + 1 \in Good
    <2>1. n \in Nat /\ n + 1 \in Nat
        OBVIOUS
    <2>2. ASSUME (n + 1) + 1 \in 1..L PROVE Holds((n + 1) + 1)
        <3>1. n + 1 \in 1..L /\ n + 1 \in 1..(L - 1)
            BY <2>1, <2>2
        <3>2. Holds(n + 1)
            BY <3>1
        <3> QED
            BY <1>7, <3>1, <3>2
    <2> QED
        BY <2>1, <2>2
<1>10. Good = Nat
    <2>1. Good \in SUBSET Nat
        OBVIOUS
    <2> HIDE DEF Good
    <2> QED
        BY <1>8, <1>9, <2>1, SetInduction
<1>11. Holds(L)
    <2>1. L - 1 \in Nat /\ (L - 1) + 1 = L /\ L \in 1..L
        OBVIOUS
    <2> QED
        BY <1>10, <2>1
<1> QED
    BY <1>11 DEF Holds, S, N

\* stamped_chunks counts every chunk of a tree, and the replicas of its root,
\* whatever the size, the fanout and the level: the tree has a slot for each
\* chunk, and the estimate adds the slots up (stamps.py 117-137).
THEOREM EveryChunkIsCounted == EveryChunkCounted
<1> SUFFICES ASSUME NEW size \in 1..MaxSize, NEW level \in Levels
             PROVE  Uploads(Split([n \in 1..size |-> n], level)) + Replicas[level]
                        <= StampedChunks(CeilDiv(size, PayloadSize), level)
    BY DEF EveryChunkCounted
<1> DEFINE bytes == [n \in 1..size |-> n]
           rows == RowsOf(bytes, level)
           p == GroupShape(level).parity
           d == GroupShape(level).data
           L == Len(rows)
           above == StampedBelow(GroupShape(level))
           S == SlotsUpto(rows, p, L)
           C == DOMAIN Split(bytes, level).chunks
           leaves == CeilDiv(size, PayloadSize)
<1>1. bytes \in Seq(Int) /\ Len(bytes) = size /\ size \in Nat /\ size >= 1 /\ size <= MaxSize
    BY ChunkAssumption
<1> HIDE DEF bytes
<1>2. d \in Nat \ {0, 1} /\ p \in Nat
    BY ShapeOf
<1>3. /\ L \in Nat /\ L >= 1 /\ Len(rows[L]) <= 1 /\ rows[1] = Leaves(bytes) /\ rows \in Seq(Seq(Entries))
      /\ \A k \in 1..(L - 1) : Len(rows[k]) > 1 /\ rows[k + 1] = Parents(rows[k], k + 1, d)
    BY <1>1, TreeRows DEF Chain
<1>4. Adds(above, d, p)
    BY StampedAdds
<1>5. C \subseteq S
    BY <1>1, ChunksSlotted
<1>6. Replicas[level] \in Nat
    BY ChunkAssumption DEF Levels
<1> HIDE DEF rows, p, d, above, C
<1>7. ASSUME NEW k \in 1..(L - 1) PROVE Len(rows[k]) > 1 /\ Len(rows[k + 1]) = CeilDiv(Len(rows[k]), d)
    <2>1. rows[k] \in Seq(Entries) /\ k + 1 \in Nat /\ d \in Nat \ {0}
        BY <1>2, <1>3
    <2>2. Len(Parents(rows[k], k + 1, d)) = CeilDiv(Len(rows[k]), d)
        BY <2>1, ParentsOf
    <2> QED
        BY <1>3, <2>2
<1>8. Len(rows[1]) = leaves /\ leaves \in 0..MaxSize /\ leaves # 0
    <2>1. Len(rows[1]) = leaves /\ leaves >= 1
        BY <1>1, <1>3, LeavesOf
    <2>2. leaves <= size /\ leaves \in Nat
        <3>1. PayloadSize \in Nat \ {0}
            BY ChunkAssumption
        <3>2. leaves \in Nat /\ (size < leaves <=> size * PayloadSize < size)
            BY <1>1, <3>1, Ceiling
        <3>3. ~(size * PayloadSize < size)
            BY <1>1, <3>1
        <3> HIDE DEF leaves
        <3> QED
            BY <1>1, <3>2, <3>3
    <2>3. MaxSize \in Nat
        BY ChunkAssumption
    <2> HIDE DEF leaves, rows
    <2>4. leaves \in 0..MaxSize /\ leaves # 0
        BY <1>1, <2>1, <2>2, <2>3
    <2> QED
        BY <2>1, <2>4
<1>9. /\ IsFiniteSet(S) /\ Len(rows[L]) \in 0..MaxSize
      /\ Cardinality(S) + above[Len(rows[L])] <= above[Len(rows[1])] + Len(rows[L])
    <2>1. Len(rows[1]) \in 0..MaxSize
        BY <1>8
    <2> QED
        BY <1>2, <1>3, <1>4, <1>7, <2>1, SlotsSum
<1> HIDE DEF S, L, leaves
<1>10. above[Len(rows[L])] = 0 /\ above[leaves] \in Nat
    BY <1>3, <1>4, <1>8, <1>9 DEF Adds
<1>11. Cardinality(S) <= above[leaves] + 1
    <2>1. Cardinality(S) \in Nat /\ Len(rows[L]) \in Int
        BY <1>9, FS_CardinalityType
    <2> QED
        BY <1>3, <1>8, <1>9, <1>10, <2>1
<1>12. Cardinality(C) <= Cardinality(S) /\ Cardinality(C) \in Nat /\ Cardinality(S) \in Nat
    BY <1>5, <1>9, FS_Subset, FS_CardinalityType
<1>13. StampedChunks(leaves, level) = above[leaves] + 1 + Replicas[level]
    BY <1>8 DEF StampedChunks, above
<1>14. Uploads(Split(bytes, level)) = Cardinality(C)
    BY DEF Uploads, C
<1>15. Uploads(Split(bytes, level)) + Replicas[level] <= StampedChunks(leaves, level)
    BY <1>6, <1>10, <1>11, <1>12, <1>13, <1>14
<1> QED
    BY <1>15 DEF bytes, leaves

(***************************************************************************)
(* Addresses that are known.                                               *)
(***************************************************************************)
\* The load of the fullest of two buckets, counted as the code and as the
\* property count it.
LEMMA FullestBucket ==
    ASSUME NEW size \in 0..MaxAddresses, NEW addresses \in [1..size -> 1..2]
    PROVE  LET most == Max({0} \union {Cardinality({n \in DOMAIN addresses : addresses[n] = k}) : k \in 1..2})
           IN  /\ most \in Nat
               /\ most = Max({0} \union {Loads(addresses)[k] : k \in DOMAIN Loads(addresses)})
<1> DEFINE In(k) == {n \in DOMAIN addresses : addresses[n] = k}
           Used == {addresses[n] : n \in DOMAIN addresses}
           A == {0} \union {Cardinality(In(k)) : k \in 1..2}
           B == {0} \union {Loads(addresses)[k] : k \in DOMAIN Loads(addresses)}
<1>1. size \in Nat /\ DOMAIN addresses = 1..size
    BY ChunkAssumption
<1>2. IsFiniteSet(1..size)
    BY <1>1, FS_Interval
<1>3. \A k : Cardinality(In(k)) \in Nat
    <2>1. ASSUME NEW k PROVE Cardinality(In(k)) \in Nat
        <3>1. In(k) \subseteq 1..size
            BY <1>1
        <3> HIDE DEF In
        <3>2. IsFiniteSet(In(k))
            BY <1>2, <3>1, FS_Subset
        <3> QED
            BY <3>2, FS_CardinalityType
    <2> QED
        BY <2>1
<1>4. B = {0} \union {Cardinality(In(k)) : k \in Used}
    <2>1. DOMAIN Loads(addresses) = Used /\ \A k \in Used : Loads(addresses)[k] = Cardinality(In(k))
        BY DEF Loads
    <2> HIDE DEF In, Used
    <2> QED
        BY <2>1
<1>5. Used \subseteq 1..2
    BY <1>1
<1>6. \A k : k \notin Used => Cardinality(In(k)) = 0
    <2>1. ASSUME NEW k, k \notin Used PROVE In(k) = {}
        BY <2>1
    <2> HIDE DEF In, Used
    <2> QED
        BY <2>1, FS_EmptySet
<1> HIDE DEF In, Used
<1>7. A = B
    BY <1>4, <1>5, <1>6
<1>8. Max(A) \in Nat
    <2> DEFINE a == Cardinality(In(1))
               b == Cardinality(In(2))
    <2>1. A = {0, a, b} /\ a \in Nat /\ b \in Nat
        BY <1>3
    <2> HIDE DEF a, b, A
    <2>2. \E x \in {0, a, b} : \A y \in {0, a, b} : x >= y
        BY <2>1
    <2>3. Max({0, a, b}) \in {0, a, b}
        BY <2>2 DEF Max
    <2> QED
        BY <2>1, <2>3
<1> QED
    BY <1>7, <1>8 DEF In

\* A batch is deep enough, by depth_for_addresses, for addresses that are known
\* exactly when its buckets hold them, and the estimate of an upload's stamps
\* misses none: for any number of batches and callers, on any chain and beside
\* any node (stamps.py 117-137 and 234-253).
THEOREM SizesAreExact == Spec => []SizesExact
<1>1. ASSUME StampTypeOK, DepthsOK PROVE SizesExact
    <2> SUFFICES ASSUME NEW b \in Batch, Known(b), NEW sizing \in Sizings
                 PROVE  sizing[1] <= batch[b].depth <=> sizing[2] <= 2^(batch[b].depth - BucketDepth)
        BY EveryChunkIsCounted DEF SizesExact
    <2> DEFINE depth == batch[b].depth
    <2>1. depth \in Nat /\ depth >= MinDepth
        BY <1>1 DEF StampTypeOK, Accounts, DepthsOK
    <2>2. PICK addresses \in UNION {[1..size -> 1..2] : size \in 0..MaxAddresses} :
              sizing = <<DepthForAddresses(addresses),
                         Max({0} \union {Cardinality({n \in DOMAIN addresses : addresses[n] = k}) : k \in 1..2})>>
        BY Zenon DEF Sizings
    <2>3. PICK size \in 0..MaxAddresses : addresses \in [1..size -> 1..2]
        OBVIOUS
    <2> DEFINE most == Max({0} \union {Cardinality({n \in DOMAIN addresses : addresses[n] = k}) : k \in 1..2})
    <2>4. most \in Nat /\ most = Max({0} \union {Loads(addresses)[k] : k \in DOMAIN Loads(addresses)})
        BY <2>3, FullestBucket
    <2>5. sizing[1] = DepthForAddresses(addresses) /\ sizing[2] = most
        BY <2>2
    <2> HIDE DEF most, depth
    <2>6. DepthForAddresses(addresses) <= depth <=> Fits(most, depth)
        BY <2>1, <2>4, DepthFound DEF DepthForAddresses
    <2> QED
        BY <2>5, <2>6 DEF Fits, depth
<1> QED
    BY <1>1, StampTyping, DepthsSuffice, PTL DEF BooksOK
===============================================================================
