------------------------------- MODULE Recursion -------------------------------
(***************************************************************************)
(* Induction over the naturals with a set in the place of a predicate, and *)
(* the existence of recursively defined functions: what is proved of the   *)
(* loops of FeedOps.at (feeds.py 200-213), of _resolve_head (core.py       *)
(* 405-410) and of depth_for_addresses (stamps.py 234-253), and of the     *)
(* trees of splitter.py and join.py rests on them.                         *)
(***************************************************************************)
EXTENDS Integers, FiniteSetTheorems, TLAPS

\* A set of naturals that is not empty has a least one.
LEMMA LeastNatural ==
    ASSUME NEW T \in SUBSET Nat, T # {}
    PROVE  \E n \in T : \A m \in T : n <= m
<1> DEFINE Below == {0..n : n \in T}
<1>1. Below \subseteq FiniteSubsetsOf(Nat) /\ Below # {}
    <2>1. \A n \in T : IsFiniteSet(0..n) /\ 0..n \subseteq Nat
        BY FS_Interval
    <2> QED
        BY <2>1 DEF FiniteSubsetsOf
<1>2. PICK low \in Below : \A set \in Below : <<set, low>> \notin StrictSubsetOrdering(Nat)
    <2> HIDE DEF Below
    <2> QED
        BY <1>1, FS_StrictSubsetOrderingWellFounded, WFMin, Zenon
<1>3. PICK n \in T : low = 0..n
    OBVIOUS
<1>4. ASSUME NEW m \in T, m < n PROVE FALSE
    <2>1. 0..m \in Below /\ 0..m \in SUBSET Nat /\ 0..n \in SUBSET Nat
        OBVIOUS
    <2>2. 0..m \subseteq 0..n /\ n \notin 0..m /\ n \in 0..n
        BY <1>4
    <2>3. 0..m # 0..n
        BY <2>2
    <2> QED
        BY <1>2, <1>3, <2>1, <2>2, <2>3 DEF StrictSubsetOrdering
<1> QED
    BY <1>4

\* What holds at 0 and goes on from each natural to the next holds of all.
LEMMA SetInduction ==
    ASSUME NEW Good \in SUBSET Nat, 0 \in Good, \A n \in Good : n + 1 \in Good
    PROVE  Good = Nat
<1> SUFFICES ASSUME Nat \ Good # {} PROVE FALSE
    OBVIOUS
<1>1. PICK n \in Nat \ Good : \A m \in Nat \ Good : n <= m
    BY LeastNatural
<1>2. n - 1 \in Nat /\ n - 1 \notin Nat \ Good
    BY <1>1
<1>3. (n - 1) + 1 \in Good
    BY <1>2
<1> QED
    BY <1>1, <1>3

\* H[g] computes one step of a definition on D from an approximation g, and
\* what it computes at x depends on arguments of a smaller size only.
Descends(H, D, Z, size) ==
    /\ Z # {} /\ size \in [D -> Nat]
    /\ H \in [[D -> Z] -> [D -> Z]]
    /\ \A g, h \in [D -> Z], x \in D : (\A y \in D : size[y] < size[x] => g[y] = h[y]) => H[g][x] = H[h][x]

\* Then some function satisfies the definition.
LEMMA RecursionDefines ==
    ASSUME NEW H, NEW D, NEW Z, NEW size, Descends(H, D, Z, size)
    PROVE  \E f \in [D -> Z] : f = H[f]
<1>0. /\ Z # {} /\ size \in [D -> Nat]
      /\ H \in [[D -> Z] -> [D -> Z]]
      /\ \A g, h \in [D -> Z], x \in D : (\A y \in D : size[y] < size[x] => g[y] = h[y]) => H[g][x] = H[h][x]
    BY DEF Descends
<1> DEFINE Upto(g, n) == \A x \in D : size[x] < n => H[g][x] = g[x]
           Good == {n \in Nat : \E g \in [D -> Z] : Upto(g, n)}
           Same == {n \in Nat : \A g, h \in [D -> Z] :
                        Upto(g, n) /\ Upto(h, n) => \A x \in D : size[x] < n => g[x] = h[x]}
<1>1. 0 \in Good
    <2>1. PICK z \in Z : TRUE
        BY <1>0
    <2>2. [x \in D |-> z] \in [D -> Z] /\ Upto([x \in D |-> z], 0)
        BY <1>0
    <2> QED
        BY <2>2
<1>2. ASSUME NEW n \in Good PROVE n + 1 \in Good
    <2>1. PICK g \in [D -> Z] : Upto(g, n)
        OBVIOUS
    <2>2. H[g] \in [D -> Z]
        BY <1>0
    <2>3. ASSUME NEW x \in D, size[x] < n + 1 PROVE H[H[g]][x] = H[g][x]
        <3>1. \A y \in D : size[y] < size[x] => g[y] = H[g][y]
            BY <1>0, <2>1, <2>3
        <3> QED
            BY <1>0, <2>2, <3>1
    <2>4. Upto(H[g], n + 1)
        BY <2>3
    <2> QED
        BY <2>2, <2>4
<1>3. Good = Nat
    <2>1. Good \in SUBSET Nat
        OBVIOUS
    <2> HIDE DEF Good
    <2> QED
        BY <1>1, <1>2, <2>1, SetInduction
<1>4. 0 \in Same
    BY <1>0
<1>5. ASSUME NEW n \in Same PROVE n + 1 \in Same
    <2>1. SUFFICES ASSUME NEW g \in [D -> Z], NEW h \in [D -> Z], Upto(g, n + 1), Upto(h, n + 1),
                          NEW x \in D, size[x] < n + 1
                   PROVE  g[x] = h[x]
        OBVIOUS
    <2>2. Upto(g, n) /\ Upto(h, n)
        BY <1>0, <2>1
    <2>3. ASSUME NEW y \in D, size[y] < size[x] PROVE g[y] = h[y]
        <3>1. size[y] < n
            BY <1>0, <2>1, <2>3
        <3> HIDE DEF Upto
        <3> QED
            BY <2>2, <3>1
    <2>4. H[g][x] = H[h][x]
        BY <1>0, <2>3
    <2> QED
        BY <2>1, <2>4
<1>6. Same = Nat
    <2>1. Same \in SUBSET Nat
        OBVIOUS
    <2> HIDE DEF Same
    <2> QED
        BY <1>4, <1>5, <2>1, SetInduction
<1> DEFINE Best(n) == CHOOSE g \in [D -> Z] : Upto(g, n)
           f == [x \in D |-> Best(size[x] + 1)[x]]
<1>7. ASSUME NEW n \in Nat PROVE Best(n) \in [D -> Z] /\ Upto(Best(n), n)
    BY <1>3
<1> HIDE DEF Best
<1>8. ASSUME NEW x \in D
      PROVE  /\ size[x] \in Nat /\ Best(size[x] + 1) \in [D -> Z] /\ Best(size[x] + 1)[x] \in Z
             /\ Upto(Best(size[x] + 1), size[x] + 1)
    <2>1. size[x] \in Nat /\ size[x] + 1 \in Nat
        BY <1>0
    <2> HIDE DEF Upto
    <2>2. Best(size[x] + 1) \in [D -> Z] /\ Upto(Best(size[x] + 1), size[x] + 1)
        BY <1>7, <2>1
    <2> QED
        BY <2>1, <2>2
<1>9. f \in [D -> Z]
    <2> HIDE DEF Upto
    <2> QED
        BY <1>8
<1>10. ASSUME NEW x \in D PROVE H[f][x] = f[x]
    <2> DEFINE g == Best(size[x] + 1)
    <2>1. size[x] \in Nat /\ g \in [D -> Z] /\ Upto(g, size[x] + 1)
        BY <1>8
    <2>2. f[x] = g[x]
        OBVIOUS
    <2>3. ASSUME NEW y \in D, size[y] < size[x] PROVE f[y] = g[y]
        <3> DEFINE h == Best(size[y] + 1)
        <3>1. size[y] \in Nat /\ h \in [D -> Z] /\ Upto(h, size[y] + 1)
            BY <1>8
        <3>2. Upto(g, size[y] + 1)
            <4> HIDE DEF g
            <4> QED
                BY <1>0, <2>1, <2>3, <3>1
        <3>3. f[y] = h[y]
            OBVIOUS
        <3> HIDE DEF g, h, f, Upto
        <3>4. \A z \in D : size[z] < size[y] + 1 => g[z] = h[z]
            <4>1. size[y] + 1 \in Same
                BY <1>6, <3>1
            <4> QED
                BY <4>1, <2>1, <3>1, <3>2
        <3> QED
            BY <3>1, <3>3, <3>4
    <2> HIDE DEF f, g
    <2>4. H[f][x] = H[g][x]
        BY <1>0, <1>9, <2>1, <2>3
    <2> QED
        BY <2>1, <2>2, <2>4
<1> HIDE DEF f
<1> QED
    BY <1>0, <1>9, <1>10
===============================================================================
