----------------------------- MODULE MCLocalStore -----------------------------
(***************************************************************************)
(* A small store: a root, another that shares a blob with it (its child or *)
(* not: content addressing makes unrelated commits share blobs too), and   *)
(* for the runs with three roots one that shares a blob with both.         *)
(***************************************************************************)
EXTENDS LocalStore, TLC

CONSTANTS r1, r2, r3, a, b, c

MCReach3 == (r1 :> {a}) @@ (r2 :> {a}) @@ (r3 :> {a})
MCReachPins == (r1 :> {a}) @@ (r2 :> {a, b})

MCUnitSize == (a :> 1) @@ (b :> 1)
MCOneSize == a :> 1
===============================================================================
