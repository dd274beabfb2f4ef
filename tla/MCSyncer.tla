------------------------------- MODULE MCSyncer -------------------------------
(***************************************************************************)
(* Two versions, the second on top of the first or in its place; it reaches*)
(* a blob of the first and one of its own.                                 *)
(***************************************************************************)
EXTENDS Syncer, TLC

CONSTANTS r1, r2, a, b

MCReach == (r1 :> {a}) @@ (r2 :> {a, b})
MCSize == (a :> 1) @@ (b :> 1)
===============================================================================
