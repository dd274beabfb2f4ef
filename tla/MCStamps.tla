------------------------------- MODULE MCStamps -------------------------------
(***************************************************************************)
(* A node with one batch, and one who pays for it or two.  The trees have  *)
(* four references to a chunk; the tables of parities have a level that is *)
(* the same for any group and one that is not.                             *)
(***************************************************************************)
EXTENDS Chunks

CONSTANTS b1, c1, c2, none

OneBatch == {b1}
OneCaller == {c1}
TwoCallers == {c1, c2}

From(shards, parities) == [shards |-> shards, parities |-> parities]
SmallTables == <<<<From(1, 1)>>, <<From(5, 3), From(3, 2), From(1, 1)>>>>
SmallReplicas == (0 :> 0) @@ (1 :> 2) @@ (2 :> 4)
===============================================================================
