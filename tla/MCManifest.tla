------------------------------ MODULE MCManifest ------------------------------
(***************************************************************************)
(* Names that share prefixes, that end where another's edge is split, and  *)
(* that are longer than an edge may be.                                    *)
(***************************************************************************)
EXTENDS Manifest

Dot == 1
MCSlash == 2
MCIndexName == 3
a == 4
b == 5
c == 6

MCReserved == <<Dot, c>>
APath == <<a>>
ABPath == <<a, b>>
DAPath == <<c, MCSlash, a>>
DABPath == <<c, MCSlash, a, b>>
LongPath == <<c, a, b, c, a>>

MCPath == {APath, ABPath, DAPath, DABPath, LongPath}
MCRemovable == {ABPath, DABPath, LongPath}
Siblings == {APath, ABPath}
Forked == {DAPath, LongPath}
Dotted == {<<Dot>>, APath}
===============================================================================
