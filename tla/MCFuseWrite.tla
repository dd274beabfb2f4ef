----------------------------- MODULE MCFuseWrite -----------------------------
(* A mount with two directories, one name and two handles. *)
EXTENDS FuseWrite, TLC

CONSTANTS top, d1, d2, n1, h1, h2, x, nothing, removed

OneName == {n1}
TwoFolders == {d1, d2}
TwoHandles == {h1, h2}
OneDatum == {x}
FolderPaths == TwoFolders \X OneName
AllPaths == {top, d1, d2} \X OneName
MountSymmetry == Permutations(Handle)
===============================================================================
