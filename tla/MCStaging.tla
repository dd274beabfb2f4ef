------------------------------ MODULE MCStaging ------------------------------
(***************************************************************************)
(* One or two paths; a fresh manifest, two of them, or one opened by its   *)
(* reference that has a file already.                                      *)
(***************************************************************************)
EXTENDS Staging, TLC

CONSTANTS x, y, v, w, new, newOther, t1, t2

MCBase == {x :> v}
===============================================================================
