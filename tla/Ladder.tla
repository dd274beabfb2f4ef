-------------------------------- MODULE Ladder --------------------------------
(***************************************************************************)
(* What a local-first store promises about the roots committed to it, with *)
(* no word about files, journals or sessions.  A committed root is "kept": *)
(* everything it reaches can be read, from this disk or from Swarm.  Once  *)
(* the whole tree was verified on the network the root is at "network",    *)
(* and stays there.  Only a squash makes roots leave, and the root it is   *)
(* done onto keeps the rung it had.                                        *)
(***************************************************************************)
CONSTANT Root

VARIABLE promise    \* promise[r]: "none", "kept" or "network"

Init == promise = [r \in Root |-> "none"]

Commit(r) ==
    /\ promise[r] = "none"
    /\ promise' = [promise EXCEPT ![r] = "kept"]

Confirm(r) ==
    /\ promise[r] = "kept"
    /\ promise' = [promise EXCEPT ![r] = "network"]

Squash(r) ==
    /\ promise[r] # "none"
    /\ promise' = [x \in Root |-> IF x = r THEN promise[r] ELSE "none"]

Next == \E r \in Root : Commit(r) \/ Confirm(r) \/ Squash(r)

Spec == Init /\ [][Next]_promise
===============================================================================
