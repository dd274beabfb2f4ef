---------------------------- MODULE MCFeedPublish ----------------------------
(* One feed: its writers, one reader and a few roots. *)
EXTENDS FeedPublish, TLC

CONSTANTS w1, w2, r1, a, b, c, none

OneWriter == {w1}
TwoWriters == {w1, w2}
OneReader == {r1}
TwoRoots == {a, b}
ThreeRoots == {a, b, c}
RootSymmetry == Permutations(Root)
===============================================================================
