---------------------------- MODULE MCFeedTicker ----------------------------
(* The rows of closed runs are interchangeable.                            *)
EXTENDS FeedTicker, TLC

RunSymmetry == Permutations(Run)
=============================================================================
