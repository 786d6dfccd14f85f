--------------------------- MODULE MCWatchsetFeed ---------------------------
(* Instances of WatchsetFeed for TLC.                                      *)
EXTENDS WatchsetFeed

CONSTANTS w1, w2
=============================================================================
