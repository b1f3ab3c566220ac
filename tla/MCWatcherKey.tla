---------------------------- MODULE MCWatcherKey ----------------------------
(* Small instances of WatcherKey for TLC.                                    *)
EXTENDS WatcherKey, TLC

KeySymmetry == Permutations(Keys)
=============================================================================
