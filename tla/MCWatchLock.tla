---------------------------- MODULE MCWatchLock ----------------------------
(* Small instances of WatchLock for TLC.                                     *)
EXTENDS WatchLock, TLC

CONSTANTS w1, w2, inA, lib

(* Two watchers of the same input folder and the same library.               *)
SameFolders == (w1 :> <<inA, lib>>) @@ (w2 :> <<inA, lib>>)

(* Which inode is which never matters.                                       *)
InodeSymmetry == Permutations(Inodes)
============================================================================
