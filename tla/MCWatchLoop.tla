----------------------------- MODULE MCWatchLoop -----------------------------
(* A small watcher for TLC: what its input folder can hold.                  *)
EXTENDS WatchLoop

CONSTANTS f1, f2, c1

(* Every content has a size of its own.                                      *)
Sizes == [c \in Contents |-> c]

(* Either one file comes, and comes again with another content; or two come  *)
(* that are equal.                                                           *)
OneOrTwo == {[f \in Files |-> IF f = f1 THEN 0 ELSE 2], [f \in Files |-> 1]}
=============================================================================
