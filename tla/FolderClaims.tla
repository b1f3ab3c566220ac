--------------------------- MODULE FolderClaims ---------------------------
(* What watchlock.py promises, without files, descriptors or locks: a claim  *)
(* has at most one owner, a watcher runs only while it owns both its claims, *)
(* and a claim whose owner dies is free again at once.                       *)
EXTENDS Integers

CONSTANTS Watchers,   \* processes that may watch
          Claims,     \* names under the watch-locks directory
          ClaimOf,    \* [Watchers -> [1..2 -> Claims]]: its input and its library
          NoOne

VARIABLES owner,      \* who owns each claim
          watching    \* the watchers that passed claim() and have not stopped

vars == <<owner, watching>>

Wanted(w) == {ClaimOf[w][k] : k \in 1..2}

Init == /\ owner = [c \in Claims |-> NoOne]
        /\ watching = {}

(* A claim passes from nobody to one watcher. *)
Take(w, c) == /\ owner[c] = NoOne
              /\ owner' = [owner EXCEPT ![c] = w]
              /\ UNCHANGED watching

(* claim() returns: the watcher owns everything it wanted. *)
Begin(w) == /\ \A c \in Wanted(w) : owner[c] = w
            /\ watching' = watching \cup {w}
            /\ UNCHANGED owner

(* The watcher has left its loop; what it owns is given up afterwards. *)
End(w) == /\ watching' = watching \ {w}
          /\ UNCHANGED owner

(* One claim is given up, by a watcher that is not running. *)
Give(w, c) == /\ w \notin watching
              /\ owner[c] = w
              /\ owner' = [owner EXCEPT ![c] = NoOne]
              /\ UNCHANGED watching

(* The process dies: all its claims are free in the same instant. *)
Die(w) == /\ owner' = [c \in Claims |-> IF owner[c] = w THEN NoOne ELSE owner[c]]
          /\ watching' = watching \ {w}

Next == \E w \in Watchers :
          \/ Begin(w) \/ End(w) \/ Die(w)
          \/ \E c \in Claims : Take(w, c) \/ Give(w, c)

Spec == Init /\ [][Next]_vars
===========================================================================
