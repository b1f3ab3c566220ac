------------------------------ MODULE MCFiling ------------------------------
(* Small libraries for TLC: which category and title the model gives a PDF,  *)
(* and which documents and paths can be told apart.                          *)
EXTENDS Filing, TLC

CONSTANTS p1, p2, d1, d2, tA, tB, n1, n2

(* Two PDFs with the same author, year and title, and a third.               *)
SameTitle == [c \in Contents |-> IF c <= 2 THEN n1 ELSE n2]
(* They are filed under one category, the third under another.               *)
SameTag == [c \in Contents |-> IF c <= 2 THEN tA ELSE tB]

(* Somebody's files in the second category: in the way of every document     *)
(* with the first title, and of the second choice of one.                    *)
OneTag == [c \in Contents |-> tA]
InTheWay == {<<tB, n1>>, <<tB, d1>>}
Nowhere == {}

(* Paths are never compared but for equality, and ids neither where no file  *)
(* has the name of one.                                                      *)
Symmetry == Permutations(Paths) \cup Permutations(Ids)
PathSymmetry == Permutations(Paths)
=============================================================================
