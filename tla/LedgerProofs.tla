----------------------------- MODULE LedgerProofs -----------------------------
(***************************************************************************)
(* No spend is lost from the ledger, and the day's requests and tokens     *)
(* stop at their ceilings but for what was in flight, proved for any       *)
(* finite number of processes, any ceilings and costs, and any lengths of  *)
(* the window and its hours. What the day has cost is a sum over its       *)
(* hours, and what is yet to come in a sum over the processes.             *)
(***************************************************************************)
EXTENDS Ledger, FiniteSetTheorems, TLAPS

-----------------------------------------------------------------------------
(* Sums over finite sets. What a fold computes is proved of every finite set *)
(* by looking at a smallest set of which it would be wrong.                  *)
(* In a set of sets, one that has no smaller one in it.                      *)

LEMMA Smallest ==
  ASSUME NEW S, IsFiniteSet(S), NEW bad \in SUBSET (SUBSET S), bad # {}
  PROVE  \E T \in bad : \A U \in SUBSET T : U # T => U \notin bad
<1> DEFINE R == StrictSubsetOrdering(S)
<1>1. bad \subseteq FiniteSubsetsOf(S)
  BY FS_Subset DEF FiniteSubsetsOf
<1>2. PICK T \in bad : \A U \in bad : ~ (<<U, T>> \in R)
  BY <1>1, FS_StrictSubsetOrderingWellFounded, WFMin
<1>3. ASSUME NEW U \in SUBSET T, U # T, U \in bad PROVE FALSE
  BY <1>2, <1>3 DEF StrictSubsetOrdering
<1> QED BY <1>2, <1>3

First(s) == CHOOSE x \in s : TRUE

(* The fold goes through a set in the order of its choosing.                 *)
Folds(g, f, S) ==
  g = [s \in SUBSET S |-> IF s = {} THEN 0 ELSE f[First(s)] + g[s \ {First(s)}]]

LEMMA FirstIsIn == \A s : s # {} => First(s) \in s
BY DEF First

LEMMA FoldsAt ==
  ASSUME NEW g, NEW f, NEW S, Folds(g, f, S), NEW s \in SUBSET S
  PROVE  g[s] = IF s = {} THEN 0 ELSE f[First(s)] + g[s \ {First(s)}]
BY DEF Folds

LEMMA FoldsOnce ==
  ASSUME NEW S, IsFiniteSet(S), NEW T, S \subseteq T, NEW f, NEW g, NEW h,
         Folds(g, f, S), Folds(h, f, T)
  PROVE  g[S] = h[S]
<1> DEFINE bad == {s \in SUBSET S : g[s] # h[s]}
<1> SUFFICES ASSUME bad # {} PROVE FALSE
  OBVIOUS
<1>1. PICK s \in bad : \A u \in SUBSET s : u # s => u \notin bad
  <2>1. bad \in SUBSET (SUBSET S)
    OBVIOUS
  <2> HIDE DEF bad
  <2> QED BY <2>1, Smallest
<1>2. s \in SUBSET S /\ s \in SUBSET T
  OBVIOUS
<1>3. s # {}
  BY <1>2, FoldsAt
<1>4. s \ {First(s)} # s /\ s \ {First(s)} \in SUBSET s
  BY <1>3, FirstIsIn
<1>5. g[s \ {First(s)}] = h[s \ {First(s)}]
  BY <1>1, <1>2, <1>4
<1> QED BY <1>1, <1>2, <1>3, <1>5, FoldsAt

LEMMA FoldsExists ==
  ASSUME NEW S, IsFiniteSet(S), NEW f
  PROVE  \E g : Folds(g, f, S)
<1> DEFINE bad == {s \in SUBSET S : ~ \E g : Folds(g, f, s)}
<1> SUFFICES ASSUME bad # {} PROVE FALSE
  OBVIOUS
<1>1. PICK T \in bad : \A u \in SUBSET T : u # T => u \notin bad
  <2>1. bad \in SUBSET (SUBSET S)
    OBVIOUS
  <2> HIDE DEF bad
  <2> QED BY <2>1, Smallest
<1>2. \A u \in SUBSET T : IsFiniteSet(u)
  BY FS_Subset
<1> DEFINE below == [u \in SUBSET T |-> (CHOOSE g : Folds(g, f, u))]
           G == [s \in SUBSET T |-> IF s = {} THEN 0
                   ELSE IF s = T THEN f[First(T)] + below[T \ {First(T)}][T \ {First(T)}]
                   ELSE below[s][s]]
<1>3. ASSUME NEW u \in SUBSET T, u # T PROVE Folds(below[u], f, u)
  <2>1. \E g : Folds(g, f, u)
    BY <1>1, <1>3
  <2> QED BY <2>1
<1>4. G = [s \in SUBSET T |-> IF s = {} THEN 0 ELSE f[First(s)] + G[s \ {First(s)}]]
  <2>1. ASSUME NEW s \in SUBSET T, s # {}
        PROVE  G[s] = f[First(s)] + G[s \ {First(s)}]
    <3> DEFINE r == s \ {First(s)}
    <3>1. r \in SUBSET T /\ r # T /\ r # s /\ r \in SUBSET s
      BY <2>1, FirstIsIn
    <3>2. G[r] = below[r][r]
      <4>1. Folds(below[r], f, r)
        BY <1>3, <3>1
      <4>2. r = {} => below[r][r] = 0
        BY <4>1, FoldsAt
      <4> QED BY <3>1, <4>2
    <3>3. CASE s = T
      BY <2>1, <3>2, <3>3
    <3>4. CASE s # T
      <4>1. Folds(below[s], f, s) /\ Folds(below[r], f, r)
        BY <1>3, <3>1, <3>4
      <4>2. G[s] = below[s][s]
        BY <2>1, <3>4
      <4>3. below[s][s] = f[First(s)] + below[s][r]
        BY <2>1, <4>1, FoldsAt
      <4>4. below[s][r] = below[r][r]
        BY <1>2, <3>1, <4>1, FoldsOnce
      <4> QED BY <3>2, <4>2, <4>3, <4>4
    <3> QED BY <3>3, <3>4
  <2>2. G[{}] = 0
    OBVIOUS
  <2>3. G = [s \in SUBSET T |-> G[s]]
    OBVIOUS
  <2> HIDE DEF G
  <2>4. \A s \in SUBSET T : G[s] = IF s = {} THEN 0 ELSE f[First(s)] + G[s \ {First(s)}]
    BY <2>1, <2>2
  <2>5. [s \in SUBSET T |-> G[s]]
          = [s \in SUBSET T |-> IF s = {} THEN 0 ELSE f[First(s)] + G[s \ {First(s)}]]
    BY <2>4
  <2> QED BY <2>3, <2>5
<1> HIDE DEF G
<1>5. Folds(G, f, T)
  BY <1>4 DEF Folds
<1> QED BY <1>5

LEMMA SumIsFolded ==
  ASSUME NEW S, IsFiniteSet(S), NEW f
  PROVE  \E g : Folds(g, f, S) /\ SumFunctionOnSet(f, S) = g[S]
<1> DEFINE it == CHOOSE g : Folds(g, f, S)
<1>1. SumFunctionOnSet(f, S) = it[S]
  BY DEF SumFunctionOnSet, FoldFunctionOnSet, MapThenFoldSet, Folds, First
<1>2. Folds(it, f, S)
  BY FoldsExists
<1> QED BY <1>1, <1>2

(* Nothing sums to 0, and a sum starts with the element chosen first.        *)
LEMMA SumStarts ==
  ASSUME NEW S, IsFiniteSet(S), NEW f
  PROVE  SumFunctionOnSet(f, S) =
           IF S = {} THEN 0 ELSE f[First(S)] + SumFunctionOnSet(f, S \ {First(S)})
<1>1. PICK g : Folds(g, f, S) /\ SumFunctionOnSet(f, S) = g[S]
  BY SumIsFolded
<1>2. CASE S = {}
  BY <1>1, <1>2, FoldsAt
<1>3. CASE S # {}
  <2>1. IsFiniteSet(S \ {First(S)})
    BY FS_RemoveElement
  <2>2. PICK h : /\ Folds(h, f, S \ {First(S)})
                 /\ SumFunctionOnSet(f, S \ {First(S)}) = h[S \ {First(S)}]
    BY <2>1, SumIsFolded
  <2>3. h[S \ {First(S)}] = g[S \ {First(S)}]
    BY <1>1, <2>1, <2>2, FoldsOnce
  <2>4. g[S] = f[First(S)] + g[S \ {First(S)}]
    BY <1>1, <1>3, FoldsAt
  <2> QED BY <1>1, <1>3, <2>2, <2>3, <2>4
<1> QED BY <1>2, <1>3

LEMMA SumIsNat ==
  ASSUME NEW S, IsFiniteSet(S), NEW f, \A x \in S : f[x] \in Nat
  PROVE  SumFunctionOnSet(f, S) \in Nat
<1> DEFINE bad == {s \in SUBSET S : SumFunctionOnSet(f, s) \notin Nat}
<1> SUFFICES ASSUME bad # {} PROVE FALSE
  OBVIOUS
<1>1. PICK T \in bad : \A u \in SUBSET T : u # T => u \notin bad
  <2>1. bad \in SUBSET (SUBSET S)
    OBVIOUS
  <2> HIDE DEF bad
  <2> QED BY <2>1, Smallest
<1>2. IsFiniteSet(T)
  BY FS_Subset
<1>3. T # {}
  <2> SUFFICES ASSUME T = {} PROVE FALSE
    OBVIOUS
  <2>1. SumFunctionOnSet(f, T) = 0
    BY <1>2, SumStarts
  <2> QED BY <2>1
<1> DEFINE c == First(T)
<1>4. c \in T /\ T \ {c} \in SUBSET T /\ T \ {c} # T
  BY <1>3, FirstIsIn
<1>5. SumFunctionOnSet(f, T \ {c}) \in Nat
  BY <1>1, <1>4
<1>6. SumFunctionOnSet(f, T) = f[c] + SumFunctionOnSet(f, T \ {c})
  BY <1>2, <1>3, SumStarts
<1> HIDE DEF c
<1>7. f[c] \in Nat
  BY <1>4
<1>8. SumFunctionOnSet(f, T) \in Nat
  BY <1>5, <1>6, <1>7
<1> QED BY <1>8

(* Any element of a set may be added last.                                   *)
LEMMA SumSplits ==
  ASSUME NEW S, IsFiniteSet(S), NEW f, \A x \in S : f[x] \in Nat, NEW x \in S
  PROVE  SumFunctionOnSet(f, S) = f[x] + SumFunctionOnSet(f, S \ {x})
<1> DEFINE bad == {s \in SUBSET S : \E y \in s :
                     SumFunctionOnSet(f, s) # f[y] + SumFunctionOnSet(f, s \ {y})}
<1> SUFFICES ASSUME bad # {} PROVE FALSE
  OBVIOUS
<1>1. PICK T \in bad : \A u \in SUBSET T : u # T => u \notin bad
  <2>1. bad \in SUBSET (SUBSET S)
    OBVIOUS
  <2> HIDE DEF bad
  <2> QED BY <2>1, Smallest
<1>2. PICK y \in T : SumFunctionOnSet(f, T) # f[y] + SumFunctionOnSet(f, T \ {y})
  OBVIOUS
<1>3. IsFiniteSet(T) /\ T # {} /\ \A s \in SUBSET T : IsFiniteSet(s)
  BY FS_Subset
<1> DEFINE c == First(T)
<1>4. c \in T
  BY <1>3, FirstIsIn
<1>5. SumFunctionOnSet(f, T) = f[c] + SumFunctionOnSet(f, T \ {c})
  BY <1>3, SumStarts
<1> HIDE DEF c
<1>6. c # y
  BY <1>2, <1>5
<1>7. SumFunctionOnSet(f, T \ {c}) = f[y] + SumFunctionOnSet(f, (T \ {c}) \ {y})
  <2>1. T \ {c} \notin bad /\ T \ {c} \in SUBSET S
    BY <1>1, <1>4
  <2> QED BY <1>6, <2>1
<1>8. SumFunctionOnSet(f, T \ {y}) = f[c] + SumFunctionOnSet(f, (T \ {y}) \ {c})
  <2>1. T \ {y} \notin bad /\ T \ {y} \in SUBSET S
    BY <1>1
  <2> QED BY <1>4, <1>6, <2>1
<1>9. (T \ {c}) \ {y} = (T \ {y}) \ {c}
  OBVIOUS
<1>10. /\ f[y] \in Nat /\ f[c] \in Nat
       /\ SumFunctionOnSet(f, (T \ {y}) \ {c}) \in Nat
  <2>1. \A z \in (T \ {y}) \ {c} : f[z] \in Nat
    OBVIOUS
  <2> QED BY <1>3, <1>4, <2>1, SumIsNat
<1> DEFINE n == SumFunctionOnSet(f, (T \ {y}) \ {c})
<1>11. /\ SumFunctionOnSet(f, T) = f[c] + (f[y] + n)
       /\ SumFunctionOnSet(f, T \ {y}) = f[c] + n
  BY <1>5, <1>7, <1>8, <1>9
<1>12. n \in Nat
  BY <1>10
<1> HIDE DEF n
<1>13. f[c] + (f[y] + n) = f[y] + (f[c] + n)
  BY <1>10, <1>12
<1>14. SumFunctionOnSet(f, T) = f[y] + SumFunctionOnSet(f, T \ {y})
  BY <1>11, <1>13
<1> QED BY <1>2, <1>14

(* The larger the summands, the larger the sum.                              *)
LEMMA SumGrows ==
  ASSUME NEW S, IsFiniteSet(S), NEW f, NEW g,
         \A x \in S : f[x] \in Nat /\ g[x] \in Nat /\ f[x] <= g[x]
  PROVE  SumFunctionOnSet(f, S) <= SumFunctionOnSet(g, S)
<1> DEFINE bad == {s \in SUBSET S : ~(SumFunctionOnSet(f, s) <= SumFunctionOnSet(g, s))}
<1> SUFFICES ASSUME bad # {} PROVE FALSE
  OBVIOUS
<1>1. PICK T \in bad : \A u \in SUBSET T : u # T => u \notin bad
  <2>1. bad \in SUBSET (SUBSET S)
    OBVIOUS
  <2> HIDE DEF bad
  <2> QED BY <2>1, Smallest
<1>2. IsFiniteSet(T)
  BY FS_Subset
<1>3. T # {}
  <2> SUFFICES ASSUME T = {} PROVE FALSE
    OBVIOUS
  <2>1. SumFunctionOnSet(f, T) = 0 /\ SumFunctionOnSet(g, T) = 0
    BY <1>2, SumStarts
  <2> QED BY <2>1
<1> DEFINE c == First(T)
<1>4. c \in T /\ T \ {c} \in SUBSET T /\ T \ {c} # T
  BY <1>3, FirstIsIn
<1>5. SumFunctionOnSet(f, T \ {c}) <= SumFunctionOnSet(g, T \ {c})
  BY <1>1, <1>4
<1>6. /\ SumFunctionOnSet(f, T) = f[c] + SumFunctionOnSet(f, T \ {c})
      /\ SumFunctionOnSet(g, T) = g[c] + SumFunctionOnSet(g, T \ {c})
  BY <1>2, <1>3, SumStarts
<1>7. SumFunctionOnSet(f, T \ {c}) \in Nat /\ SumFunctionOnSet(g, T \ {c}) \in Nat
  <2>1. IsFiniteSet(T \ {c})
    BY <1>2, FS_RemoveElement
  <2> QED BY <2>1, SumIsNat
<1> HIDE DEF c
<1>8. f[c] \in Nat /\ g[c] \in Nat /\ f[c] <= g[c]
  BY <1>4
<1> QED BY <1>5, <1>6, <1>7, <1>8

LEMMA SumIsSame ==
  ASSUME NEW S, IsFiniteSet(S), NEW f, NEW g,
         \A x \in S : f[x] \in Nat /\ f[x] = g[x]
  PROVE  SumFunctionOnSet(f, S) = SumFunctionOnSet(g, S)
<1>1. /\ SumFunctionOnSet(f, S) <= SumFunctionOnSet(g, S)
      /\ SumFunctionOnSet(g, S) <= SumFunctionOnSet(f, S)
  BY SumGrows
<1>2. SumFunctionOnSet(f, S) \in Nat /\ SumFunctionOnSet(g, S) \in Nat
  BY SumIsNat
<1> QED BY <1>1, <1>2

(* One summand changes.                                                      *)
LEMMA SumChanges ==
  ASSUME NEW S, IsFiniteSet(S), NEW f, NEW g, NEW x \in S,
         \A y \in S : f[y] \in Nat /\ g[y] \in Nat /\ (y # x => f[y] = g[y])
  PROVE  SumFunctionOnSet(f, S) + g[x] = SumFunctionOnSet(g, S) + f[x]
<1>1. /\ SumFunctionOnSet(f, S) = f[x] + SumFunctionOnSet(f, S \ {x})
      /\ SumFunctionOnSet(g, S) = g[x] + SumFunctionOnSet(g, S \ {x})
  BY SumSplits
<1>2. IsFiniteSet(S \ {x})
  BY FS_RemoveElement
<1>3. SumFunctionOnSet(f, S \ {x}) = SumFunctionOnSet(g, S \ {x})
  BY <1>2, SumIsSame
<1>4. SumFunctionOnSet(f, S \ {x}) \in Nat
  BY <1>2, SumIsNat
<1> QED BY <1>1, <1>3, <1>4

(* Part of a set sums to no more than the set.                               *)
LEMMA SumOfPart ==
  ASSUME NEW S, IsFiniteSet(S), NEW f, \A x \in S : f[x] \in Nat, NEW P \in SUBSET S
  PROVE  SumFunctionOnSet(f, P) <= SumFunctionOnSet(f, S)
<1> DEFINE bad == {s \in SUBSET S : \E Q \in SUBSET s :
                     ~(SumFunctionOnSet(f, Q) <= SumFunctionOnSet(f, s))}
<1> SUFFICES ASSUME bad # {} PROVE FALSE
  OBVIOUS
<1>1. PICK T \in bad : \A u \in SUBSET T : u # T => u \notin bad
  <2>1. bad \in SUBSET (SUBSET S)
    OBVIOUS
  <2> HIDE DEF bad
  <2> QED BY <2>1, Smallest
<1>2. PICK Q \in SUBSET T : ~(SumFunctionOnSet(f, Q) <= SumFunctionOnSet(f, T))
  OBVIOUS
<1>3. IsFiniteSet(T) /\ IsFiniteSet(Q) /\ \A s \in SUBSET T : IsFiniteSet(s)
  BY FS_Subset
<1>4. SumFunctionOnSet(f, T) \in Nat /\ SumFunctionOnSet(f, Q) \in Nat
  BY <1>3, SumIsNat
<1>5. PICK x \in T : x \notin Q
  BY <1>2, <1>4
<1>6. SumFunctionOnSet(f, T) = f[x] + SumFunctionOnSet(f, T \ {x})
  BY <1>3, SumSplits
<1>7. SumFunctionOnSet(f, Q) <= SumFunctionOnSet(f, T \ {x})
  <2>1. T \ {x} \notin bad /\ T \ {x} \in SUBSET S /\ Q \in SUBSET (T \ {x})
    BY <1>1, <1>5
  <2> QED BY <2>1
<1>8. SumFunctionOnSet(f, T \ {x}) \in Nat
  BY <1>3, SumIsNat
<1>9. f[x] \in Nat
  OBVIOUS
<1> QED BY <1>2, <1>4, <1>6, <1>7, <1>8, <1>9

(* A sum of summands that are each at most m.                                *)
LEMMA SumIsBounded ==
  ASSUME NEW S, IsFiniteSet(S), NEW f, NEW m \in Nat,
         \A x \in S : f[x] \in Nat /\ f[x] <= m
  PROVE  SumFunctionOnSet(f, S) <= Cardinality(S) * m
<1> DEFINE bad == {s \in SUBSET S : ~(SumFunctionOnSet(f, s) <= Cardinality(s) * m)}
<1> SUFFICES ASSUME bad # {} PROVE FALSE
  OBVIOUS
<1>1. PICK T \in bad : \A u \in SUBSET T : u # T => u \notin bad
  <2>1. bad \in SUBSET (SUBSET S)
    OBVIOUS
  <2> HIDE DEF bad
  <2> QED BY <2>1, Smallest
<1>2. IsFiniteSet(T)
  BY FS_Subset
<1>3. T # {}
  <2> SUFFICES ASSUME T = {} PROVE FALSE
    OBVIOUS
  <2>1. SumFunctionOnSet(f, T) = 0 /\ Cardinality(T) = 0
    BY <1>2, SumStarts, FS_EmptySet
  <2> QED BY <2>1
<1> DEFINE c == First(T)
           n == Cardinality(T \ {c})
<1>4. c \in T /\ T \ {c} \in SUBSET T /\ T \ {c} # T
  BY <1>3, FirstIsIn
<1>5. SumFunctionOnSet(f, T \ {c}) <= n * m
  BY <1>1, <1>4
<1>6. SumFunctionOnSet(f, T) = f[c] + SumFunctionOnSet(f, T \ {c})
  BY <1>2, <1>3, SumStarts
<1>7. IsFiniteSet(T \ {c}) /\ Cardinality(T \ {c}) = Cardinality(T) - 1
  BY <1>2, <1>4, FS_RemoveElement
<1>8. n \in Nat /\ Cardinality(T) = n + 1
  BY <1>2, <1>7, FS_CardinalityType
<1>9. SumFunctionOnSet(f, T \ {c}) \in Nat
  BY <1>7, SumIsNat
<1> HIDE DEF c, n
<1>10. f[c] \in Nat /\ f[c] <= m
  BY <1>4
<1>11. (n + 1) * m = n * m + m /\ n * m \in Nat
  BY <1>8
<1>12. SumFunctionOnSet(f, T) <= (n + 1) * m
  BY <1>5, <1>6, <1>9, <1>10, <1>11
<1> QED BY <1>8, <1>12

-----------------------------------------------------------------------------
LEMMA HoursOfTheClock ==
  /\ \A t \in 0 .. MaxTime : t \div Hour \in Hours
  /\ Hours \subseteq Nat
<1>1. ASSUME NEW t \in 0 .. MaxTime PROVE t \div Hour \in Nat /\ t \div Hour <= MaxTime \div Hour
  BY LedgerAssumption
<1>2. MaxTime \div Hour \in Nat
  BY LedgerAssumption
<1> QED BY <1>1, <1>2 DEF Hours

LEMMA SpendFields ==
  ASSUME NEW s \in Spend PROVE s.requests \in Nat /\ s.tokens \in Nat
BY DEF Spend

LEMMA PlusType ==
  ASSUME NEW s \in Spend, NEW t \in Spend
  PROVE  /\ Plus(s, t) \in Spend
         /\ Plus(s, t).requests = s.requests + t.requests
         /\ Plus(s, t).tokens = s.tokens + t.tokens
BY DEF Spend, Plus

LEMMA EmptyType ==
  /\ Empty \in Ledgers
  /\ \A h \in Hours : Empty[h].requests = 0 /\ Empty[h].tokens = 0
<1>1. [requests |-> 0, tokens |-> 0] \in Spend
  BY DEF Spend
<1> QED BY <1>1 DEF Ledgers, Empty

LEMMA PruneType ==
  ASSUME NEW b \in Ledgers, NEW t PROVE _prune(b, t) \in Ledgers
BY EmptyType DEF Ledgers, _prune

(* The three kinds of turn.                                                  *)
LEMMA TurnTypes ==
  ASSUME NEW t \in Turns
  PROVE  \/ t = Free
         \/ t.at = "counting" /\ t.spend \in Spend
         \/ t.at = "locked" /\ t.spend \in Spend /\ t.copy \in Ledgers /\ t.hour \in Hours
BY DEF Turns

LEMMA CountingType == ASSUME NEW s \in Spend PROVE Counting(s) \in Turns
BY DEF Counting, Turns

LEMMA FreeType == Free \in Turns /\ Free.at = "free"
BY DEF Free, Turns

LEMMA LockedType ==
  ASSUME NEW s \in Spend, NEW c \in Ledgers, NEW h \in Hours
  PROVE  [at |-> "locked", spend |-> s, copy |-> c, hour |-> h] \in Turns
BY DEF Turns

(* Every variable stays in its type (the whole module).                      *)
THEOREM TypesHold == Spec => []TypeOK
<1>1. Init => TypeOK
  BY LedgerAssumption, EmptyType, FreeType DEF Init, TypeOK
<1>2. TypeOK /\ [Next]_vars => TypeOK'
  <2> SUFFICES ASSUME TypeOK, [Next]_vars PROVE TypeOK'
    OBVIOUS
  <2> USE DEF TypeOK
  <2>1. ASSUME NEW p \in Procs, _spend(p) PROVE TypeOK'
    <3>1. [requests |-> 1, tokens |-> 0] \in Spend
      BY DEF Spend
    <3> QED BY <2>1, <3>1, CountingType DEF _spend
  <2>2. ASSUME NEW p \in Procs, _exclusively(p) PROVE TypeOK'
    <3>1. turn[p].spend \in Spend
      BY <2>2, TurnTypes, FreeType DEF _exclusively
    <3>2. _prune(ledger, now) \in Ledgers /\ now \div Hour \in Hours
      BY PruneType, HoursOfTheClock
    <3> QED BY <2>2, <3>1, <3>2, LockedType DEF _exclusively
  <2>3. ASSUME NEW p \in Procs, _update(p) PROVE TypeOK'
    <3>1. turn[p].spend \in Spend /\ turn[p].copy \in Ledgers /\ turn[p].hour \in Hours
      BY <2>3, TurnTypes, FreeType DEF _update
    <3>2. ledger' \in Ledgers
      BY <2>3, <3>1, PlusType DEF _update, Ledgers
    <3>3. owed' \in Ledgers
      BY <2>3, <3>1, PlusType DEF _update, Ledgers
    <3>4. calls' \in [Procs -> Nat]
      BY <2>3, <3>1, SpendFields DEF _update, Sent
    <3> QED BY <2>3, <3>2, <3>3, <3>4, FreeType DEF _update
  <2>4. ASSUME NEW p \in Procs, RecordFails(p) PROVE TypeOK'
    <3>1. turn[p].spend \in Spend
      BY <2>4, TurnTypes, FreeType DEF RecordFails
    <3>2. calls' \in [Procs -> Nat]
      BY <2>4, <3>1, SpendFields DEF RecordFails, Sent
    <3> QED BY <2>4, <3>2, FreeType DEF RecordFails
  <2>5. ASSUME NEW p \in Procs, _record_tokens(p) PROVE TypeOK'
    <3>1. ASSUME NEW cost \in Costs PROVE [requests |-> 0, tokens |-> cost] \in Spend
      BY LedgerAssumption DEF Spend
    <3>2. turn' \in [Procs -> Turns]
      BY <2>5, <3>1, CountingType, FreeType DEF _record_tokens
    <3>3. calls' \in [Procs -> Nat]
      BY <2>5 DEF _record_tokens
    <3> QED BY <2>5, <3>2, <3>3 DEF _record_tokens
  <2>6. ASSUME NEW p \in Procs, CallFails(p) PROVE TypeOK'
    <3>1. calls' \in [Procs -> Nat]
      BY <2>6 DEF CallFails
    <3> QED BY <2>6, <3>1 DEF CallFails
  <2>7. ASSUME NEW p \in Procs, Crash(p) PROVE TypeOK'
    BY <2>7, FreeType DEF Crash
  <2>8. CASE reset
    <3>1. resets' \in 0 .. MaxResets
      BY <2>8, LedgerAssumption DEF reset
    <3> QED BY <2>8, <3>1, EmptyType DEF reset
  <2>9. CASE Tick
    <3>1. now' \in 0 .. MaxTime
      BY <2>9, LedgerAssumption DEF Tick
    <3> QED BY <2>9, <3>1 DEF Tick
  <2>10. CASE UNCHANGED vars
    BY <2>10 DEF vars
  <2> QED BY <2>1, <2>2, <2>3, <2>4, <2>5, <2>6, <2>7, <2>8, <2>9, <2>10 DEF Next
<1> QED BY <1>1, <1>2, PTL DEF Spec

-----------------------------------------------------------------------------
(* What `b` says of an hour is at least what is owed for it.                 *)
Covers(b, h) == /\ b[h].requests >= owed[h].requests
                /\ b[h].tokens >= owed[h].tokens

Locked(p) == turn[p].at = "locked"

(* A process with the file read holds the lock, so one process has; and what *)
(* it read covers what is owed, as nobody counts before it writes.           *)
Accounted ==
  /\ \A p \in Procs : Locked(p) => lock = p
  /\ \A p \in Procs, h \in Hours : Locked(p) /\ InWindow(h, now) => Covers(turn[p].copy, h)
  /\ NothingIsUncounted

(* An hour that is in the window was in it before.                           *)
LEMMA WindowMoves ==
  ASSUME NEW h \in Hours, now \in Nat, now' = now \/ now' = now + 1, InWindow(h, now')
  PROVE  InWindow(h, now)
BY LedgerAssumption, HoursOfTheClock DEF InWindow

(* Pruned, the file says the same of the hours in the window.                *)
LEMMA PruneKeeps ==
  ASSUME NEW b, NEW t, NEW h \in Hours, InWindow(h, t) PROVE _prune(b, t)[h] = b[h]
BY DEF _prune

(* No count is lost, whoever counts at the same time, resets or crashes      *)
(* (budget.py:126-137, 151-180).                                             *)
THEOREM SpendIsNotLost == Spec => []NothingIsUncounted
<1>1. Init => Accounted
  <2> SUFFICES ASSUME Init PROVE Accounted
    OBVIOUS
  <2>1. \A p \in Procs : ~Locked(p)
    BY FreeType DEF Init, Locked
  <2> QED BY <2>1, EmptyType DEF Init, Accounted, NothingIsUncounted
<1>2. ASSUME TypeOK, Accounted, [Next]_vars PROVE Accounted'
  <2> USE <1>2
  <2>1. /\ now \in Nat /\ ledger \in Ledgers /\ owed \in Ledgers /\ turn \in [Procs -> Turns]
    BY DEF TypeOK
  (* Steps that leave the clock, the file and what is owed, and take no lock. *)
  <2>2. ASSUME UNCHANGED <<now, ledger, owed>>,
               \A q \in Procs : Locked(q)' => turn'[q] = turn[q] /\ lock' = lock
        PROVE  Accounted'
    <3>1. \A q \in Procs : Locked(q)' => Locked(q)
      BY <2>2 DEF Locked
    <3> QED BY <2>2, <3>1 DEF Accounted, NothingIsUncounted, Covers
  <2>3. ASSUME NEW p \in Procs, _spend(p) PROVE Accounted'
    <3>1. \A q \in Procs : Locked(q)' => turn'[q] = turn[q] /\ lock' = lock
      BY <2>1, <2>3 DEF _spend, Counting, Locked
    <3> QED BY <2>2, <2>3, <3>1 DEF _spend
  <2>4. ASSUME NEW p \in Procs, _exclusively(p) PROVE Accounted'
    <3>1. \A q \in Procs : ~Locked(q)
      BY <2>4, LedgerAssumption DEF _exclusively, Accounted
    <3>2. \A q \in Procs : Locked(q)' => q = p
      BY <2>1, <2>4, <3>1 DEF _exclusively, Locked
    <3>3. turn'[p].copy = _prune(ledger, now) /\ lock' = p
      BY <2>1, <2>4 DEF _exclusively
    <3>4. UNCHANGED <<now, ledger, owed>>
      BY <2>4 DEF _exclusively
    <3>5. \A h \in Hours : InWindow(h, now) => Covers(turn[p].copy, h)'
      BY <3>3, <3>4, PruneKeeps DEF Accounted, NothingIsUncounted, Covers
    <3> QED BY <3>2, <3>3, <3>4, <3>5 DEF Accounted, NothingIsUncounted
  <2>5. ASSUME NEW p \in Procs, _update(p) PROVE Accounted'
    <3>1. Locked(p) /\ lock = p
      BY <2>5 DEF _update, Accounted, Locked
    <3>2. \A q \in Procs : ~Locked(q)'
      BY <2>1, <2>5, <3>1, FreeType DEF _update, Accounted, Locked
    <3>3. turn[p].spend \in Spend /\ turn[p].copy \in Ledgers /\ turn[p].hour \in Hours
      BY <2>1, <2>5, TurnTypes, FreeType DEF _update
    <3>4. ASSUME NEW h \in Hours, InWindow(h, now) PROVE Covers(ledger, h)'
      <4>1. Covers(turn[p].copy, h)
        BY <3>1, <3>4 DEF Accounted
      <4>2. turn[p].copy[h] \in Spend /\ owed[h] \in Spend
        BY <2>1, <3>3 DEF Ledgers
      <4>3. CASE h = turn[p].hour
        <5>1. ledger'[h] = Plus(turn[p].copy[h], turn[p].spend)
          BY <2>5, <3>3, <4>3 DEF _update, Ledgers
        <5>2. owed'[h] = Plus(owed[h], turn[p].spend)
          BY <2>1, <2>5, <4>3 DEF _update, Ledgers
        <5> QED BY <3>3, <4>1, <4>2, <5>1, <5>2, PlusType, SpendFields DEF Covers
      <4>4. CASE h # turn[p].hour
        <5>1. ledger'[h] = turn[p].copy[h] /\ owed'[h] = owed[h]
          BY <2>1, <2>5, <3>3, <4>4 DEF _update, Ledgers
        <5> QED BY <4>1, <5>1 DEF Covers
      <4> QED BY <4>3, <4>4
    <3>5. now' = now
      BY <2>5 DEF _update
    <3> QED BY <3>2, <3>4, <3>5 DEF Accounted, NothingIsUncounted, Covers
  <2>6. ASSUME NEW p \in Procs, RecordFails(p) \/ Crash(p) PROVE Accounted'
    <3>1. \A q \in Procs : Locked(q)' => turn'[q] = turn[q] /\ lock' = lock
      BY <2>1, <2>6, FreeType DEF RecordFails, Crash, Accounted, Locked
    <3> QED BY <2>2, <2>6, <3>1 DEF RecordFails, Crash
  <2>7. ASSUME NEW p \in Procs, _record_tokens(p) PROVE Accounted'
    <3>1. \A q \in Procs : Locked(q)' => turn'[q] = turn[q] /\ lock' = lock
      BY <2>1, <2>7, FreeType DEF _record_tokens, Counting, Locked
    <3> QED BY <2>2, <2>7, <3>1 DEF _record_tokens
  <2>8. ASSUME NEW p \in Procs, CallFails(p) PROVE Accounted'
    BY <2>2, <2>8 DEF CallFails
  <2>9. CASE reset
    <3>1. ASSUME NEW p \in Procs, NEW h \in Hours, Locked(p) PROVE Covers(turn[p].copy, h)'
      <4>1. turn[p].copy[h] \in Spend
        BY <2>1, <3>1, TurnTypes, FreeType DEF Locked, Ledgers
      <4> QED BY <2>9, <4>1, EmptyType, SpendFields DEF reset, Covers
    <3>2. \A h \in Hours : Covers(ledger, h)'
      BY <2>9, EmptyType DEF reset, Covers
    <3>3. UNCHANGED <<now, lock, turn>>
      BY <2>9 DEF reset
    <3> QED BY <3>1, <3>2, <3>3 DEF Accounted, NothingIsUncounted, Covers, Locked
  <2>10. CASE Tick
    <3>1. now' = now + 1 /\ UNCHANGED <<ledger, lock, turn, owed>>
      BY <2>10 DEF Tick
    <3>2. \A h \in Hours : InWindow(h, now') => InWindow(h, now)
      BY <2>1, <3>1, WindowMoves
    <3> QED BY <3>1, <3>2 DEF Accounted, NothingIsUncounted, Covers, Locked
  <2>11. CASE UNCHANGED vars
    BY <2>2, <2>11 DEF vars
  <2> QED BY <2>3, <2>4, <2>5, <2>6, <2>7, <2>8, <2>9, <2>10, <2>11 DEF Next
<1>3. Accounted => NothingIsUncounted
  BY DEF Accounted
<1> QED BY <1>1, <1>2, <1>3, TypesHold, PTL DEF Spec

-----------------------------------------------------------------------------
(* What the window has cost, as two sums over it.                            *)
Window(time) == {h \in Hours : InWindow(h, time)}

Requests(b) == [h \in Hours |-> b[h].requests]

Tokens(b) == [h \in Hours |-> b[h].tokens]

LEMMA WindowIsFinite ==
  ASSUME NEW t
  PROVE  IsFiniteSet(Window(t)) /\ Window(t) \subseteq Hours
<1>1. MaxTime \div Hour \in Int
  BY LedgerAssumption
<1>2. IsFiniteSet(Hours)
  BY <1>1, FS_Interval DEF Hours
<1> QED BY <1>2, FS_Subset DEF Window

LEMMA Columns ==
  ASSUME NEW b \in Ledgers, NEW h \in Hours
  PROVE  /\ Requests(b)[h] = b[h].requests /\ Requests(b)[h] \in Nat
         /\ Tokens(b)[h] = b[h].tokens /\ Tokens(b)[h] \in Nat
BY SpendFields DEF Requests, Tokens, Ledgers

LEMMA UsageIs ==
  ASSUME NEW b \in Ledgers, NEW t
  PROVE  /\ usage(b, t).requests = SumFunctionOnSet(Requests(b), Window(t))
         /\ usage(b, t).requests \in Nat
         /\ usage(b, t).tokens = SumFunctionOnSet(Tokens(b), Window(t))
         /\ usage(b, t).tokens \in Nat
<1>1. /\ usage(b, t).requests = SumFunctionOnSet(Requests(b), Window(t))
      /\ usage(b, t).tokens = SumFunctionOnSet(Tokens(b), Window(t))
  BY DEF usage, Requests, Tokens, Window
<1>2. \A h \in Window(t) : Requests(b)[h] \in Nat /\ Tokens(b)[h] \in Nat
  BY WindowIsFinite, Columns
<1> QED BY <1>1, <1>2, WindowIsFinite, SumIsNat

(* Hour by hour less costs less.                                             *)
LEMMA UsageGrows ==
  ASSUME NEW b \in Ledgers, NEW c \in Ledgers, NEW t,
         \A h \in Window(t) : b[h].requests <= c[h].requests /\ b[h].tokens <= c[h].tokens
  PROVE  /\ usage(b, t).requests <= usage(c, t).requests
         /\ usage(b, t).tokens <= usage(c, t).tokens
<1>1. ASSUME NEW h \in Window(t)
      PROVE  /\ Requests(b)[h] \in Nat /\ Requests(c)[h] \in Nat /\ Requests(b)[h] <= Requests(c)[h]
             /\ Tokens(b)[h] \in Nat /\ Tokens(c)[h] \in Nat /\ Tokens(b)[h] <= Tokens(c)[h]
  BY WindowIsFinite, Columns
<1>2. SumFunctionOnSet(Requests(b), Window(t)) <= SumFunctionOnSet(Requests(c), Window(t))
  BY <1>1, WindowIsFinite, SumGrows
<1>3. SumFunctionOnSet(Tokens(b), Window(t)) <= SumFunctionOnSet(Tokens(c), Window(t))
  BY <1>1, WindowIsFinite, SumGrows
<1> QED BY <1>2, <1>3, UsageIs

(* Counting a spend adds no more than the spend: it does if its hour is in   *)
(* the window.                                                               *)
LEMMA UsageCounts ==
  ASSUME NEW b \in Ledgers, NEW t, NEW s \in Spend, NEW h \in Hours,
         NEW c \in Ledgers, c[h] = Plus(b[h], s), \A k \in Hours : k # h => c[k] = b[k]
  PROVE  /\ usage(c, t).requests <= usage(b, t).requests + s.requests
         /\ usage(c, t).tokens <= usage(b, t).tokens + s.tokens
<1>1. /\ c[h].requests = b[h].requests + s.requests
      /\ c[h].tokens = b[h].tokens + s.tokens
      /\ s.requests \in Nat /\ s.tokens \in Nat
  BY PlusType, SpendFields DEF Ledgers
<1>2. \A k \in Window(t) : /\ Requests(b)[k] \in Nat /\ Requests(c)[k] \in Nat
                           /\ Tokens(b)[k] \in Nat /\ Tokens(c)[k] \in Nat
                           /\ k # h => /\ Requests(b)[k] = Requests(c)[k]
                                       /\ Tokens(b)[k] = Tokens(c)[k]
  <2> SUFFICES ASSUME NEW k \in Hours
      PROVE  /\ Requests(b)[k] \in Nat /\ Requests(c)[k] \in Nat
             /\ Tokens(b)[k] \in Nat /\ Tokens(c)[k] \in Nat
             /\ k # h => /\ Requests(b)[k] = Requests(c)[k]
                         /\ Tokens(b)[k] = Tokens(c)[k]
    BY WindowIsFinite
  <2>1. /\ Requests(b)[k] \in Nat /\ Requests(b)[k] = b[k].requests
        /\ Tokens(b)[k] \in Nat /\ Tokens(b)[k] = b[k].tokens
    BY Columns
  <2>2. /\ Requests(c)[k] \in Nat /\ Requests(c)[k] = c[k].requests
        /\ Tokens(c)[k] \in Nat /\ Tokens(c)[k] = c[k].tokens
    BY Columns
  <2> QED BY <2>1, <2>2
<1>3. CASE h \in Window(t)
  <2>0. IsFiniteSet(Window(t))
    BY WindowIsFinite
  <2>1. /\ SumFunctionOnSet(Requests(c), Window(t)) + Requests(b)[h]
             = SumFunctionOnSet(Requests(b), Window(t)) + Requests(c)[h]
        /\ SumFunctionOnSet(Tokens(c), Window(t)) + Tokens(b)[h]
             = SumFunctionOnSet(Tokens(b), Window(t)) + Tokens(c)[h]
    <3>1. \A k \in Window(t) :
            /\ Requests(c)[k] \in Nat /\ Requests(b)[k] \in Nat
            /\ k # h => Requests(c)[k] = Requests(b)[k]
      BY <1>2
    <3>2. \A k \in Window(t) :
            /\ Tokens(c)[k] \in Nat /\ Tokens(b)[k] \in Nat
            /\ k # h => Tokens(c)[k] = Tokens(b)[k]
      BY <1>2
    <3>3. SumFunctionOnSet(Requests(c), Window(t)) + Requests(b)[h]
            = SumFunctionOnSet(Requests(b), Window(t)) + Requests(c)[h]
      BY <1>3, <2>0, <3>1, SumChanges
    <3>4. SumFunctionOnSet(Tokens(c), Window(t)) + Tokens(b)[h]
            = SumFunctionOnSet(Tokens(b), Window(t)) + Tokens(c)[h]
      BY <1>3, <2>0, <3>2, SumChanges
    <3> QED BY <3>3, <3>4
  <2>2. /\ Requests(b)[h] \in Nat /\ Requests(c)[h] = Requests(b)[h] + s.requests
        /\ Tokens(b)[h] \in Nat /\ Tokens(c)[h] = Tokens(b)[h] + s.tokens
    BY <1>1, Columns
  <2>3. /\ usage(c, t).requests + Requests(b)[h] = usage(b, t).requests + Requests(c)[h]
        /\ usage(c, t).tokens + Tokens(b)[h] = usage(b, t).tokens + Tokens(c)[h]
        /\ usage(c, t).requests \in Nat /\ usage(b, t).requests \in Nat
        /\ usage(c, t).tokens \in Nat /\ usage(b, t).tokens \in Nat
    BY <2>1, UsageIs
  <2> QED BY <1>1, <2>2, <2>3
<1>4. CASE h \notin Window(t)
  <2>1. /\ SumFunctionOnSet(Requests(c), Window(t)) = SumFunctionOnSet(Requests(b), Window(t))
        /\ SumFunctionOnSet(Tokens(c), Window(t)) = SumFunctionOnSet(Tokens(b), Window(t))
    BY <1>2, <1>4, WindowIsFinite, SumIsSame
  <2>2. usage(c, t).requests = usage(b, t).requests /\ usage(c, t).tokens = usage(b, t).tokens
    BY <2>1, UsageIs
  <2>3. usage(b, t).requests \in Nat /\ usage(b, t).tokens \in Nat
    BY UsageIs
  <2> QED BY <1>1, <2>2, <2>3
<1> QED BY <1>3, <1>4

(* An empty ledger has cost nothing.                                         *)
LEMMA UsageStarts ==
  ASSUME NEW t PROVE usage(Empty, t).requests = 0 /\ usage(Empty, t).tokens = 0
<1>1. \A h \in Window(t) : Requests(Empty)[h] = 0 /\ Tokens(Empty)[h] = 0
  BY EmptyType, WindowIsFinite, Columns
<1>2. /\ SumFunctionOnSet(Requests(Empty), Window(t)) <= Cardinality(Window(t)) * 0
      /\ SumFunctionOnSet(Tokens(Empty), Window(t)) <= Cardinality(Window(t)) * 0
  <2>1. 0 \in Nat /\ 0 <= 0 /\ IsFiniteSet(Window(t))
    BY WindowIsFinite
  <2>2. \A h \in Window(t) : Requests(Empty)[h] \in Nat /\ Requests(Empty)[h] <= 0
    BY <1>1
  <2>3. \A h \in Window(t) : Tokens(Empty)[h] \in Nat /\ Tokens(Empty)[h] <= 0
    BY <1>1
  <2>4. SumFunctionOnSet(Requests(Empty), Window(t)) <= Cardinality(Window(t)) * 0
    BY <2>1, <2>2, SumIsBounded
  <2>5. SumFunctionOnSet(Tokens(Empty), Window(t)) <= Cardinality(Window(t)) * 0
    BY <2>1, <2>3, SumIsBounded
  <2> QED BY <2>4, <2>5
<1>3. Cardinality(Window(t)) * 0 = 0
  BY WindowIsFinite, FS_CardinalityType
<1> QED BY <1>2, <1>3, EmptyType, UsageIs

(* As the window moves on, what is left of it has cost no more.              *)
LEMMA UsageShrinks ==
  ASSUME NEW b \in Ledgers, NEW t \in Nat
  PROVE  /\ usage(b, t + 1).requests <= usage(b, t).requests
         /\ usage(b, t + 1).tokens <= usage(b, t).tokens
<1>1. Window(t + 1) \in SUBSET Window(t)
  <2> SUFFICES ASSUME NEW h \in Hours, InWindow(h, t + 1) PROVE InWindow(h, t)
    BY DEF Window
  <2>1. h \in Nat /\ Hour \in Nat /\ Day \in Nat /\ h * Hour \in Nat
    BY LedgerAssumption, HoursOfTheClock
  <2> QED BY <2>1 DEF InWindow
<1>2. \A h \in Window(t) : Requests(b)[h] \in Nat /\ Tokens(b)[h] \in Nat
  BY WindowIsFinite, Columns
<1>3. /\ SumFunctionOnSet(Requests(b), Window(t + 1)) <= SumFunctionOnSet(Requests(b), Window(t))
      /\ SumFunctionOnSet(Tokens(b), Window(t + 1)) <= SumFunctionOnSet(Tokens(b), Window(t))
  BY <1>1, <1>2, WindowIsFinite, SumOfPart
<1> QED BY <1>3, UsageIs

-----------------------------------------------------------------------------
(* What a process has begun to count, and how much more it can come to: the  *)
(* tokens being counted and one costliest answer for each request in flight  *)
(* or about to be.                                                           *)
MostOfAll == Max(Costs)

About(t, p) == IF t[p] = Free THEN [requests |-> 0, tokens |-> 0] ELSE t[p].spend

Asked(t) == [p \in Procs |-> About(t, p).requests]

Coming(t, c) ==
  [p \in Procs |-> About(t, p).tokens + (c[p] + About(t, p).requests) * MostOfAll]

(* A process counts one request or the tokens of one answer at a time, and   *)
(* keeps room for the request it counts, as for the one that was answered.   *)
OneAtATime(t, c) ==
  \A p \in Procs :
    /\ c[p] <= MaxConcurrent
    /\ t[p] # Free =>
         /\ c[p] < MaxConcurrent
         /\ \/ t[p].spend.requests = 1 /\ t[p].spend.tokens = 0
            \/ t[p].spend.requests = 0 /\ t[p].spend.tokens \in Costs

(* What the day has cost, with what is yet to come in, is within reach of    *)
(* the ceilings.                                                             *)
RequestsInReach ==
  RequestsPerDay > 0 =>
    usage(owed, now).requests + SumFunctionOnSet(Asked(turn), Procs)
      < RequestsPerDay + Cardinality(Procs)

TokensInReach ==
  TokensPerDay > 0 =>
    usage(owed, now).tokens + SumFunctionOnSet(Coming(turn, calls), Procs)
      < TokensPerDay + Cardinality(Procs) * (MaxConcurrent * MostOfAll)

InReach == OneAtATime(turn, calls) /\ RequestsInReach /\ TokensInReach

LEMMA MostIsMost ==
  MostOfAll \in Nat /\ \A cost \in Costs : cost \in Nat /\ cost <= MostOfAll
<1>1. PICK most \in Costs : \A cost \in Costs : cost <= most
  BY LedgerAssumption
<1>2. MostOfAll \in Costs /\ \A cost \in Costs : cost <= MostOfAll
  <2>1. \E x \in Costs : \A y \in Costs : x >= y
    BY <1>1, LedgerAssumption
  <2> QED BY <2>1, LedgerAssumption DEF MostOfAll, Max
<1> QED BY <1>2, LedgerAssumption

LEMMA AboutType ==
  ASSUME NEW t \in [Procs -> Turns], NEW p \in Procs
  PROVE  About(t, p) \in Spend /\ About(t, p).requests \in Nat /\ About(t, p).tokens \in Nat
<1>1. About(t, p) \in Spend
  BY TurnTypes DEF About, Spend
<1> QED BY <1>1, SpendFields

LEMMA ComingTypes ==
  ASSUME NEW t \in [Procs -> Turns], NEW c \in [Procs -> Nat]
  PROVE  \A p \in Procs : /\ Asked(t)[p] = About(t, p).requests /\ Asked(t)[p] \in Nat
                          /\ Coming(t, c)[p] \in Nat /\ c[p] \in Nat
                          /\ Coming(t, c)[p] = About(t, p).tokens + (c[p] + About(t, p).requests) * MostOfAll
<1> SUFFICES ASSUME NEW p \in Procs
    PROVE  /\ Asked(t)[p] = About(t, p).requests /\ Asked(t)[p] \in Nat
           /\ Coming(t, c)[p] \in Nat /\ c[p] \in Nat
           /\ Coming(t, c)[p] = About(t, p).tokens + (c[p] + About(t, p).requests) * MostOfAll
  OBVIOUS
<1>1. About(t, p).requests \in Nat /\ About(t, p).tokens \in Nat /\ c[p] \in Nat
  BY AboutType
<1>2. (c[p] + About(t, p).requests) * MostOfAll \in Nat
  BY <1>1, MostIsMost
<1>3. /\ Asked(t)[p] = About(t, p).requests
      /\ Coming(t, c)[p] = About(t, p).tokens + (c[p] + About(t, p).requests) * MostOfAll
  BY DEF Asked, Coming
<1> QED BY <1>1, <1>2, <1>3

(* No process asks for more than a request, or has more than its share to    *)
(* come.                                                                     *)
LEMMA Shares ==
  ASSUME NEW t \in [Procs -> Turns], NEW c \in [Procs -> Nat], OneAtATime(t, c)
  PROVE  /\ SumFunctionOnSet(Asked(t), Procs) <= Cardinality(Procs)
         /\ SumFunctionOnSet(Coming(t, c), Procs) <= Cardinality(Procs) * (MaxConcurrent * MostOfAll)
<1>1. MaxConcurrent \in Nat /\ MostOfAll \in Nat /\ MaxConcurrent * MostOfAll \in Nat
  BY LedgerAssumption, MostIsMost
<1>2. ASSUME NEW p \in Procs PROVE Asked(t)[p] <= 1 /\ Coming(t, c)[p] <= MaxConcurrent * MostOfAll
  <2>1. /\ c[p] \in Nat /\ c[p] <= MaxConcurrent
        /\ Asked(t)[p] = About(t, p).requests
        /\ Coming(t, c)[p] = About(t, p).tokens + (c[p] + About(t, p).requests) * MostOfAll
    BY ComingTypes DEF OneAtATime
  <2>2. ASSUME NEW n \in Nat, n <= MaxConcurrent
        PROVE  n * MostOfAll <= MaxConcurrent * MostOfAll
    BY <1>1, <2>2
  <2>3. CASE t[p] = Free
    <3>1. About(t, p).requests = 0 /\ About(t, p).tokens = 0
      BY <2>3 DEF About
    <3>2. Coming(t, c)[p] = c[p] * MostOfAll
      BY <1>1, <2>1, <3>1
    <3> QED BY <2>1, <2>2, <3>1, <3>2
  <2>4. CASE t[p] # Free
    <3>1. /\ c[p] + 1 <= MaxConcurrent /\ c[p] + 1 \in Nat
          /\ \/ About(t, p).requests = 1 /\ About(t, p).tokens = 0
             \/ About(t, p).requests = 0 /\ About(t, p).tokens \in Costs
      BY <1>1, <2>1, <2>4 DEF OneAtATime, About
    <3>2. (c[p] + 1) * MostOfAll <= MaxConcurrent * MostOfAll
      BY <2>2, <3>1
    <3>3. CASE About(t, p).requests = 1 /\ About(t, p).tokens = 0
      <4>1. Coming(t, c)[p] = (c[p] + 1) * MostOfAll
        BY <1>1, <2>1, <3>3
      <4> QED BY <2>1, <3>2, <3>3, <4>1
    <3>4. CASE About(t, p).requests = 0 /\ About(t, p).tokens \in Costs
      <4>1. /\ Coming(t, c)[p] = About(t, p).tokens + c[p] * MostOfAll
            /\ c[p] * MostOfAll \in Nat
            /\ (c[p] + 1) * MostOfAll = c[p] * MostOfAll + MostOfAll
        BY <1>1, <2>1, <3>4
      <4>2. About(t, p).tokens \in Nat /\ About(t, p).tokens <= MostOfAll
        BY <3>4, MostIsMost
      <4> QED BY <1>1, <2>1, <3>2, <3>4, <4>1, <4>2
    <3> QED BY <3>1, <3>3, <3>4
  <2> QED BY <2>3, <2>4
<1>3. \A p \in Procs : Asked(t)[p] \in Nat /\ Coming(t, c)[p] \in Nat
  BY ComingTypes
<1>4. IsFiniteSet(Procs) /\ Cardinality(Procs) \in Nat
  BY LedgerAssumption, FS_CardinalityType
<1>5. SumFunctionOnSet(Asked(t), Procs) <= Cardinality(Procs) * 1
  BY <1>2, <1>3, <1>4, SumIsBounded
<1>6. SumFunctionOnSet(Coming(t, c), Procs) <= Cardinality(Procs) * (MaxConcurrent * MostOfAll)
  BY <1>1, <1>2, <1>3, <1>4, SumIsBounded
<1> QED BY <1>4, <1>5, <1>6

LEMMA SumsAreNumbers ==
  ASSUME TypeOK
  PROVE  /\ SumFunctionOnSet(Asked(turn), Procs) \in Nat
         /\ SumFunctionOnSet(Coming(turn, calls), Procs) \in Nat
         /\ usage(owed, now).requests \in Nat
         /\ usage(owed, now).tokens \in Nat
BY ComingTypes, LedgerAssumption, SumIsNat, UsageIs DEF TypeOK

(* One process moves on: it begins nothing more, nor has more to come, than  *)
(* the day has cost less.                                                    *)
LEMMA OneMovesOn ==
  ASSUME TypeOK, TypeOK', InReach, OneAtATime(turn', calls'),
         NEW p \in Procs, NEW s \in Spend,
         \A q \in Procs : q # p => turn'[q] = turn[q] /\ calls'[q] = calls[q],
         usage(owed', now').requests <= usage(owed, now).requests + s.requests,
         usage(owed', now').tokens <= usage(owed, now).tokens + s.tokens,
         Asked(turn')[p] + s.requests <= Asked(turn)[p],
         Coming(turn', calls')[p] + s.tokens <= Coming(turn, calls)[p]
  PROVE  InReach'
<1>1. \A q \in Procs : /\ Asked(turn)[q] \in Nat /\ Asked(turn')[q] \in Nat
                       /\ Coming(turn, calls)[q] \in Nat /\ Coming(turn', calls')[q] \in Nat
  BY ComingTypes DEF TypeOK
<1>2. \A q \in Procs : q # p => Asked(turn)[q] = Asked(turn')[q] /\ Coming(turn, calls)[q] = Coming(turn', calls')[q]
  BY DEF Asked, Coming, About
<1>3. /\ SumFunctionOnSet(Asked(turn), Procs) + Asked(turn')[p] = SumFunctionOnSet(Asked(turn'), Procs) + Asked(turn)[p]
      /\ SumFunctionOnSet(Coming(turn, calls), Procs) + Coming(turn', calls')[p] = SumFunctionOnSet(Coming(turn', calls'), Procs) + Coming(turn, calls)[p]
  BY <1>1, <1>2, LedgerAssumption, SumChanges
<1>4. /\ SumFunctionOnSet(Asked(turn), Procs) \in Nat /\ SumFunctionOnSet(Coming(turn, calls), Procs) \in Nat
      /\ SumFunctionOnSet(Asked(turn'), Procs) \in Nat /\ SumFunctionOnSet(Coming(turn', calls'), Procs) \in Nat
  BY <1>1, LedgerAssumption, SumIsNat
<1>5. /\ usage(owed, now).requests \in Nat /\ usage(owed, now).tokens \in Nat
      /\ usage(owed', now').requests \in Nat /\ usage(owed', now').tokens \in Nat
  BY UsageIs DEF TypeOK
<1>6. s.requests \in Nat /\ s.tokens \in Nat
  BY SpendFields
<1>7. SumFunctionOnSet(Asked(turn'), Procs) + s.requests <= SumFunctionOnSet(Asked(turn), Procs)
  BY <1>1, <1>3, <1>4, <1>6
<1>8. SumFunctionOnSet(Coming(turn', calls'), Procs) + s.tokens <= SumFunctionOnSet(Coming(turn, calls), Procs)
  BY <1>1, <1>3, <1>4, <1>6
<1>9. Cardinality(Procs) \in Nat /\ RequestsPerDay \in Nat /\ TokensPerDay \in Nat
      /\ Cardinality(Procs) * (MaxConcurrent * MostOfAll) \in Nat
  BY LedgerAssumption, FS_CardinalityType, MostIsMost
<1>10. RequestsInReach'
  BY <1>4, <1>5, <1>6, <1>7, <1>9 DEF InReach, RequestsInReach
<1>11. TokensInReach'
  BY <1>4, <1>5, <1>6, <1>8, <1>9 DEF InReach, TokensInReach
<1> QED BY <1>10, <1>11 DEF InReach

LEMMA OneAtATimeStays ==
  ASSUME TypeOK, OneAtATime(turn, calls), [Next]_vars PROVE OneAtATime(turn', calls')
<1> USE DEF TypeOK
<1>1. ASSUME NEW p \in Procs, _spend(p) PROVE OneAtATime(turn', calls')
  <2>1. /\ turn'[p] = Counting([requests |-> 1, tokens |-> 0])
        /\ calls' = calls /\ calls[p] < MaxConcurrent
        /\ \A q \in Procs : q # p => turn'[q] = turn[q]
    BY <1>1 DEF _spend
  <2> QED BY <2>1 DEF OneAtATime, Counting
<1>2. ASSUME NEW p \in Procs, _exclusively(p) PROVE OneAtATime(turn', calls')
  <2>1. /\ turn'[p].spend = turn[p].spend /\ turn[p] # Free
        /\ calls' = calls
        /\ \A q \in Procs : q # p => turn'[q] = turn[q]
    BY <1>2, FreeType DEF _exclusively
  <2> QED BY <2>1 DEF OneAtATime
<1>3. ASSUME NEW p \in Procs, _update(p) \/ RecordFails(p) PROVE OneAtATime(turn', calls')
  <2>1. /\ turn'[p] = Free /\ turn[p] # Free
        /\ calls'[p] = calls[p] + turn[p].spend.requests
        /\ \A q \in Procs : q # p => turn'[q] = turn[q] /\ calls'[q] = calls[q]
    BY <1>3, FreeType DEF _update, RecordFails, Sent
  <2>2. calls'[p] <= MaxConcurrent
    BY <2>1, LedgerAssumption DEF OneAtATime
  <2> QED BY <2>1, <2>2 DEF OneAtATime
<1>4. ASSUME NEW p \in Procs, _record_tokens(p) PROVE OneAtATime(turn', calls')
  <2>1. /\ calls'[p] = calls[p] - 1 /\ calls[p] \in Nat /\ calls[p] <= MaxConcurrent
        /\ \A q \in Procs : q # p => turn'[q] = turn[q] /\ calls'[q] = calls[q]
    BY <1>4 DEF _record_tokens, OneAtATime
  <2>2. PICK cost \in Costs :
          turn'[p] = IF cost > 0 THEN Counting([requests |-> 0, tokens |-> cost]) ELSE Free
    BY <1>4 DEF _record_tokens
  <2>3. turn'[p] # Free => turn'[p].spend.requests = 0 /\ turn'[p].spend.tokens = cost
    BY <2>2 DEF Counting
  <2>4. calls'[p] < MaxConcurrent
    BY <2>1, LedgerAssumption
  <2> QED BY <2>1, <2>2, <2>3, <2>4, LedgerAssumption DEF OneAtATime
<1>5. ASSUME NEW p \in Procs, CallFails(p) PROVE OneAtATime(turn', calls')
  <2>1. /\ calls'[p] = calls[p] - 1 /\ calls[p] \in Nat /\ calls[p] <= MaxConcurrent
        /\ \A q \in Procs : q # p => calls'[q] = calls[q]
        /\ turn' = turn /\ turn[p] = Free
    BY <1>5 DEF CallFails, OneAtATime
  <2>2. calls'[p] <= MaxConcurrent
    BY <2>1, LedgerAssumption
  <2> QED BY <2>1, <2>2 DEF OneAtATime
<1>6. ASSUME NEW p \in Procs, Crash(p) PROVE OneAtATime(turn', calls')
  <2>1. /\ calls'[p] = 0 /\ turn'[p] = Free
        /\ \A q \in Procs : q # p => calls'[q] = calls[q] /\ turn'[q] = turn[q]
    BY <1>6 DEF Crash
  <2> QED BY <2>1, LedgerAssumption DEF OneAtATime
<1>7. CASE reset \/ Tick \/ UNCHANGED vars
  BY <1>7 DEF reset, Tick, vars, OneAtATime
<1> QED BY <1>1, <1>2, <1>3, <1>4, <1>5, <1>6, <1>7 DEF Next

LEMMA InReachStays ==
  ASSUME TypeOK, TypeOK', NothingIsUncounted, InReach, [Next]_vars PROVE InReach'
<1>1. OneAtATime(turn', calls')
  BY OneAtATimeStays DEF InReach
<1>2. /\ owed \in Ledgers /\ ledger \in Ledgers /\ now \in Nat
      /\ turn \in [Procs -> Turns] /\ calls \in [Procs -> Nat] /\ owed' \in Ledgers
  BY DEF TypeOK
<1>3. /\ usage(owed, now).requests \in Nat /\ usage(owed, now).tokens \in Nat
      /\ usage(ledger, now).requests \in Nat /\ usage(ledger, now).tokens \in Nat
  BY <1>2, UsageIs
<1>4. MostOfAll \in Nat /\ \A cost \in Costs : cost \in Nat /\ cost <= MostOfAll
  BY MostIsMost
<1>5. \A p \in Procs : /\ Asked(turn)[p] = About(turn, p).requests /\ Asked(turn)[p] \in Nat
                       /\ Coming(turn, calls)[p] \in Nat
                       /\ Coming(turn, calls)[p] = About(turn, p).tokens + (calls[p] + About(turn, p).requests) * MostOfAll
                       /\ About(turn, p).requests \in Nat /\ About(turn, p).tokens \in Nat
  BY ComingTypes, AboutType DEF TypeOK
<1>6. \A p \in Procs :
        /\ Asked(turn')[p] = About(turn', p).requests /\ Asked(turn')[p] \in Nat
        /\ Coming(turn', calls')[p] \in Nat
        /\ Coming(turn', calls')[p] = About(turn', p).tokens + (calls'[p] + About(turn', p).requests) * MostOfAll
  BY ComingTypes DEF TypeOK
<1> DEFINE Nothing == [requests |-> 0, tokens |-> 0]
<1>7. Nothing \in Spend /\ Nothing.requests = 0 /\ Nothing.tokens = 0
  BY DEF Spend
(* The ceilings had not been reached when it looked, whatever has begun since. *)
<1>8. ASSUME NEW p \in Procs, _spend(p) PROVE InReach'
  <2>1. UNCHANGED <<now, owed>>
    BY <1>8 DEF _spend
  <2>2. /\ usage(owed, now).requests <= usage(ledger, now).requests
        /\ usage(owed, now).tokens <= usage(ledger, now).tokens
    <3>1. \A h \in Window(now) : /\ owed[h].requests <= ledger[h].requests
                                 /\ owed[h].tokens <= ledger[h].tokens
      <4>1. \A h \in Hours : /\ owed[h].requests \in Nat /\ owed[h].tokens \in Nat
                             /\ ledger[h].requests \in Nat /\ ledger[h].tokens \in Nat
        BY <1>2, SpendFields DEF Ledgers
      <4> QED BY <4>1 DEF NothingIsUncounted, Window
    <3> QED BY <1>2, <3>1, UsageGrows
  <2>3. /\ RequestsPerDay > 0 => usage(ledger, now).requests < RequestsPerDay
        /\ TokensPerDay > 0 => usage(ledger, now).tokens < TokensPerDay
    BY <1>3, <1>8, LedgerAssumption DEF _spend, Reached
  <2>4. /\ SumFunctionOnSet(Asked(turn'), Procs) <= Cardinality(Procs)
        /\ SumFunctionOnSet(Coming(turn', calls'), Procs) <= Cardinality(Procs) * (MaxConcurrent * MostOfAll)
    BY <1>1, Shares DEF TypeOK
  <2>5. /\ SumFunctionOnSet(Asked(turn'), Procs) \in Nat /\ SumFunctionOnSet(Coming(turn', calls'), Procs) \in Nat
    BY <1>6, LedgerAssumption, SumIsNat
  <2>6. /\ Cardinality(Procs) \in Nat /\ RequestsPerDay \in Nat /\ TokensPerDay \in Nat
        /\ Cardinality(Procs) * (MaxConcurrent * MostOfAll) \in Nat
    BY <1>4, LedgerAssumption, FS_CardinalityType
  <2>7. RequestsInReach'
    BY <1>3, <2>1, <2>2, <2>3, <2>4, <2>5, <2>6 DEF RequestsInReach
  <2>8. TokensInReach'
    BY <1>3, <2>1, <2>2, <2>3, <2>4, <2>5, <2>6 DEF TokensInReach
  <2> QED BY <1>1, <2>7, <2>8 DEF InReach
<1>9. ASSUME NEW p \in Procs, _exclusively(p) PROVE InReach'
  <2>1. /\ UNCHANGED <<now, owed, calls>>
        /\ turn[p] # Free /\ turn'[p] # Free /\ turn'[p].spend = turn[p].spend
        /\ \A q \in Procs : q # p => turn'[q] = turn[q]
    BY <1>2, <1>9, FreeType DEF _exclusively, Free
  <2>2. About(turn', p) = About(turn, p)
    BY <2>1 DEF About
  <2>3. Asked(turn')[p] = Asked(turn)[p] /\ Coming(turn', calls')[p] = Coming(turn, calls)[p]
    BY <1>5, <1>6, <2>1, <2>2
  <2> QED BY <1>1, <1>3, <1>5, <1>7, <2>1, <2>3, OneMovesOn
(* What was begun is counted: what it adds to the day it takes from what is to come. *)
<1>10. ASSUME NEW p \in Procs, _update(p) PROVE InReach'
  <2>1. /\ now' = now /\ turn[p] # Free /\ turn'[p] = Free
        /\ turn[p].spend \in Spend /\ turn[p].hour \in Hours
        /\ owed' = [owed EXCEPT ![turn[p].hour] = Plus(@, turn[p].spend)]
        /\ calls'[p] = calls[p] + turn[p].spend.requests
        /\ \A q \in Procs : q # p => turn'[q] = turn[q] /\ calls'[q] = calls[q]
    BY <1>2, <1>10, FreeType, TurnTypes DEF _update, Sent
  <2> DEFINE s == turn[p].spend
  <2>2. About(turn, p) = s /\ About(turn', p) = Nothing
    BY <2>1 DEF About
  <2>3. /\ usage(owed', now').requests <= usage(owed, now).requests + s.requests
        /\ usage(owed', now').tokens <= usage(owed, now).tokens + s.tokens
    <3>1. /\ owed'[turn[p].hour] = Plus(owed[turn[p].hour], s)
          /\ \A k \in Hours : k # turn[p].hour => owed'[k] = owed[k]
      BY <1>2, <2>1 DEF Ledgers
    <3> QED BY <1>2, <2>1, <3>1, UsageCounts
  <2>4. /\ Asked(turn)[p] = s.requests /\ Asked(turn')[p] = 0
        /\ Coming(turn, calls)[p] = s.tokens + (calls[p] + s.requests) * MostOfAll
        /\ Coming(turn', calls')[p] = 0 + (calls[p] + s.requests + 0) * MostOfAll
    BY <1>5, <1>6, <1>7, <2>1, <2>2
  <2>5. s.requests \in Nat /\ s.tokens \in Nat /\ calls[p] \in Nat
    BY <1>2, <2>1, SpendFields
  <2>6. (calls[p] + s.requests) * MostOfAll \in Nat
    BY <1>4, <2>5
  <2>7. Asked(turn')[p] + s.requests <= Asked(turn)[p] /\ Coming(turn', calls')[p] + s.tokens <= Coming(turn, calls)[p]
    <3>1. calls[p] + s.requests + 0 = calls[p] + s.requests
      BY <2>5
    <3> QED BY <2>4, <2>5, <2>6, <3>1
  <2> QED BY <1>1, <2>1, <2>3, <2>7, OneMovesOn
(* Or it is not counted, or given up: so much less is to come.               *)
<1>11. ASSUME NEW p \in Procs, RecordFails(p) \/ CallFails(p) \/ Crash(p) PROVE InReach'
  <2>1. /\ UNCHANGED <<now, owed>> /\ turn'[p] = Free
        /\ calls'[p] \in Nat /\ calls[p] \in Nat
        /\ calls'[p] <= calls[p] + About(turn, p).requests
        /\ \A q \in Procs : q # p => turn'[q] = turn[q] /\ calls'[q] = calls[q]
    <3>1. CASE RecordFails(p)
      BY <1>2, <1>5, <3>1, FreeType DEF RecordFails, Sent, About
    <3>2. CASE CallFails(p)
      BY <1>2, <1>5, <3>2 DEF CallFails
    <3>3. CASE Crash(p)
      BY <1>2, <1>5, <3>3 DEF Crash
    <3> QED BY <1>11, <3>1, <3>2, <3>3
  <2>2. About(turn', p) = Nothing
    BY <2>1 DEF About
  <2>3. /\ Asked(turn')[p] = 0 /\ Coming(turn', calls')[p] = (calls'[p] + 0) * MostOfAll + 0
        /\ Coming(turn, calls)[p] = About(turn, p).tokens + (calls[p] + About(turn, p).requests) * MostOfAll
    BY <1>4, <1>5, <1>6, <1>7, <2>1, <2>2
  <2>4. calls'[p] * MostOfAll <= (calls[p] + About(turn, p).requests) * MostOfAll
    BY <1>4, <1>5, <2>1
  <2>5. Asked(turn')[p] + 0 <= Asked(turn)[p] /\ Coming(turn', calls')[p] + 0 <= Coming(turn, calls)[p]
    <3>1. /\ calls'[p] * MostOfAll \in Nat /\ calls'[p] + 0 = calls'[p]
          /\ (calls[p] + About(turn, p).requests) * MostOfAll \in Nat
      BY <1>4, <1>5, <2>1
    <3> QED BY <1>5, <2>3, <2>4, <3>1
  <2> QED BY <1>1, <1>3, <1>7, <2>1, <2>5, OneMovesOn
<1>12. ASSUME NEW p \in Procs, _record_tokens(p) PROVE InReach'
  <2>1. /\ UNCHANGED <<now, owed>> /\ turn[p] = Free
        /\ calls'[p] = calls[p] - 1 /\ calls[p] \in Nat /\ calls[p] > 0
        /\ \A q \in Procs : q # p => turn'[q] = turn[q] /\ calls'[q] = calls[q]
    BY <1>2, <1>12 DEF _record_tokens
  <2>2. PICK cost \in Costs :
          turn'[p] = IF cost > 0 THEN Counting([requests |-> 0, tokens |-> cost]) ELSE Free
    BY <1>2, <1>12 DEF _record_tokens
  <2>3. About(turn, p) = Nothing /\ About(turn', p).requests = 0 /\ About(turn', p).tokens = cost
    <3>1. About(turn, p) = Nothing
      BY <2>1 DEF About
    <3>2. CASE cost > 0
      <4>1. turn'[p] = Counting([requests |-> 0, tokens |-> cost]) /\ turn'[p] # Free
        BY <2>2, <3>2 DEF Counting, Free
      <4> QED BY <3>1, <4>1 DEF About, Counting
    <3>3. CASE ~(cost > 0)
      <4>1. cost = 0 /\ turn'[p] = Free
        BY <1>4, <2>2, <3>3
      <4> QED BY <3>1, <4>1 DEF About
    <3> QED BY <3>2, <3>3
  <2>4. /\ Asked(turn)[p] = 0 /\ Asked(turn')[p] = 0
        /\ Coming(turn, calls)[p] = 0 + (calls[p] + 0) * MostOfAll
        /\ Coming(turn', calls')[p] = cost + (calls[p] - 1 + 0) * MostOfAll
    BY <1>5, <1>6, <1>7, <2>1, <2>3
  <2>5. cost \in Nat /\ cost <= MostOfAll
    BY <1>4
  <2>6. /\ calls[p] * MostOfAll = (calls[p] - 1) * MostOfAll + MostOfAll
        /\ (calls[p] - 1) * MostOfAll \in Nat
        /\ calls[p] + 0 = calls[p] /\ calls[p] - 1 + 0 = calls[p] - 1
    BY <1>4, <2>1
  <2>7. Asked(turn')[p] + 0 <= Asked(turn)[p] /\ Coming(turn', calls')[p] + 0 <= Coming(turn, calls)[p]
    BY <1>4, <2>4, <2>5, <2>6
  <2> QED BY <1>1, <1>3, <1>7, <2>1, <2>7, OneMovesOn
<1>13. ASSUME UNCHANGED <<turn, calls>>,
              usage(owed', now').requests <= usage(owed, now).requests,
              usage(owed', now').tokens <= usage(owed, now).tokens
       PROVE  InReach'
  <2>1. Asked(turn') = Asked(turn) /\ Coming(turn', calls') = Coming(turn, calls)
    BY <1>13
  <2>2. /\ usage(owed', now').requests \in Nat /\ usage(owed', now').tokens \in Nat
        /\ SumFunctionOnSet(Asked(turn), Procs) \in Nat /\ SumFunctionOnSet(Coming(turn, calls), Procs) \in Nat
    BY <1>2, SumsAreNumbers, UsageIs
  <2>3. /\ Cardinality(Procs) \in Nat /\ RequestsPerDay \in Nat /\ TokensPerDay \in Nat
        /\ Cardinality(Procs) * (MaxConcurrent * MostOfAll) \in Nat
    BY <1>4, LedgerAssumption, FS_CardinalityType
  <2>4. RequestsInReach'
    BY <1>3, <1>13, <2>1, <2>2, <2>3 DEF InReach, RequestsInReach
  <2>5. TokensInReach'
    BY <1>3, <1>13, <2>1, <2>2, <2>3 DEF InReach, TokensInReach
  <2> QED BY <1>1, <2>4, <2>5 DEF InReach
<1>14. CASE reset
  <2>1. usage(owed', now').requests = 0 /\ usage(owed', now').tokens = 0
    BY <1>14, UsageStarts DEF reset
  <2> QED BY <1>3, <1>13, <1>14, <2>1 DEF reset
<1>15. CASE Tick
  <2>1. owed' = owed /\ now' = now + 1 /\ UNCHANGED <<turn, calls>>
    BY <1>15 DEF Tick
  <2> QED BY <1>2, <1>13, <2>1, UsageShrinks
<1>16. CASE UNCHANGED vars
  BY <1>3, <1>13, <1>16 DEF vars
<1> QED BY <1>8, <1>9, <1>10, <1>11, <1>12, <1>14, <1>15, <1>16 DEF Next

(* The day's requests stop at their ceiling, but for one by each of the      *)
(* other processes, and its tokens but for what was in flight when they      *)
(* reached theirs, whoever checks, counts, fails, crashes or starts the      *)
(* window over meanwhile (budget.py:100-145, llm.py:424-478).                *)
THEOREM SpendingIsBounded == Spec => []SpendingStopsAtTheCeilings
<1>1. Init => InReach
  <2> SUFFICES ASSUME Init PROVE InReach
    OBVIOUS
  <2>1. OneAtATime(turn, calls)
    BY LedgerAssumption DEF Init, OneAtATime
  <2>2. TypeOK
    BY LedgerAssumption, EmptyType, FreeType DEF Init, TypeOK
  <2>3. usage(owed, now).requests = 0 /\ usage(owed, now).tokens = 0
    BY UsageStarts DEF Init
  <2>4. /\ Cardinality(Procs) \in Nat /\ RequestsPerDay \in Nat /\ TokensPerDay \in Nat
        /\ Cardinality(Procs) * (MaxConcurrent * MostOfAll) \in Nat
    BY LedgerAssumption, FS_CardinalityType, MostIsMost
  <2>5. /\ SumFunctionOnSet(Asked(turn), Procs) <= Cardinality(Procs)
        /\ SumFunctionOnSet(Coming(turn, calls), Procs) <= Cardinality(Procs) * (MaxConcurrent * MostOfAll)
    BY <2>1, <2>2, Shares DEF TypeOK
  <2>6. /\ SumFunctionOnSet(Asked(turn), Procs) \in Nat
        /\ SumFunctionOnSet(Coming(turn, calls), Procs) \in Nat
    BY <2>2, SumsAreNumbers
  <2> QED BY <2>1, <2>3, <2>4, <2>5, <2>6 DEF InReach, RequestsInReach, TokensInReach
<1>2. TypeOK /\ TypeOK' /\ NothingIsUncounted /\ InReach /\ [Next]_vars => InReach'
  BY InReachStays
<1>3. TypeOK /\ InReach => SpendingStopsAtTheCeilings
  <2> SUFFICES ASSUME TypeOK, InReach PROVE SpendingStopsAtTheCeilings
    OBVIOUS
  <2>1. /\ Cardinality(Procs) \in Nat /\ MaxConcurrent \in Nat /\ MostOfAll \in Nat
        /\ RequestsPerDay \in Nat /\ TokensPerDay \in Nat
    BY LedgerAssumption, FS_CardinalityType, MostIsMost
  <2>2. /\ Cardinality(Procs) * (MaxConcurrent * MostOfAll)
             = Cardinality(Procs) * MaxConcurrent * MostOfAll
        /\ Cardinality(Procs) * (MaxConcurrent * MostOfAll) \in Nat
    BY <2>1
  <2>3. RequestsPerDay > 0 => usage(owed, now).requests < RequestsPerDay + Cardinality(Procs)
    BY <2>1, SumsAreNumbers DEF InReach, RequestsInReach
  <2>4. TokensPerDay > 0 =>
          usage(owed, now).tokens < TokensPerDay + Cardinality(Procs) * (MaxConcurrent * MostOfAll)
    BY <2>1, <2>2, SumsAreNumbers DEF InReach, TokensInReach
  <2> QED BY <2>2, <2>3, <2>4 DEF SpendingStopsAtTheCeilings, MostOfAll
<1> QED BY <1>1, <1>2, <1>3, TypesHold, SpendIsNotLost, PTL DEF Spec
=============================================================================
