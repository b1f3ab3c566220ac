--------------------------- MODULE WatchLoopProofs ---------------------------
(* Proofs about the watcher's process, for any files, contents, clients and  *)
(* numbers of filings: its types, that no pass files what the library holds, *)
(* that nothing removed is indexed, and that no two index passes embed the   *)
(* same document.                                                            *)
EXTENDS WatchLoop, TLAPS

USE DEF At, Goto

(* A task that joins a queue leaves its holder in place.                     *)
LEMMA JoiningKeepsHolder ==
  ASSUME NEW S, NEW q \in Seq(S), NEW e \in S, NEW p, Holds(q, p)
  PROVE  Holds(Append(q, e), p)
  BY DEF Holds

(* A lock has one holder.                                                    *)
LEMMA OneHolder ==
  ASSUME NEW q, NEW p, NEW r, Holds(q, p), Holds(q, r)
  PROVE  p = r
  BY DEF Holds

(* What joining, leaving and rejoining a queue make of its type.             *)
LEMMA QueueTypes ==
  ASSUME NEW S, NEW q \in Seq(S), NEW e \in S
  PROVE  /\ Append(q, e) \in Seq(S)
         /\ q # <<>> => Tail(q) \in Seq(S)
         /\ q # <<>> => Append(Tail(q), e) \in Seq(S)
  OBVIOUS

(* The folder measured is a snapshot.                                        *)
LEMMA SnapshotType ==
  ASSUME TypeOK
  PROVE  Snapshot \in Snapshots /\ Nothing \in Snapshots
  BY WatchLoopAssumption DEF TypeOK, Snapshot, Snapshots, Nothing

(* What a pass places are candidates of its own, under new numbers.          *)
LEMMA NumberedDocuments ==
  ASSUME TypeOK, NEW p \in Procs, NEW docs \in Labelled(p), Number(docs)
  PROVE  /\ docs \subseteq cand[p]
         /\ docs \subseteq Docs
         /\ AsRows(docs) \subseteq Rows
         /\ filings' \in [Docs -> Nat]
         /\ \A d \in Docs : filings[d] <= filings'[d]
         /\ \A r \in AsRows(docs) : r[1] \in docs /\ r[2] = filings'[r[1]]
<1>1. docs \subseteq cand[p] /\ docs \subseteq Docs
  BY DEF Labelled, TypeOK
<1>2. filings \in [Docs -> Nat]
  BY DEF TypeOK
<1>3. \A d \in Docs : filings'[d] = filings[d] + (IF d \in docs THEN 1 ELSE 0)
  BY DEF Number
<1>4. filings' \in [Docs -> Nat] /\ \A d \in Docs : filings[d] <= filings'[d]
  <2>1. \A d \in Docs : filings[d] + (IF d \in docs THEN 1 ELSE 0) \in Nat
    BY <1>2
  <2>2. QED
    BY <1>2, <1>3, <2>1 DEF Number
<1>5. AsRows(docs) \subseteq Rows
  BY <1>1, <1>2 DEF AsRows, Rows
<1>6. \A r \in AsRows(docs) : r[1] \in docs /\ r[2] = filings'[r[1]]
  BY <1>1, <1>2, <1>3 DEF AsRows
<1>7. QED
  BY <1>1, <1>4, <1>5, <1>6

(* What was placed keeps numbers given out, and so does what there was.      *)
LEMMA NumbersStand ==
  ASSUME TypeOK, NEW p \in Procs, NEW docs \in Labelled(p), Number(docs),
         rows' \cup orphans' = rows \cup orphans \cup AsRows(docs)
  PROVE  \A r \in rows' \cup orphans' : r[2] <= filings'[r[1]]
<1>1. ASSUME NEW r \in rows \cup orphans PROVE r[2] <= filings'[r[1]]
  <2>1. r[1] \in Docs /\ r[2] \in Nat /\ r[2] <= filings[r[1]]
    BY DEF TypeOK, Rows
  <2>2. /\ filings[r[1]] \in Nat /\ filings'[r[1]] \in Nat
        /\ filings[r[1]] <= filings'[r[1]]
    BY <2>1, NumberedDocuments DEF TypeOK
  <2>3. QED
    BY <2>1, <2>2
<1>2. ASSUME NEW r \in AsRows(docs) PROVE r[2] <= filings'[r[1]]
  <2>1. r[1] \in Docs /\ r[2] = filings'[r[1]] /\ filings' \in [Docs -> Nat]
    BY NumberedDocuments
  <2>2. QED
    BY <2>1
<1>3. QED
  BY <1>1, <1>2

(* The initial state has the types and the invariant.                        *)
LEMMA InitInductive == Init => Inductive
<1> SUFFICES ASSUME Init PROVE Inductive
  OBVIOUS
<1> USE WatchLoopAssumption DEF Init
<1>1. TypeOK
  <2>1. pc \in [Procs -> Places]
    BY DEF Places
  <2>2. pending \in Snapshots /\ lastRun \in Snapshots
    BY DEF Nothing, Snapshots
  <2>3. /\ input \in [Files -> Contents \cup {0}]
        /\ newest \in [Files -> Contents \cup {0}]
        /\ filings \in [Docs -> Nat]
    BY DEF Nothing
  <2>4. /\ cand \in [Procs -> SUBSET Docs]
        /\ todo \in [Procs -> SUBSET Rows]
    OBVIOUS
  <2>5. /\ wake \in BOOLEAN /\ again \in BOOLEAN
        /\ owed \in BOOLEAN
    OBVIOUS
  <2>6. busy \in Seq(Procs) /\ indexing \in Seq(Procs)
    OBVIOUS
  <2>7. QED
    BY <2>1, <2>2, <2>3, <2>4, <2>5, <2>6 DEF TypeOK
<1>2. LocksAgree /\ CandidatesAreNew
  BY DEF LocksAgree, CandidatesAreNew, AtIndexing
<1>3. OnlyIndexersHaveToDo /\ IndexHoldsOnlyDocuments
  BY DEF OnlyIndexersHaveToDo, IndexHoldsOnlyDocuments
<1>4. QED
  BY <1>1, <1>2, <1>3 DEF Inductive

(* Every step keeps the types: a queue is left only by its holder.           *)
LEMMA TypeStep == TypeOK /\ LocksAgree /\ [Next]_vars => TypeOK'
<1> SUFFICES ASSUME TypeOK, LocksAgree, [Next]_vars PROVE TypeOK'
  OBVIOUS
<1> USE WatchLoopAssumption
<1>q. \A q \in Seq(Procs), p \in Procs :
        /\ Append(q, p) \in Seq(Procs)
        /\ q # <<>> => /\ Tail(q) \in Seq(Procs)
                       /\ Append(Tail(q), p) \in Seq(Procs)
  BY QueueTypes
<1>s. Snapshot \in Snapshots /\ Nothing \in Snapshots
  BY SnapshotType
<1> USE <1>q, <1>s
<1> USE DEF folder, timing, passes, searching, Event, Places, AskBusy, Holds,
            IngestTurn, IndexTurn
<1>0. Loop \in Procs /\ Indexer \in Procs /\ Clients \subseteq Procs
  BY DEF Procs
<1>1. ASSUME NEW f \in Files, Arrive(f) PROVE TypeOK'
  <2>1. PICK c \in Contents : /\ newest' = [newest EXCEPT ![f] = c]
                              /\ input' = [input EXCEPT ![f] = c]
    BY <1>1 DEF Arrive
  <2>2. QED
    BY <1>1, <2>1 DEF TypeOK, Arrive
<1>2. ASSUME NEW f \in Files, TakeAway(f) PROVE TypeOK'
  BY <1>2 DEF TypeOK, TakeAway
<1>3. CASE Measure
  BY <1>0, <1>3 DEF TypeOK, Measure
<1>4. CASE _wait_for_change
  BY <1>0, <1>4 DEF TypeOK, _wait_for_change
<1>5. CASE StillArriving
  BY <1>0, <1>5 DEF TypeOK, StillArriving
<1>6. CASE Settled
  BY <1>0, <1>6 DEF TypeOK, Settled
<1>7. ASSUME NEW p \in Procs, Hash(p) PROVE TypeOK'
  <2>1. Found \subseteq Docs
    BY DEF TypeOK, Docs, Found
  <2>2. QED
    BY <1>0, <1>7, <2>1 DEF TypeOK, Hash
<1>8. ASSUME NEW p \in Procs, Passed(p) PROVE TypeOK'
  <2>1. busy # <<>>
    BY <1>8 DEF LocksAgree, Passed
  <2>2. PICK docs \in Labelled(p) :
          /\ Place(p, docs) /\ Number(docs)
          /\ rows' = rows \cup AsRows(docs)
    BY <1>8 DEF Passed
  <2>3. /\ input' \in [Files -> Contents \cup {0}]
        /\ newest' \in [Files -> Contents \cup {0}]
        /\ fresh' \subseteq Files /\ wake' \in BOOLEAN
    BY <2>2 DEF TypeOK, Place
  <2>4. /\ rows' \subseteq Rows /\ orphans' \subseteq Rows
        /\ filings' \in [Docs -> Nat]
    BY <1>8, <2>2, NumberedDocuments DEF TypeOK, Passed
  <2>5. \A r \in rows' \cup orphans' : r[2] <= filings'[r[1]]
    <3>1. rows' \cup orphans' = rows \cup orphans \cup AsRows(docs)
      BY <1>8, <2>2 DEF Passed
    <3>2. QED
      BY <2>2, <3>1, NumbersStand
  <2>6. pc' \in [Procs -> Places] /\ owed' \in BOOLEAN
    BY <1>8 DEF TypeOK, Passed
  <2>7. QED
    BY <1>8, <2>1, <2>3, <2>4, <2>5, <2>6 DEF TypeOK, Passed
<1>9. ASSUME NEW p \in Procs, Raised(p) PROVE TypeOK'
  <2>1. busy # <<>>
    BY <1>9 DEF LocksAgree, Raised
  <2>2. PICK docs \in Labelled(p) :
          /\ Place(p, docs) /\ Number(docs)
          /\ \/ rows' = rows \cup AsRows(docs) /\ UNCHANGED orphans
             \/ orphans' = orphans \cup AsRows(docs) /\ UNCHANGED rows
    BY <1>9 DEF Raised
  <2>3. /\ input' \in [Files -> Contents \cup {0}]
        /\ newest' \in [Files -> Contents \cup {0}]
        /\ fresh' \subseteq Files /\ wake' \in BOOLEAN
    BY <2>2 DEF TypeOK, Place
  <2>4. /\ rows' \subseteq Rows /\ orphans' \subseteq Rows
        /\ filings' \in [Docs -> Nat]
    BY <1>9, <2>2, NumberedDocuments DEF TypeOK, Raised
  <2>5. \A r \in rows' \cup orphans' : r[2] <= filings'[r[1]]
    <3>1. rows' \cup orphans' = rows \cup orphans \cup AsRows(docs)
      BY <1>9, <2>2 DEF Raised
    <3>2. QED
      BY <2>2, <3>1, NumbersStand
  <2>6. pc' \in [Procs -> Places] /\ owed' \in BOOLEAN
    BY <1>9 DEF TypeOK, Raised
  <2>7. QED
    BY <1>9, <2>1, <2>3, <2>4, <2>5, <2>6 DEF TypeOK, Raised, LetGo
<1>10. CASE Announced
  <2>1. pc' \in [Procs -> Places] /\ again' \in BOOLEAN /\ indexing' \in Seq(Procs)
    <3>1. pc \in [Procs -> Places] /\ indexing \in Seq(Procs)
      BY DEF TypeOK
    <3>2. CASE pc[Indexer] = "idle"
      <4>1. /\ pc' = [pc EXCEPT ![Loop] = "measuring",
                               ![Indexer] = "wantsIndex"]
            /\ indexing' = Append(indexing, Indexer)
            /\ again' = FALSE
        BY <1>10, <3>2 DEF Announced, request
      <4>2. pc' \in [Procs -> Places]
        BY <1>0, <3>1, <4>1
      <4>3. QED
        BY <1>0, <3>1, <4>1, <4>2
    <3>3. CASE pc[Indexer] # "idle"
      BY <1>0, <1>10, <3>1, <3>3 DEF Announced, request
    <3>4. QED
      BY <3>2, <3>3
  <2>2. QED
    BY <1>10, <2>1 DEF TypeOK, Announced
<1>11. ASSUME NEW p \in Procs, BeginIndex(p) PROVE TypeOK'
  BY <1>11 DEF TypeOK, BeginIndex
<1>12. ASSUME NEW p \in Procs, ReadPapers(p) PROVE TypeOK'
  BY <1>12 DEF TypeOK, ReadPapers
<1>13. ASSUME NEW p \in Procs, _plan(p) PROVE TypeOK'
  BY <1>13 DEF TypeOK, _plan
<1>14. ASSUME NEW p \in Procs, DropVanished(p) PROVE TypeOK'
  BY <1>14 DEF TypeOK, DropVanished
<1>15. ASSUME NEW p \in Procs, Embedded(p) PROVE TypeOK'
  BY <1>15 DEF TypeOK, Embedded
<1>16. ASSUME NEW p \in Procs, _flush(p) PROVE TypeOK'
  <2>1. PICK batch \in SUBSET todo[p] :
          /\ sources' = sources \cup StillThere(batch)
          /\ todo' = [todo EXCEPT ![p] = @ \ batch]
    BY <1>16 DEF _flush
  <2>2. sources' \subseteq Rows /\ todo' \in [Procs -> SUBSET Rows]
    BY <2>1 DEF TypeOK, StillThere
  <2>3. pc' \in [Procs -> Places] /\ busy' \in Seq(Procs)
    BY <1>16 DEF TypeOK, _flush
  <2>4. QED
    BY <1>16, <2>2, <2>3 DEF TypeOK, _flush
<1>17. ASSUME NEW p \in Procs, Indexed(p) PROVE TypeOK'
  <2>1. indexing # <<>> /\ indexing \in Seq(Procs) /\ EndIndex(p)
    BY <1>17 DEF LocksAgree, AtIndexing, Indexed, TypeOK
  <2>2. todo' \in [Procs -> SUBSET Rows]
    BY <2>1 DEF TypeOK, EndIndex
  <2>3. pc' \in [Procs -> Places] /\ again' \in BOOLEAN
    BY <2>1 DEF TypeOK, EndIndex
  <2>4. indexing' \in Seq(Procs)
    <3>1. indexing' = Append(Tail(indexing), p) \/ indexing' = Tail(indexing)
      BY <2>1 DEF EndIndex
    <3>2. QED
      BY <2>1, <3>1, QueueTypes
  <2>5. QED
    BY <1>17, <2>2, <2>3, <2>4 DEF TypeOK, Indexed
<1>18. ASSUME NEW p \in Procs, IndexRaised(p) PROVE TypeOK'
  <2>1. indexing # <<>> /\ indexing \in Seq(Procs) /\ EndIndex(p)
    BY <1>18 DEF LocksAgree, AtIndexing, IndexRaised, TypeOK
  <2>2. todo' \in [Procs -> SUBSET Rows]
    BY <2>1 DEF TypeOK, EndIndex
  <2>3. pc' \in [Procs -> Places] /\ again' \in BOOLEAN
    BY <2>1 DEF TypeOK, EndIndex
  <2>4. indexing' \in Seq(Procs)
    <3>1. indexing' = Append(Tail(indexing), p) \/ indexing' = Tail(indexing)
      BY <2>1 DEF EndIndex
    <3>2. QED
      BY <2>1, <3>1, QueueTypes
  <2>5. QED
    BY <1>18, <2>2, <2>3, <2>4 DEF TypeOK, IndexRaised
<1>19. ASSUME NEW c \in Clients, _serve(c) PROVE TypeOK'
  <2>1. /\ pc' \in [Procs -> Places]
        /\ busy' \in Seq(Procs) /\ indexing' \in Seq(Procs)
    <3>1. /\ pc \in [Procs -> Places] /\ c \in Procs
          /\ busy \in Seq(Procs) /\ indexing \in Seq(Procs)
      BY <1>0 DEF TypeOK
    <3>2. busy' = busy \/ busy' = Append(busy, c)
      BY <1>19 DEF _serve
    <3>3. indexing' = indexing \/ indexing' = Append(indexing, c)
      BY <1>19 DEF _serve
    <3>4. busy' \in Seq(Procs) /\ indexing' \in Seq(Procs)
      BY <3>1, <3>2, <3>3, QueueTypes
    <3>5. PICK place \in Places : pc' = [pc EXCEPT ![c] = place]
      BY <1>19 DEF _serve
    <3>6. QED
      BY <3>1, <3>4, <3>5
  <2>2. QED
    BY <1>19, <2>1 DEF TypeOK, _serve
<1>20. ASSUME NEW c \in Clients, Refused(c) PROVE TypeOK'
  BY <1>0, <1>20 DEF TypeOK, Refused
<1>21. ASSUME NEW c \in Clients, Called(c) PROVE TypeOK'
  <2>1. /\ rows' \subseteq rows \cup orphans /\ orphans' \subseteq orphans
        /\ sources' \subseteq sources
    BY <1>21 DEF Called, Remove, Adopt
  <2>2. \A r \in rows' \cup orphans' : r[2] <= filings'[r[1]]
    BY <1>21, <2>1 DEF TypeOK, Called
  <2>3. rows' \subseteq Rows /\ orphans' \subseteq Rows /\ sources' \subseteq Rows
    BY <2>1 DEF TypeOK
  <2>4. QED
    BY <1>0, <1>21, <2>2, <2>3 DEF TypeOK, Called
<1>22. ASSUME NEW c \in Clients, Searched(c) PROVE TypeOK'
  BY <1>0, <1>22 DEF TypeOK, Searched
<1>23. CASE UNCHANGED vars
  BY <1>23 DEF TypeOK, vars
<1>24. QED
  BY <1>0, <1>1, <1>2, <1>3, <1>4, <1>5, <1>6, <1>7, <1>8, <1>9, <1>10, <1>11,
     <1>12, <1>13, <1>14, <1>15, <1>16, <1>17, <1>18, <1>19, <1>20, <1>21,
     <1>22, <1>23
     DEF Next, Person, LoopStep, IndexStep, ServerStep, Pass

(* A lock's holder leaves only by itself, and joining does not displace it.  *)
LEMMA LocksStep == TypeOK /\ LocksAgree /\ [Next]_vars => LocksAgree'
<1> SUFFICES ASSUME TypeOK, LocksAgree, [Next]_vars PROVE LocksAgree'
  OBVIOUS
<1> USE WatchLoopAssumption
<1>p. Loop \in Procs /\ Indexer \in Procs /\ Clients \subseteq Procs
  BY DEF Procs
<1>t. pc \in [Procs -> Places] /\ busy \in Seq(Procs) /\ indexing \in Seq(Procs)
  BY DEF TypeOK
<1>j. \A q \in Seq(Procs), e, r \in Procs :
        Holds(q, r) => Holds(Append(q, e), r)
  BY JoiningKeepsHolder
<1>o. \A q, r, s : Holds(q, r) /\ Holds(q, s) => r = s
  BY OneHolder
<1> USE <1>p, <1>t, <1>j, <1>o
<1> USE DEF LocksAgree, AtIndexing, folder, timing, passes, searching, AskBusy,
            IngestTurn, IndexTurn
<1>1. ASSUME NEW f \in Files, Arrive(f) PROVE LocksAgree'
  BY <1>1 DEF Arrive
<1>2. ASSUME NEW f \in Files, TakeAway(f) PROVE LocksAgree'
  BY <1>2 DEF TakeAway
<1>3. CASE Measure
  <2>1. PICK place \in {"idle", "settling"} : pc' = [pc EXCEPT ![Loop] = place]
    BY <1>3 DEF Measure
  <2>2. QED
    BY <1>3, <2>1 DEF Measure
<1>4. CASE _wait_for_change
  BY <1>4 DEF _wait_for_change
<1>5. CASE StillArriving
  BY <1>5 DEF StillArriving
<1>6. CASE Settled
  BY <1>6 DEF Settled
<1>7. CASE Announced
  <2>1. \A p \in Procs : pc'[p] = pc[p] \/ pc'[p] \in {"measuring", "wantsIndex"}
    BY <1>7 DEF Announced, request
  <2>2. indexing' = indexing \/ indexing' = Append(indexing, Indexer)
    BY <1>7 DEF Announced, request
  <2>3. \A p \in Procs : Holds(indexing, p) => Holds(indexing', p)
    BY <2>2
  <2>4. busy' = busy
    BY <1>7 DEF Announced
  <2>5. QED
    BY <2>1, <2>3, <2>4 DEF Holds
<1>8. ASSUME NEW p \in Procs, Hash(p) PROVE LocksAgree'
  BY <1>8 DEF Hash
<1>9. ASSUME NEW p \in Procs, Passed(p) PROVE LocksAgree'
  BY <1>9 DEF Passed
<1>10. ASSUME NEW p \in Procs, Raised(p) PROVE LocksAgree'
  BY <1>10 DEF Raised, LetGo
<1>11. ASSUME NEW p \in Procs, BeginIndex(p) PROVE LocksAgree'
  BY <1>11 DEF BeginIndex
<1>12. ASSUME NEW p \in Procs, ReadPapers(p) PROVE LocksAgree'
  BY <1>12 DEF ReadPapers
<1>13. ASSUME NEW p \in Procs, _plan(p) PROVE LocksAgree'
  BY <1>13 DEF _plan
<1>14. ASSUME NEW p \in Procs, DropVanished(p) PROVE LocksAgree'
  BY <1>14 DEF DropVanished
<1>15. ASSUME NEW p \in Procs, Embedded(p) PROVE LocksAgree'
  BY <1>15 DEF Embedded
<1>16. ASSUME NEW p \in Procs, _flush(p) PROVE LocksAgree'
  BY <1>16 DEF _flush
<1>17. ASSUME NEW p \in Procs, Indexed(p) PROVE LocksAgree'
  BY <1>17 DEF Indexed, EndIndex
<1>18. ASSUME NEW p \in Procs, IndexRaised(p) PROVE LocksAgree'
  BY <1>18 DEF IndexRaised, EndIndex
<1>19. ASSUME NEW c \in Clients, _serve(c) PROVE LocksAgree'
  <2>1. ASSUME NEW p \in Procs
        PROVE  /\ pc'[p] = "asking" => pc[p] = "asking"
               /\ pc'[p] \in AtIndexing => pc[p] \in AtIndexing
    BY <1>19, <2>1 DEF _serve
  <2>2. \A p \in Procs : Holds(busy, p) => Holds(busy, p)'
    <3>1. busy' = busy \/ busy' = Append(busy, c)
      BY <1>19 DEF _serve
    <3>2. QED
      BY <3>1 DEF Holds
  <2>3. \A p \in Procs : Holds(indexing, p) => Holds(indexing, p)'
    <3>1. indexing' = indexing \/ indexing' = Append(indexing, c)
      BY <1>19 DEF _serve
    <3>2. QED
      BY <3>1 DEF Holds
  <2>4. QED
    BY <2>1, <2>2, <2>3
<1>20. ASSUME NEW c \in Clients, Refused(c) PROVE LocksAgree'
  BY <1>20 DEF Refused
<1>21. ASSUME NEW c \in Clients, Called(c) PROVE LocksAgree'
  BY <1>21 DEF Called
<1>22. ASSUME NEW c \in Clients, Searched(c) PROVE LocksAgree'
  BY <1>22 DEF Searched
<1>23. CASE UNCHANGED vars
  BY <1>23 DEF vars
<1>24. QED
  BY <1>p, <1>1, <1>2, <1>3, <1>4, <1>5, <1>6, <1>7, <1>8, <1>9, <1>10, <1>11,
     <1>12, <1>13, <1>14, <1>15, <1>16, <1>17, <1>18, <1>19, <1>20, <1>21,
     <1>22, <1>23
     DEF Next, Person, LoopStep, IndexStep, ServerStep, Pass

(* What a pass found is filed by nobody else while it holds Server.busy.     *)
LEMMA CandidatesStep ==
  TypeOK /\ LocksAgree /\ CandidatesAreNew /\ [Next]_vars => CandidatesAreNew'
<1> SUFFICES ASSUME TypeOK, LocksAgree, CandidatesAreNew, [Next]_vars
             PROVE  CandidatesAreNew'
  OBVIOUS
<1> USE WatchLoopAssumption
<1>p. Loop \in Procs /\ Indexer \in Procs /\ Clients \subseteq Procs
  BY DEF Procs
<1>t. pc \in [Procs -> Places] /\ cand \in [Procs -> SUBSET Docs]
  BY DEF TypeOK
<1>o. \A r, s \in Procs : pc[r] = "asking" /\ Holds(busy, s) => r = s
  BY OneHolder DEF LocksAgree
<1> USE <1>p, <1>t, <1>o
<1> USE DEF CandidatesAreNew, Known, folder, timing, passes, searching, AskBusy,
            IngestTurn, IndexTurn
<1>1. ASSUME NEW f \in Files, Arrive(f) PROVE CandidatesAreNew'
  BY <1>1 DEF Arrive
<1>2. ASSUME NEW f \in Files, TakeAway(f) PROVE CandidatesAreNew'
  BY <1>2 DEF TakeAway
<1>3. CASE Measure
  BY <1>3 DEF Measure
<1>4. CASE _wait_for_change
  BY <1>4 DEF _wait_for_change
<1>5. CASE StillArriving
  BY <1>5 DEF StillArriving
<1>6. CASE Settled
  BY <1>6 DEF Settled
<1>7. CASE Announced
  BY <1>7 DEF Announced, request
<1>8. ASSUME NEW p \in Procs, Hash(p) PROVE CandidatesAreNew'
  BY <1>8 DEF Hash
<1>9. ASSUME NEW p \in Procs, Passed(p) PROVE CandidatesAreNew'
  <2>1. pc[p] = "asking" /\ Holds(busy, p)
    BY <1>9 DEF Passed, LocksAgree
  <2>2. pc'[p] # "asking"
    BY <1>9 DEF Passed
  <2>3. \A r \in Procs : pc'[r] # "asking"
    BY <1>9, <1>o, <2>1, <2>2 DEF Passed
  <2>4. QED
    BY <2>3
<1>10. ASSUME NEW p \in Procs, Raised(p) PROVE CandidatesAreNew'
  <2>1. pc[p] = "asking" /\ Holds(busy, p)
    BY <1>10 DEF Raised, LocksAgree
  <2>2. pc'[p] # "asking"
    BY <1>10 DEF Raised
  <2>3. \A r \in Procs : pc'[r] # "asking"
    BY <1>10, <1>o, <2>1, <2>2 DEF Raised
  <2>4. QED
    BY <2>3
<1>11. ASSUME NEW p \in Procs, BeginIndex(p) PROVE CandidatesAreNew'
  BY <1>11 DEF BeginIndex
<1>12. ASSUME NEW p \in Procs, ReadPapers(p) PROVE CandidatesAreNew'
  BY <1>12 DEF ReadPapers
<1>13. ASSUME NEW p \in Procs, _plan(p) PROVE CandidatesAreNew'
  BY <1>13 DEF _plan
<1>14. ASSUME NEW p \in Procs, DropVanished(p) PROVE CandidatesAreNew'
  BY <1>14 DEF DropVanished
<1>15. ASSUME NEW p \in Procs, Embedded(p) PROVE CandidatesAreNew'
  BY <1>15 DEF Embedded
<1>16. ASSUME NEW p \in Procs, _flush(p) PROVE CandidatesAreNew'
  BY <1>16 DEF _flush
<1>17. ASSUME NEW p \in Procs, Indexed(p) PROVE CandidatesAreNew'
  BY <1>17 DEF Indexed, EndIndex
<1>18. ASSUME NEW p \in Procs, IndexRaised(p) PROVE CandidatesAreNew'
  BY <1>18 DEF IndexRaised, EndIndex
<1>19. ASSUME NEW c \in Clients, _serve(c) PROVE CandidatesAreNew'
  BY <1>19 DEF _serve
<1>20. ASSUME NEW c \in Clients, Refused(c) PROVE CandidatesAreNew'
  BY <1>20 DEF Refused
<1>21. ASSUME NEW c \in Clients, Called(c) PROVE CandidatesAreNew'
  <2>1. pc[c] = "wantsCall" /\ Holds(busy, c) /\ pc' = [pc EXCEPT ![c] = "idle"]
    BY <1>21 DEF Called
  <2>2. \A r \in Procs : pc'[r] # "asking"
    BY <2>1
  <2>3. QED
    BY <2>2
<1>22. ASSUME NEW c \in Clients, Searched(c) PROVE CandidatesAreNew'
  BY <1>22 DEF Searched
<1>23. CASE UNCHANGED vars
  BY <1>23 DEF vars
<1>24. QED
  BY <1>p, <1>1, <1>2, <1>3, <1>4, <1>5, <1>6, <1>7, <1>8, <1>9, <1>10, <1>11,
     <1>12, <1>13, <1>14, <1>15, <1>16, <1>17, <1>18, <1>19, <1>20, <1>21,
     <1>22, <1>23
     DEF Next, Person, LoopStep, IndexStep, ServerStep, Pass

(* Only a task that holds Server.indexing has documents left to embed.       *)
LEMMA ToDoStep ==
  TypeOK /\ OnlyIndexersHaveToDo /\ [Next]_vars => OnlyIndexersHaveToDo'
<1> SUFFICES ASSUME TypeOK, OnlyIndexersHaveToDo, [Next]_vars
             PROVE  OnlyIndexersHaveToDo'
  OBVIOUS
<1> USE WatchLoopAssumption
<1>p. Loop \in Procs /\ Indexer \in Procs /\ Clients \subseteq Procs
  BY DEF Procs
<1>t. pc \in [Procs -> Places] /\ todo \in [Procs -> SUBSET Rows]
  BY DEF TypeOK
<1> USE <1>p, <1>t
<1> USE DEF OnlyIndexersHaveToDo, AtIndexing, folder, timing, passes, searching,
            AskBusy, IngestTurn, IndexTurn
<1>1. ASSUME NEW f \in Files, Arrive(f) PROVE OnlyIndexersHaveToDo'
  BY <1>1 DEF Arrive
<1>2. ASSUME NEW f \in Files, TakeAway(f) PROVE OnlyIndexersHaveToDo'
  BY <1>2 DEF TakeAway
<1>3. CASE Measure
  BY <1>3 DEF Measure
<1>4. CASE _wait_for_change
  BY <1>4 DEF _wait_for_change
<1>5. CASE StillArriving
  BY <1>5 DEF StillArriving
<1>6. CASE Settled
  BY <1>6 DEF Settled
<1>7. CASE Announced
  BY <1>7 DEF Announced, request
<1>8. ASSUME NEW p \in Procs, Hash(p) PROVE OnlyIndexersHaveToDo'
  BY <1>8 DEF Hash
<1>9. ASSUME NEW p \in Procs, Passed(p) PROVE OnlyIndexersHaveToDo'
  BY <1>9 DEF Passed
<1>10. ASSUME NEW p \in Procs, Raised(p) PROVE OnlyIndexersHaveToDo'
  BY <1>10 DEF Raised, LetGo
<1>11. ASSUME NEW p \in Procs, BeginIndex(p) PROVE OnlyIndexersHaveToDo'
  BY <1>11 DEF BeginIndex
<1>12. ASSUME NEW p \in Procs, ReadPapers(p) PROVE OnlyIndexersHaveToDo'
  BY <1>12 DEF ReadPapers
<1>13. ASSUME NEW p \in Procs, _plan(p) PROVE OnlyIndexersHaveToDo'
  BY <1>13 DEF _plan
<1>14. ASSUME NEW p \in Procs, DropVanished(p) PROVE OnlyIndexersHaveToDo'
  BY <1>14 DEF DropVanished
<1>15. ASSUME NEW p \in Procs, Embedded(p) PROVE OnlyIndexersHaveToDo'
  BY <1>15 DEF Embedded
<1>16. ASSUME NEW p \in Procs, _flush(p) PROVE OnlyIndexersHaveToDo'
  BY <1>16 DEF _flush
<1>17. ASSUME NEW p \in Procs, Indexed(p) PROVE OnlyIndexersHaveToDo'
  BY <1>17 DEF Indexed, EndIndex
<1>18. ASSUME NEW p \in Procs, IndexRaised(p) PROVE OnlyIndexersHaveToDo'
  BY <1>18 DEF IndexRaised, EndIndex
<1>19. ASSUME NEW c \in Clients, _serve(c) PROVE OnlyIndexersHaveToDo'
  BY <1>19 DEF _serve
<1>20. ASSUME NEW c \in Clients, Refused(c) PROVE OnlyIndexersHaveToDo'
  BY <1>20 DEF Refused
<1>21. ASSUME NEW c \in Clients, Called(c) PROVE OnlyIndexersHaveToDo'
  BY <1>21 DEF Called
<1>22. ASSUME NEW c \in Clients, Searched(c) PROVE OnlyIndexersHaveToDo'
  BY <1>22 DEF Searched
<1>23. CASE UNCHANGED vars
  BY <1>23 DEF vars
<1>24. QED
  BY <1>p, <1>1, <1>2, <1>3, <1>4, <1>5, <1>6, <1>7, <1>8, <1>9, <1>10, <1>11,
     <1>12, <1>13, <1>14, <1>15, <1>16, <1>17, <1>18, <1>19, <1>20, <1>21,
     <1>22, <1>23
     DEF Next, Person, LoopStep, IndexStep, ServerStep, Pass

(* Only a pass and an adoption add to the library, and what a pass adds is   *)
(* new.                                                                      *)
LEMMA FilesNewContents ==
  TypeOK /\ CandidatesAreNew /\ Next =>
    \A r \in rows' \ rows : HashOf(r) \in Known => r \in orphans
<1> SUFFICES ASSUME TypeOK, CandidatesAreNew, Next,
                    NEW r \in rows' \ rows, HashOf(r) \in Known
             PROVE  r \in orphans
  OBVIOUS
<1>p. Loop \in Procs /\ Indexer \in Procs /\ Clients \subseteq Procs
  BY DEF Procs
<1>1. ASSUME NEW p \in Procs, Passed(p) \/ Raised(p) PROVE FALSE
  <2>1. PICK docs \in Labelled(p) :
          Number(docs) /\ (rows' = rows \cup AsRows(docs) \/ UNCHANGED rows)
    BY <1>1 DEF Passed, Raised
  <2>2. r \in AsRows(docs)
    BY <2>1
  <2>3. r[1] \in cand[p]
    BY <2>1, <2>2, NumberedDocuments
  <2>4. r[1][2] \notin Known
    BY <1>1, <2>3 DEF CandidatesAreNew, Passed, Raised
  <2>5. QED
    BY <2>4 DEF HashOf
<1>2. ASSUME NEW c \in Clients, Called(c) PROVE r \in orphans
  BY <1>2 DEF Called, Remove, Adopt
<1>3. CASE UNCHANGED rows
  BY <1>3
<1>4. QED
  BY <1>p, <1>1, <1>2, <1>3
     DEF Next, Person, LoopStep, IndexStep, ServerStep, Pass, Arrive, TakeAway,
         Measure, _wait_for_change, StillArriving, Settled, Announced, Hash,
         BeginIndex, ReadPapers, _plan, DropVanished, Embedded, _flush, Indexed,
         IndexRaised, _serve, Refused, Searched, passes

(* A flush writes documents that are there, and a removal takes the index of *)
(* a document along.                                                         *)
LEMMA IndexStepKeeps ==
  IndexHoldsOnlyDocuments /\ [Next]_vars => IndexHoldsOnlyDocuments'
<1> SUFFICES ASSUME IndexHoldsOnlyDocuments, [Next]_vars
             PROVE  IndexHoldsOnlyDocuments'
  OBVIOUS
<1> USE DEF IndexHoldsOnlyDocuments
<1>1. ASSUME NEW p, Passed(p) \/ Raised(p) PROVE IndexHoldsOnlyDocuments'
  BY <1>1 DEF Passed, Raised, searching
<1>2. ASSUME NEW p, _flush(p) PROVE IndexHoldsOnlyDocuments'
  BY <1>2 DEF _flush, StillThere, passes
<1>3. ASSUME NEW c, Called(c) PROVE IndexHoldsOnlyDocuments'
  BY <1>3 DEF Called, Remove, Adopt
<1>4. CASE UNCHANGED <<rows, sources>>
  BY <1>4
<1>5. QED
  BY <1>1, <1>2, <1>3, <1>4
     DEF Next, Person, LoopStep, IndexStep, ServerStep, Pass, Arrive, TakeAway,
         Measure, _wait_for_change, StillArriving, Settled, Announced, Hash,
         BeginIndex, ReadPapers, _plan, DropVanished, Embedded, Indexed,
         IndexRaised, _serve, Refused, Searched, passes, searching, vars

(* The invariant of the watcher's process holds throughout.                  *)
THEOREM InductiveHolds == Spec => []Inductive
<1>1. Inductive /\ [Next]_vars => Inductive'
  BY TypeStep, LocksStep, CandidatesStep, ToDoStep, IndexStepKeeps
     DEF Inductive
<1>2. QED
  BY <1>1, InitInductive, PTL DEF Spec

(* The types hold throughout; in particular every document has a number that *)
(* was given out.                                                            *)
THEOREM TypeCorrect == Spec => []TypeOK
<1>1. Inductive => TypeOK
  BY DEF Inductive
<1>2. QED
  BY <1>1, InductiveHolds, PTL

(* For any number of files and clients, no pass files what the library holds *)
(* when it comes to filing, though it looked long before.                    *)
THEOREM KnownContentIsNotFiled == Spec => NoKnownContentIsFiled
<1>1. Inductive /\ [Next]_vars =>
        [\A r \in rows' \ rows : HashOf(r) \in Known => r \in orphans]_vars
  BY FilesNewContents DEF Inductive
<1>2. QED
  BY <1>1, InductiveHolds, PTL DEF Spec, NoKnownContentIsFiled

(* Nothing is indexed that is not in the library.                            *)
THEOREM NothingGoneIsIndexed == Spec => []IndexHoldsOnlyDocuments
<1>1. Inductive => IndexHoldsOnlyDocuments
  BY DEF Inductive
<1>2. QED
  BY <1>1, InductiveHolds, PTL

(* No two index passes are about to embed the same document: both would be   *)
(* holding Server.indexing.                                                  *)
THEOREM NeverEmbeddedTwice == Spec => []EmbeddedOnce
<1>1. Inductive => EmbeddedOnce
  <2> SUFFICES ASSUME Inductive, NEW p \in Procs, NEW q \in Procs, p # q,
                      todo[p] \cap todo[q] # {}
               PROVE  FALSE
    BY DEF EmbeddedOnce
  <2>1. pc[p] \in AtIndexing /\ pc[q] \in AtIndexing
    BY DEF Inductive, OnlyIndexersHaveToDo
  <2>2. Holds(indexing, p) /\ Holds(indexing, q)
    BY <2>1 DEF Inductive, LocksAgree
  <2>3. QED
    BY <2>2, OneHolder
<1>2. QED
  BY <1>1, InductiveHolds, PTL

=============================================================================
