----------------------------- MODULE BibsProofs -----------------------------
(* Proofs about one bibliography, for any documents, any number of commands  *)
(* and any processes running them: its reading list is always whole and      *)
(* keeps rankings and marks, and its keys stand, in the record and in the    *)
(* .bib, unless two saves overlapped or one was cut short.                   *)
EXTENDS Bibs, FiniteSetTheorems, TLAPS

----------------------------------------------------------------------------
(* What a command has in its hands, by how far it has come, and the numbers  *)
(* of the lists, which are of commands that were run.                        *)
Loaded(p) == at[p] \in {"loaded", "saving"} \/ Saving(p)
Listing(p) == at[p] \in {"listed", "staging", "staged"}

InHand ==
  /\ \A p \in Procs : Loaded(p) => mem[p] \in Records
  /\ \A p \in Procs : Listing(p) => made[p] \in Lists /\ made[p].number <= commands
  /\ \A p \in Procs : at[p] = "staged" => staged[p] = made[p]
  /\ reading \in Lists => reading.number <= commands
  /\ ranking <= commands

(* A list that is about to replace the one it was made from: a new ranking   *)
(* that takes the marks over, or the same one with other marks.              *)
UpToDate(p) ==
  \/ /\ made[p].number > ranking
     /\ made[p].read = ReadOn(reading) \cap made[p].entries
  \/ reading \in Lists /\ made[p].number = reading.number

ListStands ==
  /\ reading # Torn
  /\ orderly => IF reading = None THEN ranking = 0 /\ marked = {}
                ELSE reading.number = ranking /\ reading.read = marked
  /\ \A p \in Procs : Listing(p) /\ ~late[p] => UpToDate(p)

(* No two citations of a bibliography have one key.                          *)
Distinct(r) == \A d, e \in Cited(r) : r[d].key = r[e].key => d = e

AllDistinct ==
  /\ record # Torn => Distinct(record)
  /\ bib # Torn => Distinct(bib)
  /\ \A p \in Procs : Loaded(p) => Distinct(mem[p])

(* Every citation of the first stands in the second; every one reported does.*)
Keeps(r, s) == \A d \in Cited(r) : d \in Cited(s) /\ s[d].key = r[d].key
Reported(r) == \A c \in told : c[1] \in Cited(r) /\ r[c[1]].key = c[2]

(* So does every citation of the .bib but those the person withdrew since.   *)
Explains(s, r) == \A d \in Cited(r) \ withdrawn : d \in Cited(s) /\ s[d].key = r[d].key

(* Saves that neither overlap nor are cut short: the record is torn only     *)
(* while its one writer writes it, who adds to what it was and what was said *)
(* of it; and the .bib is never ahead.                                       *)
SavesStand ==
  /\ \A p \in Procs : at[p] \in {"loaded", "saving"} /\ ~stale[p] =>
       record # Torn /\ Keeps(record, mem[p])
  /\ clean =>
       /\ \A p, q \in Procs : Saving(p) /\ Saving(q) => p = q
       /\ \A p \in Procs : at[p] = "record" =>
            record = Torn /\ Reported(mem[p]) /\ (bib # Torn => Explains(mem[p], bib))
       /\ \A p \in Procs : at[p] \in {"saved", "bib"} => record = mem[p]
       /\ record = Torn => \E p \in Procs : at[p] = "record"
       /\ record # Torn => Reported(record) /\ (bib # Torn => Explains(record, bib))

Inductive == TypeOK /\ InHand /\ ListStands /\ AllDistinct /\ SavesStand

----------------------------------------------------------------------------
(* Keys.                                                                     *)

(* A set of natural numbers that is not empty has a least one.               *)
LEMMA LeastIsIn ==
  ASSUME NEW S \in SUBSET Nat, S # {}
  PROVE  Min(S) \in S
<1> DEFINE upTo == {0 .. n : n \in S}
           R == StrictSubsetOrdering(Nat)
<1>1. \A n \in S : 0 .. n \in FiniteSubsetsOf(Nat)
  <2> TAKE n \in S
  <2>1. IsFiniteSet(0 .. n) /\ 0 .. n \subseteq Nat
    BY FS_Interval
  <2>2. QED
    BY <2>1 DEF FiniteSubsetsOf
<1>2. \E x \in upTo : \A y \in upTo : ~ (<<y, x>> \in R)
  <2>1. upTo \subseteq FiniteSubsetsOf(Nat) /\ upTo # {}
    BY <1>1
  <2>2. QED
    BY <2>1, FS_StrictSubsetOrderingWellFounded, WFMin
<1>3. PICK x \in S : \A y \in S : ~ (<<0 .. y, 0 .. x>> \in R)
  BY <1>2
<1>4. ASSUME NEW y \in S PROVE x <= y
  <2> SUFFICES ASSUME y < x PROVE FALSE
    OBVIOUS
  <2>1. 0 .. y \subseteq 0 .. x /\ x \in 0 .. x /\ x \notin 0 .. y
    OBVIOUS
  <2>2. <<0 .. y, 0 .. x>> \in R
    BY <2>1 DEF StrictSubsetOrdering
  <2>3. QED
    BY <1>3, <2>2
<1>5. QED
  BY <1>4 DEF Min

(* There are more suffixes than documents, so one of them is free.           *)
LEMMA FreeKey ==
  ASSUME NEW r \in Records, NEW b \in Range(Base)
  PROVE  /\ _free_key(b, KeysOf(r)) \in Keys
         /\ _free_key(b, KeysOf(r)) \notin KeysOf(r)
<1> DEFINE N == Cardinality(Docs)
           free == {n \in 0 .. N : <<b, n>> \notin KeysOf(r)}
<1>1. N \in Nat /\ IsFiniteSet(Docs)
  BY FS_CardinalityType, BibsAssumption
<1>2. free # {}
  <2> SUFFICES ASSUME free = {} PROVE FALSE
    OBVIOUS
  <2>1. \A n \in 0 .. N : \E e \in Docs : r[e].key = <<b, n>>
    BY DEF KeysOf, Cited
  <2> DEFINE f == [n \in 0 .. N |-> CHOOSE e \in Docs : r[e].key = <<b, n>>]
  <2>2. f \in [0 .. N -> Docs] /\ \A n \in 0 .. N : r[f[n]].key = <<b, n>>
    BY <2>1
  <2>3. IsFiniteSet(0 .. N) /\ Cardinality(0 .. N) = N + 1
    BY <1>1, FS_Interval
  <2> HIDE DEF f
  <2>4. PICK x \in 0 .. N, y \in 0 .. N : x # y /\ f[x] = f[y]
    <3>1. N < Cardinality(0 .. N)
      BY <1>1, <2>3
    <3>2. QED
      BY <1>1, <2>2, <2>3, <3>1, FS_PigeonHole
  <2>5. <<b, x>> = <<b, y>>
    BY <2>2, <2>4
  <2>6. QED
    BY <2>4, <2>5
<1>3. free \in SUBSET Nat
  BY <1>1
<1> HIDE DEF free
<1>4. Min(free) \in free
  BY <1>2, <1>3, LeastIsIn
<1> USE DEF free
<1>5. _free_key(b, KeysOf(r)) = <<b, Min(free)>>
  BY DEF _free_key
<1>6. QED
  BY <1>1, <1>4, <1>5 DEF Keys

(* What a file or a command holds is a record, a list, or nothing.           *)
LEMMA Kinds ==
  /\ Torn \notin Records /\ None \notin Records
  /\ Torn \notin Lists /\ None \notin Lists /\ None # Torn
  /\ \A r \in Records : /\ Cited(r) \subseteq Docs
                        /\ \A d \in Cited(r) : r[d] \in Entry /\ r[d].key \in Keys
  BY BibsAssumption, NothingIsWritten DEF Records, Cited, Entry

(* Nothing has been cited in a record that says nothing.                     *)
LEMMA NothingCited == Nothing \in Records /\ Cited(Nothing) = {} /\ Nothing # Torn
<1>1. Nothing \in Records /\ Cited(Nothing) = {}
  BY DEF Nothing, Records, Cited
<1>2. QED
  BY <1>1, Kinds

----------------------------------------------------------------------------
(* What a step leaves alone.                                                 *)

(* One command goes on, the others stay where they are.                      *)
LEMMA OneMoves ==
  ASSUME TypeOK, NEW p \in Procs, NEW to, at' = [at EXCEPT ![p] = to]
  PROVE  at'[p] = to /\ \A q \in Procs : q # p => at'[q] = at[q]
  BY DEF TypeOK

(* The reading list has nothing to do with the record.                       *)
LEMMA ListStays ==
  ASSUME Inductive, UNCHANGED list, commands' \in Nat, commands <= commands',
         \A p \in Procs : Listing(p)' => at'[p] = at[p]
  PROVE  /\ ListStands'
         /\ \A p \in Procs : Listing(p)' => made'[p] \in Lists /\ made'[p].number <= commands'
         /\ \A p \in Procs : at'[p] = "staged" => staged'[p] = made'[p]
         /\ reading' \in Lists => reading'.number <= commands'
         /\ ranking' <= commands'
<1>1. /\ TypeOK /\ InHand /\ ListStands
      /\ UNCHANGED <<reading, staged, made, late, orderly, ranking, marked>>
  BY DEF Inductive, list
<1>2. \A p \in Procs : Listing(p)' => Listing(p) /\ at'[p] = at[p]
  BY DEF Listing
<1>3. commands \in Nat /\ ranking \in Nat /\ ranking <= commands
  BY <1>1, BibsAssumption DEF TypeOK, InHand
<1>4. \A p \in Procs : Listing(p)' => made'[p] \in Lists /\ made'[p].number <= commands'
  <2> SUFFICES ASSUME NEW p \in Procs, Listing(p)'
               PROVE  made'[p] \in Lists /\ made'[p].number <= commands'
    OBVIOUS
  <2>1. made[p] \in Lists /\ made[p].number <= commands
    BY <1>1, <1>2 DEF InHand
  <2>2. made[p].number \in Nat
    BY <2>1, BibsAssumption DEF Lists
  <2>3. QED
    BY <1>1, <1>3, <2>1, <2>2
<1>5. \A p \in Procs : at'[p] = "staged" => staged'[p] = made'[p]
  BY <1>1, <1>2 DEF Listing, InHand
<1>6. ListStands'
  BY <1>1, <1>2 DEF ListStands, UpToDate, ReadOn
<1>7. ASSUME reading \in Lists PROVE reading.number <= commands'
  <2>1. reading.number \in Nat /\ reading.number <= commands
    BY <1>1, <1>7, BibsAssumption DEF Lists, InHand
  <2>2. QED
    BY <1>3, <2>1
<1>8. QED
  BY <1>1, <1>3, <1>4, <1>5, <1>6, <1>7

(* Nor has the record with the reading list.                                 *)
LEMMA BibStays ==
  ASSUME Inductive, UNCHANGED bibliography,
         \A p \in Procs : Loaded(p)' \/ Loaded(p) => at'[p] = at[p]
  PROVE  /\ AllDistinct' /\ SavesStand'
         /\ \A p \in Procs : Loaded(p)' => mem'[p] \in Records
<1>1. /\ AllDistinct /\ SavesStand /\ InHand
      /\ UNCHANGED <<record, bib, mem, stale, clean, told, withdrawn>>
  BY DEF Inductive, bibliography
<1>2. \A p \in Procs : /\ Loaded(p)' => Loaded(p)
                       /\ Saving(p)' <=> Saving(p)
                       /\ at'[p] \in {"loaded", "saving"} <=> at[p] \in {"loaded", "saving"}
                       /\ at'[p] = "record" <=> at[p] = "record"
                       /\ at'[p] \in {"saved", "bib"} <=> at[p] \in {"saved", "bib"}
  BY DEF Loaded, Saving
<1>3. AllDistinct'
  BY <1>1, <1>2 DEF AllDistinct, Distinct, Cited
<1>4. SavesStand'
  BY <1>1, <1>2 DEF SavesStand, Reported, Keeps, Explains, Cited
<1>5. QED
  BY <1>1, <1>2, <1>3, <1>4 DEF InHand

----------------------------------------------------------------------------
(* The reading list.                                                         *)

(* A list is made: the agent's, numbered after every other and with the      *)
(* marks of the one there is, or that one with one mark more or less.        *)
LEMMA ListedStep ==
  ASSUME Inductive, NEW p \in Procs, Begins(p, "listed"), NEW l \in Lists, Listed(p, l),
         \/ l.number = commands + 1 /\ l.read = ReadOn(reading) \cap l.entries
         \/ reading \in Lists /\ l.number = reading.number
  PROVE  Inductive'
<1>1. /\ TypeOK /\ InHand /\ ListStands
      /\ at[p] = "idle" /\ at' = [at EXCEPT ![p] = "listed"]
      /\ commands < MaxCommands /\ commands' = commands + 1
      /\ made' = [made EXCEPT ![p] = l] /\ late' = [late EXCEPT ![p] = FALSE]
      /\ UNCHANGED <<record, bib, mem, stale, clean, told, withdrawn, reading, staged, orderly, ranking,
                     marked>>
      /\ UNCHANGED bibliography
  BY DEF Inductive, Begins, Listed, bibliography
<1>2. /\ commands \in Nat /\ ranking \in Nat /\ ranking <= commands /\ l.number \in Nat
      /\ MaxCommands \in Nat
  BY <1>1, BibsAssumption DEF TypeOK, InHand, Lists
<1>3. at'[p] = "listed" /\ \A q \in Procs : q # p => at'[q] = at[q]
  BY <1>1, OneMoves
<1>4. /\ made'[p] = l /\ late'[p] = FALSE
      /\ \A q \in Procs : q # p => made'[q] = made[q] /\ late'[q] = late[q]
  BY <1>1 DEF TypeOK
<1>5. commands' \in 0 .. MaxCommands
  BY <1>1, <1>2
<1>6. TypeOK'
  BY <1>1, <1>5 DEF TypeOK
<1>7. \A n \in Nat : n <= commands => n <= commands'
  BY <1>1, <1>2
<1>8. l.number <= commands'
  <2>1. CASE l.number = commands + 1
    BY <1>1, <1>2, <2>1
  <2>2. CASE reading \in Lists /\ l.number = reading.number
    BY <1>1, <1>2, <1>7, <2>2 DEF InHand
  <2>3. QED
    BY <2>1, <2>2
<1>9. \A q \in Procs : /\ Loaded(q)' \/ Loaded(q) => at'[q] = at[q]
                       /\ Listing(q)' /\ q # p => Listing(q)
  BY <1>1, <1>3 DEF Loaded, Saving, Listing
<1>10. /\ AllDistinct' /\ SavesStand'
       /\ \A q \in Procs : Loaded(q)' => mem'[q] \in Records
  BY <1>1, <1>9, BibStays
<1>11. InHand'
  <2>1. ASSUME NEW q \in Procs, Listing(q)'
        PROVE  made'[q] \in Lists /\ made'[q].number <= commands'
    <3>1. CASE q = p
      BY <1>4, <1>8, <3>1
    <3>2. CASE q # p
      <4>1. made[q] \in Lists /\ made[q].number <= commands
        BY <1>1, <1>9, <2>1, <3>2 DEF InHand
      <4>2. made[q].number \in Nat
        BY <4>1, BibsAssumption DEF Lists
      <4>3. QED
        BY <1>4, <1>7, <3>2, <4>1, <4>2
    <3>3. QED
      BY <3>1, <3>2
  <2>2. \A q \in Procs : at'[q] = "staged" => staged'[q] = made'[q]
    BY <1>1, <1>3, <1>4 DEF InHand
  <2>3. reading' \in Lists => reading'.number <= commands'
    BY <1>1, <1>7, BibsAssumption DEF InHand, Lists
  <2>4. ranking' <= commands'
    BY <1>1, <1>2, <1>7
  <2>5. QED
    BY <1>10, <2>1, <2>2, <2>3, <2>4 DEF InHand
<1>12. ListStands'
  <2>1. UpToDate(p)'
    <3>1. CASE l.number = commands + 1 /\ l.read = ReadOn(reading) \cap l.entries
      BY <1>1, <1>2, <1>4, <3>1 DEF UpToDate, ReadOn
    <3>2. CASE reading \in Lists /\ l.number = reading.number
      BY <1>1, <1>4, <3>2 DEF UpToDate
    <3>3. QED
      BY <3>1, <3>2
  <2>2. ASSUME NEW q \in Procs, q # p, Listing(q)', ~late'[q] PROVE UpToDate(q)'
    <3>1. UpToDate(q)
      BY <1>1, <1>4, <1>9, <2>2 DEF ListStands
    <3>2. QED
      BY <1>1, <1>4, <2>2, <3>1 DEF UpToDate, ReadOn
  <2>3. QED
    BY <1>1, <2>1, <2>2 DEF ListStands
<1>13. QED
  BY <1>6, <1>10, <1>11, <1>12 DEF Inductive

LEMMA FromAgentStep ==
  ASSUME Inductive, NEW p \in Procs, from_agent(p)
  PROVE  Inductive'
<1>1. TypeOK /\ commands \in Nat /\ MaxCommands \in Nat /\ commands < MaxCommands
  BY BibsAssumption DEF Inductive, TypeOK, from_agent, Begins
<1>2. PICK entries \in SUBSET KeysOf(record) :
        Listed(p, [number |-> commands + 1, entries |-> entries,
                   read |-> ReadOn(reading) \cap entries])
  BY DEF from_agent
<1> DEFINE l == [number |-> commands + 1, entries |-> entries,
                 read |-> ReadOn(reading) \cap entries]
<1>3. entries \subseteq Keys
  BY <1>1, Kinds DEF from_agent, TypeOK, KeysOf
<1>4. l \in Lists
  BY <1>1, <1>3 DEF Lists
<1>5. l.number = commands + 1 /\ l.read = ReadOn(reading) \cap l.entries
  OBVIOUS
<1> HIDE DEF l
<1>6. QED
  BY <1>2, <1>4, <1>5, ListedStep DEF from_agent, l

LEMMA MarkStep ==
  ASSUME Inductive, NEW p \in Procs, mark(p)
  PROVE  Inductive'
<1>1. TypeOK /\ reading \in Lists /\ Begins(p, "listed")
  BY DEF Inductive, TypeOK, mark
<1>2. PICK k \in reading.entries :
        Listed(p, [reading EXCEPT !.read = IF k \in @ THEN @ \ {k} ELSE @ \cup {k}])
  BY DEF mark
<1> DEFINE l == [reading EXCEPT !.read = IF k \in @ THEN @ \ {k} ELSE @ \cup {k}]
<1>3. l \in Lists /\ l.number = reading.number
  BY <1>1 DEF Lists
<1>4. QED
  BY <1>1, <1>2, <1>3, ListedStep

(* It is written beside the list, under a name no other command uses.        *)
LEMMA StagingSteps ==
  ASSUME Inductive, NEW p \in Procs, Stage(p) \/ Staged(p)
  PROVE  Inductive'
<1>1. PICK to \in {"staging", "staged"}, l \in Lists \cup {Torn} :
        /\ at' = [at EXCEPT ![p] = to] /\ Listing(p)
        /\ staged' = [staged EXCEPT ![p] = l]
        /\ to = "staged" => l = made[p]
        /\ UNCHANGED <<commands, record, bib, mem, stale, clean, told, withdrawn, reading, made, late,
                       orderly, ranking, marked>>
  <2>1. Listing(p)
    BY DEF Stage, Staged, Goes, Listing
  <2>2. made[p] \in Lists
    BY <2>1 DEF Inductive, InHand
  <2>3. CASE Stage(p)
    BY <2>1, <2>3 DEF Stage, Goes, bibliography, StagedAt
  <2>4. CASE Staged(p)
    BY <2>1, <2>2, <2>4 DEF Staged, Goes, bibliography, StagedAt
  <2>5. QED
    BY <2>3, <2>4
<1>2. /\ TypeOK /\ InHand /\ ListStands /\ UNCHANGED bibliography
  BY <1>1 DEF Inductive, bibliography
<1>3. at'[p] = to /\ \A q \in Procs : q # p => at'[q] = at[q]
  BY <1>1, <1>2, OneMoves
<1>4. staged'[p] = l /\ \A q \in Procs : q # p => staged'[q] = staged[q]
  BY <1>1, <1>2 DEF TypeOK
<1>5. TypeOK'
  BY <1>1, <1>2 DEF TypeOK
<1>6. \A q \in Procs : /\ Loaded(q)' \/ Loaded(q) => at'[q] = at[q]
                       /\ Listing(q)' => Listing(q)
  BY <1>1, <1>3 DEF Loaded, Saving, Listing
<1>7. /\ AllDistinct' /\ SavesStand'
      /\ \A q \in Procs : Loaded(q)' => mem'[q] \in Records
  BY <1>2, <1>6, BibStays
<1>8. InHand'
  <2>1. \A q \in Procs : at'[q] = "staged" => staged'[q] = made'[q]
    BY <1>1, <1>2, <1>3, <1>4 DEF InHand
  <2>2. QED
    BY <1>1, <1>2, <1>6, <1>7, <2>1 DEF InHand
<1>9. ListStands'
  BY <1>1, <1>2, <1>6 DEF ListStands, UpToDate, ReadOn
<1>10. QED
  BY <1>5, <1>7, <1>8, <1>9 DEF Inductive

(* It takes the list's place; whoever else has made one is late with it.     *)
LEMMA ReplaceStep ==
  ASSUME Inductive, NEW p \in Procs, replace(p)
  PROVE  Inductive'
<1>1. /\ TypeOK /\ InHand /\ ListStands
      /\ at[p] = "staged" /\ at' = [at EXCEPT ![p] = "idle"]
      /\ staged' = [staged EXCEPT ![p] = None]
      /\ made' = [made EXCEPT ![p] = None]
      /\ late' = [q \in Procs |-> q # p /\ at[q] # "idle"]
      /\ orderly' = (orderly /\ ~late[p])
      /\ ranking' = IF made[p].number > ranking THEN made[p].number ELSE ranking
      /\ UNCHANGED <<commands, record, bib, mem, stale, clean, told, withdrawn>>
      /\ UNCHANGED bibliography
  BY DEF Inductive, replace, Goes, StagedAt, bibliography
<1>2. made[p] \in Lists /\ made[p].number <= commands /\ reading' = made[p]
  BY <1>1 DEF InHand, Listing, replace, StagedAt
<1>3. /\ made[p].number \in Nat /\ made[p].read \in SUBSET Keys
      /\ made[p].entries \in SUBSET Keys /\ made[p].number \in 0 .. MaxCommands
      /\ commands \in Nat /\ ranking \in Nat /\ ranking <= commands
      /\ reading # Torn
  BY <1>1, <1>2, BibsAssumption DEF Lists, TypeOK, InHand, ListStands
<1>4. at'[p] = "idle" /\ \A q \in Procs : q # p => at'[q] = at[q]
  BY <1>1, OneMoves
<1>5. reading' \in Lists /\ reading' # None /\ reading' # Torn
  BY <1>2, Kinds
<1> DEFINE old == IF reading = None THEN {} ELSE reading.read
<1>6. marked' = IF made[p].number > ranking THEN marked \cap made[p].entries
                ELSE (marked \cup (made[p].read \ old)) \ (old \ made[p].read)
  BY DEF replace
<1>7. TypeOK'
  <2>1. marked' \subseteq Keys
    BY <1>1, <1>3, <1>6 DEF TypeOK
  <2>2. ranking' \in 0 .. MaxCommands
    BY <1>1, <1>3 DEF TypeOK
  <2>3. QED
    BY <1>1, <1>5, <2>1, <2>2 DEF TypeOK
<1>8. \A q \in Procs : /\ Loaded(q)' \/ Loaded(q) => at'[q] = at[q]
                       /\ Listing(q)' => /\ q # p /\ Listing(q) /\ at[q] # "idle"
                                         /\ made'[q] = made[q] /\ staged'[q] = staged[q]
  BY <1>1, <1>4 DEF Loaded, Saving, Listing, TypeOK
<1>9. /\ AllDistinct' /\ SavesStand'
      /\ \A q \in Procs : Loaded(q)' => mem'[q] \in Records
  BY <1>1, <1>8, BibStays
<1>10. InHand'
  <2>1. \A q \in Procs : at'[q] = "staged" => staged'[q] = made'[q]
    BY <1>1, <1>4, <1>8 DEF InHand, Listing
  <2>2. ranking' <= commands'
    BY <1>1, <1>2, <1>3
  <2>3. QED
    BY <1>1, <1>2, <1>8, <1>9, <2>1, <2>2 DEF InHand
<1>11. orderly' => reading'.number = ranking' /\ reading'.read = marked'
  <2> SUFFICES ASSUME orderly' PROVE reading'.number = ranking' /\ reading'.read = marked'
    OBVIOUS
  <2>1. /\ orderly /\ UpToDate(p)
        /\ IF reading = None THEN ranking = 0 /\ marked = {}
           ELSE reading.number = ranking /\ reading.read = marked
    BY <1>1 DEF ListStands, Listing
  <2>2. CASE made[p].number > ranking
    <3>1. made[p].read = ReadOn(reading) \cap made[p].entries
      BY <1>3, <2>1, <2>2, Kinds DEF UpToDate
    <3>2. ReadOn(reading) = marked
      BY <1>3, <2>1 DEF ReadOn
    <3>3. QED
      BY <1>1, <1>2, <1>6, <2>2, <3>1, <3>2
  <2>3. CASE ~(made[p].number > ranking)
    <3>1. reading \in Lists /\ made[p].number = reading.number
      BY <2>1, <2>3 DEF UpToDate
    <3>2. made[p].number = ranking /\ old = marked
      BY <2>1, <3>1, Kinds
    <3>3. marked' = made[p].read
      BY <1>6, <2>3, <3>2
    <3>4. QED
      BY <1>1, <1>2, <2>3, <3>2, <3>3
  <2>4. QED
    BY <2>2, <2>3
<1>12. ListStands'
  BY <1>1, <1>5, <1>8, <1>11 DEF ListStands
<1>13. QED
  BY <1>7, <1>9, <1>10, <1>12 DEF Inductive

----------------------------------------------------------------------------
(* The record and the .bib.                                                  *)

(* What stands in one and all of that in another stands in the other.        *)
LEMMA KeepingOn ==
  ASSUME NEW r, NEW s, NEW t, Keeps(r, s), Keeps(s, t)
  PROVE  Keeps(r, t)
  BY DEF Keeps

LEMMA ReportedOn ==
  ASSUME NEW r, NEW s, Reported(r), Keeps(r, s)
  PROVE  Reported(s)
  BY DEF Keeps, Reported

LEMMA ExplainedOn ==
  ASSUME NEW r, NEW s, NEW t, Explains(r, t), Keeps(r, s)
  PROVE  Explains(s, t)
  BY DEF Keeps, Explains

(* A step of one command on the bibliography: types, and the reading list.   *)
LEMMA BibMoves ==
  ASSUME Inductive, NEW p \in Procs,
         NEW to \in {"idle", "loaded", "saving", "record", "saved", "bib"},
         at' = [at EXCEPT ![p] = to], UNCHANGED list,
         commands' \in 0 .. MaxCommands, commands <= commands',
         record' \in Records \cup {Torn}, bib' \in Records \cup {Torn},
         NEW m \in Records \cup {None}, mem' = [mem EXCEPT ![p] = m],
         stale' \in [Procs -> BOOLEAN], clean' \in BOOLEAN, told' \subseteq Docs \X Keys,
         withdrawn' \subseteq Docs,
         to # "idle" => m \in Records
  PROVE  /\ TypeOK' /\ InHand' /\ ListStands'
         /\ at'[p] = to /\ mem'[p] = m
         /\ \A q \in Procs : q # p =>
              /\ at'[q] = at[q] /\ mem'[q] = mem[q]
              /\ Loaded(q)' <=> Loaded(q)
              /\ Saving(q)' <=> Saving(q)
         /\ Saving(p)' <=> to \in {"record", "saved", "bib"}
         /\ Loaded(p)' <=> to # "idle"
<1>1. /\ TypeOK /\ InHand
      /\ UNCHANGED <<reading, staged, made, late, orderly, ranking, marked>>
  BY DEF Inductive, list
<1>2. /\ at'[p] = to /\ mem'[p] = m
      /\ \A q \in Procs : q # p => at'[q] = at[q] /\ mem'[q] = mem[q]
  BY <1>1 DEF TypeOK
<1>3. TypeOK'
  BY <1>1 DEF TypeOK
<1>4. \A q \in Procs : Listing(q)' => at'[q] = at[q]
  BY <1>2 DEF Listing
<1>5. /\ \A q \in Procs : q # p => /\ Loaded(q)' <=> Loaded(q)
                                   /\ Saving(q)' <=> Saving(q)
      /\ Saving(p)' <=> to \in {"record", "saved", "bib"}
      /\ Loaded(p)' <=> to # "idle"
  BY <1>2 DEF Loaded, Saving
<1>6. commands' \in Nat
  BY BibsAssumption
<1>7. InHand' /\ ListStands'
  <2>1. \A q \in Procs : Loaded(q)' => mem'[q] \in Records
    BY <1>1, <1>2, <1>5 DEF InHand
  <2>2. QED
    BY <1>4, <1>6, <2>1, ListStays DEF InHand
<1>8. QED
  BY <1>2, <1>3, <1>5, <1>7

LEMMA LoadStep ==
  ASSUME Inductive, NEW p \in Procs, load(p)
  PROVE  Inductive'
<1>1. /\ TypeOK /\ AllDistinct /\ SavesStand
      /\ at[p] = "idle" /\ at' = [at EXCEPT ![p] = "loaded"]
      /\ commands < MaxCommands /\ commands' = commands + 1
      /\ record \in Records
      /\ mem' = [mem EXCEPT ![p] = record]
      /\ stale' = [stale EXCEPT ![p] = FALSE]
      /\ UNCHANGED <<record, bib, clean, told, withdrawn>> /\ UNCHANGED list
  BY DEF Inductive, load, Begins, TypeOK
<1>2. commands' \in 0 .. MaxCommands /\ commands <= commands'
  BY <1>1, BibsAssumption DEF TypeOK
<1>3. /\ TypeOK' /\ InHand' /\ ListStands'
      /\ at'[p] = "loaded" /\ mem'[p] = record
      /\ \A q \in Procs : q # p =>
              /\ at'[q] = at[q] /\ mem'[q] = mem[q]
              /\ Loaded(q)' <=> Loaded(q)
              /\ Saving(q)' <=> Saving(q)
      /\ ~Saving(p)' /\ Loaded(p)'
  <2>1. stale' \in [Procs -> BOOLEAN] /\ clean' \in BOOLEAN /\ told' \subseteq Docs \X Keys /\ withdrawn' \subseteq Docs
    BY <1>1 DEF TypeOK
  <2>2. record' \in Records \cup {Torn} /\ bib' \in Records \cup {Torn}
    BY <1>1 DEF TypeOK
  <2>3. QED
    BY <1>1, <1>2, <2>1, <2>2, BibMoves
<1>4. ~Saving(p) /\ \A q \in Procs : q # p => stale'[q] = stale[q]
  BY <1>1 DEF Saving, TypeOK
<1>5. AllDistinct'
  BY <1>1, <1>3, Kinds DEF AllDistinct, Distinct, Cited
<1>6. SavesStand'
  <2>1. Keeps(record, record) /\ record # Torn
    BY <1>1, Kinds DEF Keeps
  <2>2. \A q \in Procs : at'[q] \in {"loaded", "saving"} /\ ~stale'[q] =>
          record # Torn /\ Keeps(record, mem'[q])
    BY <1>1, <1>3, <1>4, <2>1 DEF SavesStand
  <2>3. \A q \in Procs : at'[q] \in {"record", "saved", "bib"} =>
          q # p /\ at[q] = at'[q] /\ mem'[q] = mem[q]
    BY <1>3
  <2>4. \A q \in Procs : at[q] = "record" => at'[q] = "record"
    BY <1>1, <1>3
  <2>5. QED
    BY <1>1, <1>3, <1>4, <2>2, <2>3, <2>4 DEF SavesStand, Keeps, Reported, Explains, Cited
<1>7. QED
  BY <1>3, <1>5, <1>6 DEF Inductive

(* The command has found the library's citations and goes on to save them.   *)
LEMMA BuildStep ==
  ASSUME Inductive, NEW p \in Procs, bib_build(p)
  PROVE  Inductive'
<1>1. /\ TypeOK /\ AllDistinct /\ SavesStand /\ InHand
      /\ at[p] = "loaded" /\ at' = [at EXCEPT ![p] = "saving"]
      /\ UNCHANGED <<commands, record, bib, mem, stale, clean, told, withdrawn>> /\ UNCHANGED list
  BY DEF Inductive, bib_build, Goes, bibliography
<1>2. mem[p] \in Records /\ mem' = [mem EXCEPT ![p] = mem[p]]
  BY <1>1 DEF InHand, Loaded, TypeOK
<1>3. commands' \in 0 .. MaxCommands /\ commands <= commands'
  BY <1>1, BibsAssumption DEF TypeOK
<1>4. /\ TypeOK' /\ InHand' /\ ListStands'
      /\ at'[p] = "saving"
      /\ \A q \in Procs : q # p =>
              /\ at'[q] = at[q]
              /\ Loaded(q)' <=> Loaded(q)
              /\ Saving(q)' <=> Saving(q)
      /\ ~Saving(p)' /\ Loaded(p)'
  <2>1. stale' \in [Procs -> BOOLEAN] /\ clean' \in BOOLEAN /\ told' \subseteq Docs \X Keys /\ withdrawn' \subseteq Docs
    BY <1>1 DEF TypeOK
  <2>2. record' \in Records \cup {Torn} /\ bib' \in Records \cup {Torn}
    BY <1>1 DEF TypeOK
  <2>3. QED
    BY <1>1, <1>2, <1>3, <2>1, <2>2, BibMoves
<1>5. ~Saving(p) /\ Loaded(p)
  BY <1>1 DEF Saving, Loaded
<1>6. AllDistinct'
  BY <1>1, <1>4, <1>5 DEF AllDistinct, Distinct, Cited
<1>7. SavesStand'
  <2>1. \A q \in Procs : at'[q] \in {"loaded", "saving"} => at[q] \in {"loaded", "saving"}
    BY <1>1, <1>4
  <2>2. \A q \in Procs : at'[q] \in {"record", "saved", "bib"} => at[q] = at'[q]
    BY <1>4
  <2>3. \A q \in Procs : at[q] = "record" => at'[q] = "record"
    BY <1>1, <1>4
  <2>4. QED
    BY <1>1, <1>4, <1>5, <2>1, <2>2, <2>3 DEF SavesStand, Keeps, Reported, Explains, Cited
<1>8. QED
  BY <1>4, <1>6, <1>7 DEF Inductive

(* A document is cited under a key that no other citation loaded has.        *)
LEMMA AddStep ==
  ASSUME Inductive, NEW p \in Procs, NEW d \in Docs, add(p, d)
  PROVE  Inductive'
<1>1. /\ TypeOK /\ AllDistinct /\ SavesStand /\ InHand
      /\ at[p] = "loaded" /\ at' = [at EXCEPT ![p] = "saving"]
      /\ mem[p][d] = None
      /\ UNCHANGED <<commands, record, bib, stale, clean, told, withdrawn>> /\ UNCHANGED list
  BY DEF Inductive, add, Goes
<1>2. mem[p] \in Records /\ Loaded(p) /\ ~Saving(p)
  BY <1>1 DEF InHand, Loaded, Saving
<1>3. PICK k \in Keys \ KeysOf(mem[p]) :
        mem' = [mem EXCEPT ![p][d] = [key |-> k, edited |-> FALSE]]
  BY <1>1, <1>2, FreeKey DEF add
<1>4. PICK m \in Records :
        /\ mem' = [mem EXCEPT ![p] = m]
        /\ m[d] = [key |-> k, edited |-> FALSE] /\ m[d] # None
        /\ \A e \in Docs : e # d => m[e] = mem[p][e]
  <2> DEFINE n == [mem[p] EXCEPT ![d] = [key |-> k, edited |-> FALSE]]
  <2>1. [key |-> k, edited |-> FALSE] \in Entry
    BY DEF Entry
  <2>2. n \in Records /\ n[d] = [key |-> k, edited |-> FALSE]
        /\ \A e \in Docs : e # d => n[e] = mem[p][e]
    BY <1>2, <2>1 DEF Records
  <2>3. n[d] # None
    BY <2>1, <2>2, NothingIsWritten
  <2>4. mem' = [mem EXCEPT ![p] = n]
    BY <1>3
  <2>5. QED
    BY <2>2, <2>3, <2>4
<1>5. /\ Cited(m) = Cited(mem[p]) \cup {d} /\ d \notin Cited(mem[p])
      /\ \A e \in Cited(mem[p]) : m[e] = mem[p][e] /\ m[e].key # k
      /\ m[d].key = k
  BY <1>1, <1>3, <1>4 DEF Cited, KeysOf
<1>6. commands' \in 0 .. MaxCommands /\ commands <= commands'
  BY <1>1, BibsAssumption DEF TypeOK
<1>7. /\ TypeOK' /\ InHand' /\ ListStands'
      /\ at'[p] = "saving" /\ mem'[p] = m
      /\ \A q \in Procs : q # p =>
              /\ at'[q] = at[q] /\ mem'[q] = mem[q]
              /\ Loaded(q)' <=> Loaded(q)
              /\ Saving(q)' <=> Saving(q)
      /\ ~Saving(p)' /\ Loaded(p)'
  <2>1. stale' \in [Procs -> BOOLEAN] /\ clean' \in BOOLEAN /\ told' \subseteq Docs \X Keys /\ withdrawn' \subseteq Docs
    BY <1>1 DEF TypeOK
  <2>2. record' \in Records \cup {Torn} /\ bib' \in Records \cup {Torn}
    BY <1>1 DEF TypeOK
  <2>3. QED
    BY <1>1, <1>4, <1>6, <2>1, <2>2, BibMoves
<1>8. Distinct(m)
  <2>1. Distinct(mem[p])
    BY <1>1, <1>2 DEF AllDistinct
  <2>2. QED
    BY <1>5, <2>1 DEF Distinct
<1>9. AllDistinct'
  <2>1. \A q \in Procs : q # p /\ Loaded(q)' => Distinct(mem'[q])
    BY <1>1, <1>7 DEF AllDistinct
  <2>2. \A q \in Procs : Loaded(q)' => Distinct(mem'[q])
    BY <1>7, <1>8, <2>1
  <2>3. (record # Torn => Distinct(record)) /\ (bib # Torn => Distinct(bib))
    BY <1>1 DEF AllDistinct
  <2>4. (record' # Torn => Distinct(record')) /\ (bib' # Torn => Distinct(bib'))
    BY <1>1, <2>3
  <2>5. QED
    BY <2>2, <2>4 DEF AllDistinct, Distinct, Cited
<1>10. SavesStand'
  <2>1. Keeps(mem[p], m)
    BY <1>5 DEF Keeps
  <2>2. ASSUME ~stale[p] PROVE record # Torn /\ Keeps(record, m)
    BY <1>1, <2>1, <2>2, KeepingOn DEF SavesStand
  <2>3. \A q \in Procs : at'[q] \in {"loaded", "saving"} /\ ~stale'[q] =>
          record # Torn /\ Keeps(record, mem'[q])
    BY <1>1, <1>7, <2>2 DEF SavesStand
  <2>4. \A q \in Procs : at'[q] \in {"record", "saved", "bib"} =>
          q # p /\ at[q] = at'[q] /\ mem'[q] = mem[q]
    BY <1>7
  <2>5. \A q \in Procs : at[q] = "record" => at'[q] = "record"
    BY <1>1, <1>7
  <2>6. QED
    BY <1>1, <1>2, <1>7, <2>3, <2>4, <2>5 DEF SavesStand, Keeps, Reported, Explains, Cited
<1>11. QED
  BY <1>7, <1>9, <1>10 DEF Inductive

(* A save empties the record; what others have loaded is no longer what it   *)
(* was. If nothing came between, the save adds to it.                        *)
LEMMA EmptyRecordStep ==
  ASSUME Inductive, NEW p \in Procs, EmptyRecord(p)
  PROVE  Inductive'
<1>1. /\ TypeOK /\ AllDistinct /\ SavesStand /\ InHand
      /\ at[p] = "saving" /\ at' = [at EXCEPT ![p] = "record"]
      /\ record' = Torn
      /\ stale' = [q \in Procs |-> stale[q] \/ (q # p /\ at[q] # "idle")]
      /\ clean' = (clean /\ ~stale[p] /\ \A q \in Procs : ~Saving(q))
      /\ UNCHANGED <<commands, bib, mem, told, withdrawn>> /\ UNCHANGED list
  BY DEF Inductive, EmptyRecord, Goes, Changed
<1>2. mem[p] \in Records /\ mem' = [mem EXCEPT ![p] = mem[p]] /\ Loaded(p)
  BY <1>1 DEF InHand, Loaded, TypeOK
<1>3. commands' \in 0 .. MaxCommands /\ commands <= commands'
  BY <1>1, BibsAssumption DEF TypeOK
<1>4. stale' \in [Procs -> BOOLEAN] /\ clean' \in BOOLEAN
  <2>1. \A q \in Procs : (stale[q] \/ (q # p /\ at[q] # "idle")) \in BOOLEAN
    OBVIOUS
  <2>2. stale' \in [Procs -> BOOLEAN]
    BY <1>1, <2>1
  <2>3. QED
    BY <1>1, <2>2
<1>5. /\ TypeOK' /\ InHand' /\ ListStands'
      /\ at'[p] = "record"
      /\ \A q \in Procs : q # p =>
              /\ at'[q] = at[q]
              /\ Loaded(q)' <=> Loaded(q)
              /\ Saving(q)' <=> Saving(q)
      /\ Saving(p)' /\ Loaded(p)'
  <2>1. told' \subseteq Docs \X Keys /\ withdrawn' \subseteq Docs
    BY <1>1 DEF TypeOK
  <2>2. record' \in Records \cup {Torn} /\ bib' \in Records \cup {Torn}
    BY <1>1 DEF TypeOK
  <2>3. QED
    BY <1>1, <1>2, <1>3, <1>4, <2>1, <2>2, BibMoves
<1>6. AllDistinct'
  BY <1>1, <1>2, <1>5 DEF AllDistinct, Distinct, Cited
<1>7. SavesStand'
  <2>1. \A q \in Procs : at'[q] \in {"loaded", "saving"} => stale'[q]
    BY <1>1, <1>5
  <2>2. ASSUME clean'
        PROVE  /\ Reported(mem[p]) /\ (bib # Torn => Explains(mem[p], bib))
               /\ \A q \in Procs : Saving(q)' => q = p
    <3>1. clean /\ ~stale[p] /\ \A q \in Procs : ~Saving(q)
      BY <1>1, <2>2
    <3>2. record # Torn /\ Keeps(record, mem[p])
      BY <1>1, <3>1 DEF SavesStand
    <3>3. Reported(record) /\ (bib # Torn => Explains(record, bib))
      BY <1>1, <3>1, <3>2 DEF SavesStand
    <3>4. QED
      BY <1>5, <3>1, <3>2, <3>3, ReportedOn, ExplainedOn
  <2>3. clean' => \A q \in Procs : at'[q] \in {"record", "saved", "bib"} => q = p
    BY <2>2 DEF Saving
  <2>4. QED
    BY <1>1, <1>5, <2>1, <2>2, <2>3 DEF SavesStand, Keeps, Reported, Explains, Cited
<1>8. QED
  BY <1>5, <1>6, <1>7 DEF Inductive

(* The record is written: over nothing, or over what another has written.    *)
LEMMA WriteRecordStep ==
  ASSUME Inductive, NEW p \in Procs, WriteRecord(p)
  PROVE  Inductive'
<1>1. /\ TypeOK /\ AllDistinct /\ SavesStand /\ InHand
      /\ at[p] = "record" /\ at' = [at EXCEPT ![p] = "saved"]
      /\ record' \in {mem[p], Torn}
      /\ record = Torn => record' = mem[p]
      /\ stale' = [q \in Procs |-> stale[q] \/ (q # p /\ at[q] # "idle")]
      /\ UNCHANGED <<commands, bib, mem, clean, told, withdrawn>> /\ UNCHANGED list
  BY DEF Inductive, WriteRecord, Goes, Changed, Written
<1>2. /\ mem[p] \in Records /\ mem' = [mem EXCEPT ![p] = mem[p]] /\ Loaded(p) /\ Saving(p)
      /\ mem[p] # Torn
  BY <1>1, Kinds DEF InHand, Loaded, Saving, TypeOK
<1>3. commands' \in 0 .. MaxCommands /\ commands <= commands'
  BY <1>1, BibsAssumption DEF TypeOK
<1>4. stale' \in [Procs -> BOOLEAN]
  <2>1. \A q \in Procs : (stale[q] \/ (q # p /\ at[q] # "idle")) \in BOOLEAN
    OBVIOUS
  <2>2. QED
    BY <1>1, <2>1
<1>5. /\ TypeOK' /\ InHand' /\ ListStands'
      /\ at'[p] = "saved"
      /\ \A q \in Procs : q # p =>
              /\ at'[q] = at[q]
              /\ Loaded(q)' <=> Loaded(q)
              /\ Saving(q)' <=> Saving(q)
      /\ Saving(p)' /\ Loaded(p)'
  <2>1. told' \subseteq Docs \X Keys /\ withdrawn' \subseteq Docs /\ clean' \in BOOLEAN
    BY <1>1 DEF TypeOK
  <2>2. record' \in Records \cup {Torn} /\ bib' \in Records \cup {Torn}
    BY <1>1, <1>2 DEF TypeOK
  <2>3. /\ Inductive /\ at' = [at EXCEPT ![p] = "saved"] /\ UNCHANGED list
        /\ mem' = [mem EXCEPT ![p] = mem[p]] /\ mem[p] \in Records \cup {None}
    BY <1>1, <1>2
  <2>4. QED
    BY <1>2, <1>3, <1>4, <2>1, <2>2, <2>3, BibMoves
<1>6. AllDistinct'
  <2>1. Distinct(mem[p]) /\ (bib # Torn => Distinct(bib))
    BY <1>1, <1>2 DEF AllDistinct
  <2>2. \A q \in Procs : Loaded(q)' => Loaded(q)
    BY <1>2, <1>5
  <2>3. QED
    BY <1>1, <2>1, <2>2 DEF AllDistinct, Distinct, Cited
<1>7. SavesStand'
  <2>1. \A q \in Procs : at'[q] \in {"loaded", "saving"} => stale'[q]
    BY <1>1, <1>5
  <2>2. ASSUME clean
        PROVE  /\ record' = mem[p] /\ Reported(mem[p]) /\ (bib # Torn => Explains(mem[p], bib))
               /\ \A q \in Procs : Saving(q)' => q = p
    BY <1>1, <1>2, <1>5, <2>2 DEF SavesStand
  <2>3. clean => \A q \in Procs : at'[q] \in {"record", "saved", "bib"} => q = p
    BY <2>2 DEF Saving
  <2>4. QED
    BY <1>1, <1>2, <1>5, <2>1, <2>2, <2>3 DEF SavesStand, Keeps, Reported, Explains, Cited
<1>8. QED
  BY <1>5, <1>6, <1>7 DEF Inductive

(* The .bib is emptied.                                                      *)
LEMMA EmptyBibStep ==
  ASSUME Inductive, NEW p \in Procs, EmptyBib(p)
  PROVE  Inductive'
<1>1. /\ TypeOK /\ AllDistinct /\ SavesStand /\ InHand
      /\ at[p] = "saved" /\ at' = [at EXCEPT ![p] = "bib"]
      /\ bib' = Torn
      /\ UNCHANGED <<commands, record, mem, stale, clean, told, withdrawn>> /\ UNCHANGED list
  BY DEF Inductive, EmptyBib, Goes
<1>2. /\ mem[p] \in Records /\ mem' = [mem EXCEPT ![p] = mem[p]] /\ Loaded(p) /\ Saving(p)
      /\ mem[p] # Torn
  BY <1>1, Kinds DEF InHand, Loaded, Saving, TypeOK
<1>3. commands' \in 0 .. MaxCommands /\ commands <= commands'
  BY <1>1, BibsAssumption DEF TypeOK
<1>4. /\ TypeOK' /\ InHand' /\ ListStands'
      /\ at'[p] = "bib"
      /\ \A q \in Procs : q # p =>
              /\ at'[q] = at[q]
              /\ Loaded(q)' <=> Loaded(q)
              /\ Saving(q)' <=> Saving(q)
      /\ Saving(p)' /\ Loaded(p)'
  <2>1. stale' \in [Procs -> BOOLEAN] /\ clean' \in BOOLEAN /\ told' \subseteq Docs \X Keys /\ withdrawn' \subseteq Docs
    BY <1>1 DEF TypeOK
  <2>2. record' \in Records \cup {Torn} /\ bib' \in Records \cup {Torn}
    BY <1>1 DEF TypeOK
  <2>3. QED
    BY <1>1, <1>2, <1>3, <2>1, <2>2, BibMoves
<1>5. AllDistinct'
  <2>1. \A q \in Procs : Loaded(q)' => Loaded(q)
    BY <1>2, <1>4
  <2>2. QED
    BY <1>1, <2>1 DEF AllDistinct, Distinct, Cited
<1>6. SavesStand'
  <2>1. \A q \in Procs : /\ Saving(q)' <=> Saving(q)
                         /\ at'[q] \in {"loaded", "saving"} => at[q] = at'[q]
                         /\ at'[q] = "record" <=> at[q] = "record"
                         /\ at'[q] \in {"saved", "bib"} => at[q] \in {"saved", "bib"}
    BY <1>1, <1>2, <1>4
  <2>2. QED
    BY <1>1, <2>1 DEF SavesStand, Keeps, Reported, Explains, Cited
<1>7. QED
  BY <1>4, <1>5, <1>6 DEF Inductive

(* The .bib is written, and the command says what it has cited.              *)
LEMMA WriteBibStep ==
  ASSUME Inductive, NEW p \in Procs, WriteBib(p)
  PROVE  Inductive'
<1>1. /\ TypeOK /\ AllDistinct /\ SavesStand /\ InHand
      /\ at[p] = "bib" /\ at' = [at EXCEPT ![p] = "idle"]
      /\ bib' \in {mem[p], Torn}
      /\ mem' = [mem EXCEPT ![p] = None]
      /\ stale' = [stale EXCEPT ![p] = FALSE]
      /\ told' = told \cup {<<d, mem[p][d].key>> : d \in Cited(mem[p])}
      /\ withdrawn' = {}
      /\ UNCHANGED <<commands, record, clean>> /\ UNCHANGED list
  BY DEF Inductive, WriteBib, Goes, Written
<1>2. /\ mem[p] \in Records /\ Loaded(p) /\ Saving(p) /\ mem[p] # Torn
  BY <1>1, Kinds DEF InHand, Loaded, Saving
<1>3. commands' \in 0 .. MaxCommands /\ commands <= commands'
  BY <1>1, BibsAssumption DEF TypeOK
<1>4. /\ TypeOK' /\ InHand' /\ ListStands'
      /\ at'[p] = "idle"
      /\ \A q \in Procs : q # p =>
              /\ at'[q] = at[q] /\ mem'[q] = mem[q]
              /\ Loaded(q)' <=> Loaded(q)
              /\ Saving(q)' <=> Saving(q)
      /\ ~Saving(p)' /\ ~Loaded(p)'
  <2>1. stale' \in [Procs -> BOOLEAN] /\ clean' \in BOOLEAN
    BY <1>1 DEF TypeOK
  <2>2. record' \in Records \cup {Torn} /\ bib' \in Records \cup {Torn}
    BY <1>1, <1>2 DEF TypeOK
  <2>3. told' \subseteq Docs \X Keys /\ withdrawn' \subseteq Docs
    BY <1>1, <1>2, Kinds DEF TypeOK
  <2>4. QED
    BY <1>1, <1>3, <2>1, <2>2, <2>3, BibMoves
<1>5. \A q \in Procs : q # p => stale'[q] = stale[q]
  BY <1>1 DEF TypeOK
<1>6. AllDistinct'
  <2>1. Distinct(mem[p]) /\ (record # Torn => Distinct(record))
    BY <1>1, <1>2 DEF AllDistinct
  <2>2. \A q \in Procs : Loaded(q)' => Distinct(mem'[q])
    BY <1>1, <1>4 DEF AllDistinct
  <2>3. (bib' # Torn => Distinct(bib')) /\ (record' # Torn => Distinct(record'))
    BY <1>1, <2>1
  <2>4. QED
    BY <2>2, <2>3 DEF AllDistinct, Distinct, Cited
<1>7. SavesStand'
  <2>1. \A q \in Procs : at'[q] \in {"loaded", "saving"} /\ ~stale'[q] =>
          record # Torn /\ Keeps(record, mem'[q])
    BY <1>1, <1>4, <1>5 DEF SavesStand
  <2>2. ASSUME clean
        PROVE  /\ record = mem[p] /\ Reported(record)
               /\ \A q \in Procs : ~Saving(q)'
    BY <1>1, <1>2, <1>4, <2>2 DEF SavesStand
  <2>3. clean => \A q \in Procs : at'[q] \notin {"record", "saved", "bib"}
    BY <2>2 DEF Saving
  <2>4. ASSUME clean, NEW c \in told' PROVE c[1] \in Cited(record) /\ record[c[1]].key = c[2]
    BY <1>1, <2>2, <2>4 DEF Reported
  <2>5. clean /\ bib' # Torn => bib' = record
    BY <1>1, <2>2
  <2>6. QED
    BY <1>1, <1>2, <2>1, <2>2, <2>3, <2>4, <2>5 DEF SavesStand, Keeps, Reported, Explains, Cited
<1>8. QED
  BY <1>4, <1>6, <1>7 DEF Inductive

(* The person rewrites one source of the record as it stands, under a key    *)
(* that no other has: no other is touched, what was said of it is forgotten  *)
(* with its key, and what a command has loaded is no longer what it was.     *)
LEMMA EditStep ==
  ASSUME Inductive, Edit
  PROVE  Inductive'
<1>1. /\ TypeOK /\ AllDistinct /\ SavesStand /\ InHand
      /\ record \in Records /\ record # Torn
      /\ stale' = [p \in Procs |-> at[p] # "idle"]
      /\ clean' = (clean /\ \A p \in Procs : ~Saving(p))
      /\ commands < MaxCommands /\ commands' = commands + 1
      /\ UNCHANGED <<bib, mem, at>> /\ UNCHANGED list
  BY DEF Inductive, Edit, TypeOK
<1>2. PICK d \in Docs : \E entry \in Rewritten(d) \ {record[d]} :
        LET kept == record[d] = None \/ (entry # None /\ entry.key = record[d].key)
        IN /\ record' = [record EXCEPT ![d] = entry]
           /\ told' = IF kept THEN told ELSE {c \in told : c[1] # d}
           /\ withdrawn' = IF kept THEN withdrawn ELSE withdrawn \cup {d}
  BY DEF Edit
<1>3. PICK entry \in Rewritten(d) \ {record[d]} :
        LET kept == record[d] = None \/ (entry # None /\ entry.key = record[d].key)
        IN /\ record' = [record EXCEPT ![d] = entry]
           /\ told' = IF kept THEN told ELSE {c \in told : c[1] # d}
           /\ withdrawn' = IF kept THEN withdrawn ELSE withdrawn \cup {d}
  BY <1>2
<1> DEFINE kept == record[d] = None \/ (entry # None /\ entry.key = record[d].key)
<1>4. /\ entry \in Entry \cup {None}
      /\ entry # None => \A e \in Docs : e # d /\ record[e] # None => record[e].key # entry.key
  <2> DEFINE others == [record EXCEPT ![d] = None]
  <2>1. \A e \in Docs : e # d /\ record[e] # None => record[e].key \in KeysOf(others)
    BY <1>1 DEF Records, KeysOf, Cited
  <2>2. entry \in {None} \cup [key : Keys \ KeysOf(others), edited : {TRUE}]
    BY <1>3 DEF Rewritten
  <2> HIDE DEF others
  <2>3. QED
    BY <2>1, <2>2 DEF Entry
<1>5. /\ record' \in Records /\ record' # Torn /\ record'[d] = entry
      /\ \A e \in Docs : e # d => record'[e] = record[e]
  <2>1. record' \in Records /\ record'[d] = entry
        /\ \A e \in Docs : e # d => record'[e] = record[e]
    BY <1>1, <1>3, <1>4 DEF Records
  <2>2. QED
    BY <2>1, Kinds
<1>6. TypeOK'
  <2>1. stale' \in [Procs -> BOOLEAN] /\ clean' \in BOOLEAN
    BY <1>1
  <2>2. commands' \in 0 .. MaxCommands
    BY <1>1, BibsAssumption DEF TypeOK
  <2>3. told' \subseteq Docs \X Keys /\ withdrawn' \subseteq Docs
    BY <1>1, <1>3 DEF TypeOK
  <2>4. QED
    BY <1>1, <1>5, <2>1, <2>2, <2>3 DEF TypeOK, list
<1>7. InHand' /\ ListStands'
  <2>1. commands' \in Nat /\ commands <= commands'
    BY <1>1, BibsAssumption DEF TypeOK
  <2>2. \A p \in Procs : Loaded(p)' => mem'[p] \in Records
    BY <1>1 DEF InHand, Loaded, Saving
  <2>3. QED
    BY <1>1, <2>1, <2>2, ListStays DEF InHand
<1>8. AllDistinct'
  <2>1. Distinct(record)
    BY <1>1 DEF AllDistinct
  <2>2. Distinct(record')
    BY <1>1, <1>4, <1>5, <2>1 DEF Distinct, Cited, Records
  <2>3. QED
    BY <1>1, <2>2 DEF AllDistinct, Distinct, Cited, Loaded, Saving
<1>9. SavesStand'
  <2>1. \A p \in Procs : at'[p] \in {"loaded", "saving"} => stale'[p]
    BY <1>1
  <2>2. clean' => /\ clean /\ \A p \in Procs : at'[p] \notin {"record", "saved", "bib"}
    BY <1>1 DEF Saving
  <2>3. \A e \in Cited(record) : kept \/ e # d => e \in Cited(record') /\ record'[e].key = record[e].key
    BY <1>1, <1>5 DEF Cited, Records
  <2>4. ASSUME clean
        PROVE  /\ \A c \in told' : c[1] \in Cited(record') /\ record'[c[1]].key = c[2]
               /\ bib # Torn => \A e \in Cited(bib) \ withdrawn' :
                    e \in Cited(record') /\ record'[e].key = bib[e].key
    <3>1. Reported(record) /\ (bib # Torn => Explains(record, bib))
      BY <1>1, <2>4 DEF SavesStand
    <3>2. \A c \in told' : c \in told /\ (kept \/ c[1] # d)
      BY <1>3
    <3>3. \A e \in Docs \ withdrawn' : e \notin withdrawn /\ (kept \/ e # d)
      BY <1>3
    <3>4. bib # Torn => Cited(bib) \subseteq Docs
      BY <1>1, Kinds DEF TypeOK
    <3> HIDE DEF kept
    <3>5. QED
      BY <2>3, <3>1, <3>2, <3>3, <3>4 DEF Reported, Explains
  <2>5. QED
    BY <1>1, <1>5, <2>1, <2>2, <2>4 DEF SavesStand, Saving, Keeps, Reported, Explains, Cited
<1>10. QED
  BY <1>6, <1>7, <1>8, <1>9 DEF Inductive

(* A record that was cut short is mended: a save was lost by then.           *)
LEMMA MendStep ==
  ASSUME Inductive, Mend
  PROVE  Inductive'
<1>1. /\ TypeOK /\ AllDistinct /\ SavesStand /\ InHand
      /\ record = Torn /\ record' \in {Nothing} \cup ({bib} \ {Torn})
      /\ \A p \in Procs : at[p] # "record"
      /\ stale' = [p \in Procs |-> at[p] # "idle"]
      /\ UNCHANGED <<bib, mem, clean, told, withdrawn, commands, at>> /\ UNCHANGED list
  BY DEF Inductive, Mend
<1>2. record' \in Records /\ record' # Torn
  BY <1>1, Kinds, NothingCited DEF TypeOK
<1>3. TypeOK'
  <2>1. stale' \in [Procs -> BOOLEAN]
    BY <1>1
  <2>2. QED
    BY <1>1, <1>2, <2>1 DEF TypeOK, list
<1>4. InHand' /\ ListStands'
  <2>1. commands' \in Nat /\ commands <= commands'
    BY <1>1, BibsAssumption DEF TypeOK
  <2>2. \A p \in Procs : Loaded(p)' => mem'[p] \in Records
    BY <1>1 DEF InHand, Loaded, Saving
  <2>3. QED
    BY <1>1, <2>1, <2>2, ListStays DEF InHand
<1>5. AllDistinct'
  <2>1. Distinct(record')
    <3>1. Distinct(Nothing)
      BY NothingCited DEF Distinct
    <3>2. bib # Torn => Distinct(bib)
      BY <1>1 DEF AllDistinct
    <3>3. CASE record' = Nothing
      BY <3>1, <3>3
    <3>4. CASE record' = bib /\ bib # Torn
      BY <3>2, <3>4
    <3>5. QED
      BY <1>1, <3>3, <3>4
  <2>2. QED
    BY <1>1, <2>1 DEF AllDistinct, Distinct, Cited, Loaded, Saving
<1>6. SavesStand'
  <2>1. \A p \in Procs : at'[p] \in {"loaded", "saving"} => stale'[p]
    BY <1>1
  <2>2. ~clean
    BY <1>1 DEF SavesStand
  <2>3. QED
    BY <1>1, <2>1, <2>2 DEF SavesStand
<1>7. QED
  BY <1>3, <1>4, <1>5, <1>6 DEF Inductive

(* A command ends, with its save cut short if it was writing the record.     *)
LEMMA EndStep ==
  ASSUME Inductive, NEW p \in Procs, End(p)
  PROVE  Inductive'
<1>1. /\ TypeOK /\ AllDistinct /\ SavesStand /\ InHand /\ ListStands
      /\ at' = [at EXCEPT ![p] = "idle"]
      /\ mem' = [mem EXCEPT ![p] = None]
      /\ made' = [made EXCEPT ![p] = None]
      /\ stale' = [stale EXCEPT ![p] = FALSE]
      /\ late' = [late EXCEPT ![p] = FALSE]
      /\ clean' = (clean /\ at[p] # "record")
      /\ staged' \in {staged, [staged EXCEPT ![p] = None]}
      /\ UNCHANGED <<record, bib, reading, commands, orderly, told, withdrawn, ranking, marked>>
  BY DEF Inductive, End, StagedAt
<1>2. at'[p] = "idle" /\ \A q \in Procs : q # p => at'[q] = at[q]
  BY <1>1, OneMoves
<1>3. \A q \in Procs : q # p =>
        /\ mem'[q] = mem[q] /\ made'[q] = made[q] /\ stale'[q] = stale[q]
        /\ late'[q] = late[q] /\ staged'[q] = staged[q]
  BY <1>1 DEF TypeOK
<1>4. /\ ~Loaded(p)' /\ ~Listing(p)' /\ ~Saving(p)'
      /\ \A q \in Procs : q # p => /\ Loaded(q)' <=> Loaded(q)
                                   /\ Listing(q)' <=> Listing(q)
                                   /\ Saving(q)' <=> Saving(q)
  BY <1>2 DEF Loaded, Listing, Saving
<1>5. TypeOK'
  BY <1>1 DEF TypeOK
<1>6. InHand'
  <2>1. \A q \in Procs : Loaded(q)' => mem'[q] \in Records
    BY <1>1, <1>3, <1>4 DEF InHand
  <2>2. \A q \in Procs : Listing(q)' => made'[q] \in Lists /\ made'[q].number <= commands'
    BY <1>1, <1>3, <1>4 DEF InHand
  <2>3. \A q \in Procs : at'[q] = "staged" => staged'[q] = made'[q]
    BY <1>1, <1>2, <1>3 DEF InHand
  <2>4. QED
    BY <1>1, <2>1, <2>2, <2>3 DEF InHand
<1>7. ListStands'
  BY <1>1, <1>3, <1>4 DEF ListStands, UpToDate, ReadOn
<1>8. AllDistinct'
  BY <1>1, <1>3, <1>4 DEF AllDistinct, Distinct, Cited
<1>9. SavesStand'
  <2>1. \A q \in Procs : at'[q] \in {"loaded", "saving"} /\ ~stale'[q] =>
          record # Torn /\ Keeps(record, mem'[q])
    BY <1>1, <1>2, <1>3 DEF SavesStand
  <2>2. \A q \in Procs : at'[q] \in {"record", "saved", "bib"} =>
          q # p /\ at[q] = at'[q] /\ mem'[q] = mem[q]
    BY <1>2, <1>3
  <2>3. clean' => clean /\ \A q \in Procs : at[q] = "record" => at'[q] = "record"
    BY <1>1, <1>2
  <2>4. QED
    BY <1>1, <1>4, <2>1, <2>2, <2>3 DEF SavesStand, Keeps, Reported, Explains, Cited
<1>10. QED
  BY <1>5, <1>6, <1>7, <1>8, <1>9 DEF Inductive

----------------------------------------------------------------------------
(* The whole.                                                                *)

LEMMA StartsSo == Init => Inductive
<1> SUFFICES ASSUME Init PROVE Inductive
  OBVIOUS
<1>1. 0 \in 0 .. MaxCommands
  BY BibsAssumption
<1>2. TypeOK
  BY <1>1, NothingCited DEF Init, TypeOK
<1>3. \A p \in Procs : ~Loaded(p) /\ ~Listing(p) /\ ~Saving(p) /\ at[p] = "idle"
  BY DEF Init, Loaded, Listing, Saving
<1>4. InHand /\ ListStands
  BY <1>1, <1>3, Kinds DEF Init, InHand, ListStands
<1>5. AllDistinct
  BY <1>3, NothingCited DEF Init, AllDistinct, Distinct
<1>6. SavesStand
  BY <1>3, NothingCited DEF Init, SavesStand, Reported, Keeps, Explains
<1>7. QED
  BY <1>2, <1>4, <1>5, <1>6 DEF Inductive

LEMMA StutterStep ==
  ASSUME Inductive, UNCHANGED vars
  PROVE  Inductive'
<1>1. UNCHANGED bibliography /\ UNCHANGED list /\ UNCHANGED <<commands, at>>
  BY DEF vars, bibliography, list
<1>2. TypeOK'
  BY <1>1 DEF Inductive, TypeOK, bibliography, list
<1>3. /\ AllDistinct' /\ SavesStand'
      /\ \A p \in Procs : Loaded(p)' => mem'[p] \in Records
  BY <1>1, BibStays
<1>4. commands' \in Nat /\ commands <= commands'
  BY <1>1, BibsAssumption DEF Inductive, TypeOK
<1>5. InHand' /\ ListStands'
  BY <1>1, <1>3, <1>4, ListStays DEF InHand
<1>6. QED
  BY <1>2, <1>3, <1>5 DEF Inductive

LEMMA InductiveKept == Inductive /\ [Next]_vars => Inductive'
<1> SUFFICES ASSUME Inductive, [Next]_vars PROVE Inductive'
  OBVIOUS
<1>1. CASE UNCHANGED vars
  BY <1>1, StutterStep
<1>2. ASSUME NEW p \in Procs, load(p) PROVE Inductive'
  BY <1>2, LoadStep
<1>3. ASSUME NEW p \in Procs, bib_build(p) PROVE Inductive'
  BY <1>3, BuildStep
<1>4. ASSUME NEW p \in Procs, NEW d \in Docs, add(p, d) PROVE Inductive'
  BY <1>4, AddStep
<1>5. ASSUME NEW p \in Procs, EmptyRecord(p) PROVE Inductive'
  BY <1>5, EmptyRecordStep
<1>6. ASSUME NEW p \in Procs, WriteRecord(p) PROVE Inductive'
  BY <1>6, WriteRecordStep
<1>7. ASSUME NEW p \in Procs, EmptyBib(p) PROVE Inductive'
  BY <1>7, EmptyBibStep
<1>8. ASSUME NEW p \in Procs, WriteBib(p) PROVE Inductive'
  BY <1>8, WriteBibStep
<1>9. ASSUME NEW p \in Procs, from_agent(p) PROVE Inductive'
  BY <1>9, FromAgentStep
<1>10. ASSUME NEW p \in Procs, mark(p) PROVE Inductive'
  BY <1>10, MarkStep
<1>11. ASSUME NEW p \in Procs, Stage(p) \/ Staged(p) PROVE Inductive'
  BY <1>11, StagingSteps
<1>12. ASSUME NEW p \in Procs, replace(p) PROVE Inductive'
  BY <1>12, ReplaceStep
<1>13. ASSUME NEW p \in Procs, End(p) PROVE Inductive'
  BY <1>13, EndStep
<1>14. CASE Edit
  BY <1>14, EditStep
<1>15. CASE Mend
  BY <1>15, MendStep
<1>16. QED
  BY <1>1, <1>2, <1>3, <1>4, <1>5, <1>6, <1>7, <1>8, <1>9, <1>10, <1>11, <1>12, <1>13,
     <1>14, <1>15 DEF Next

(* What is in the files and in every command's hands fits together at every  *)
(* moment (bib.py:178-262, reading.py:148-299).                              *)
THEOREM Invariance == Spec => []Inductive
<1>1. QED
  BY StartsSo, InductiveKept, PTL DEF Spec

(* Every file and every command's copy is a record, a list, or nothing       *)
(* (bib.py:178-262, reading.py:148-178).                                     *)
THEOREM TypeCorrect == Spec => []TypeOK
<1>1. Inductive => TypeOK
  BY DEF Inductive
<1>2. QED
  BY <1>1, Invariance, PTL

(* A reading list that is being replaced, or whose replacement was cut       *)
(* short, is still a whole one (reading.py:155-167).                         *)
THEOREM TheListIsWhole == Spec => []NoHalfWrittenList
<1>1. Inductive => NoHalfWrittenList
  BY DEF Inductive, ListStands, NoHalfWrittenList
<1>2. QED
  BY <1>1, Invariance, PTL

(* Unless two saves of it overlapped, the list is the one an agent saved     *)
(* last with the reader's marks on it, though any number of commands have    *)
(* listed and marked meanwhile (reading.py:12-15, 284-299).                  *)
THEOREM NothingUndoesAMark == Spec => []RankingsAndMarksStand
<1>1. Inductive => RankingsAndMarksStand
  BY DEF Inductive, ListStands, RankingsAndMarksStand
<1>2. QED
  BY <1>1, Invariance, PTL

(* No two citations of the record have one key, however many documents ask   *)
(* for the same; and what a command said of a citation stays true of it      *)
(* unless two saves overlapped or one was cut short (bib.py:167-177).        *)
THEOREM KeysAreKept == Spec => []KeysStand
<1>1. Inductive => KeysStand
  BY DEF Inductive, AllDistinct, SavesStand, Distinct, Reported, KeysStand
<1>2. QED
  BY <1>1, Invariance, PTL

(* With the same exceptions the .bib is never ahead of the record it is      *)
(* generated from (bib.py:251-256).                                          *)
THEOREM TheBibIsNeverAhead == Spec => []TheRecordExplainsTheBib
<1>1. Inductive => TheRecordExplainsTheBib
  BY DEF Inductive, SavesStand, Explains, TheRecordExplainsTheBib
<1>2. QED
  BY <1>1, Invariance, PTL

=============================================================================
