---------------------------- MODULE FilingProofs ----------------------------
(* Proofs about the library's operations, for any files, contents, ids,      *)
(* categories and titles: their types, that rows have their documents, that  *)
(* links lead to documents, that a rebuild links every document once; and,   *)
(* where waiting files do not change under a running pass, that no bytes are *)
(* lost, that hashes are current and that a pass files only what is new.     *)
EXTENDS Filing, FiniteSetTheorems, TLAPS

----------------------------------------------------------------------------
(* What every step knows.                                                    *)

PassSteps == {"candidates", "known", "label", "place", "record"} \cup PlaceStep

(* Which operation is at which step, and what it has in memory before it has *)
(* read or placed anything.                                                  *)
Phases ==
  /\ op = "none" <=> at = "idle"
  /\ op = "tree" => at = "link"
  /\ op = "scan" => at \in {"stat", "hash", "rewrite"}
  /\ at \in {"stat", "hash", "rewrite"} => op \in {"pass", "scan"}
  /\ at \in PassSteps => op = "pass"
  /\ at \in {"idle", "candidates", "known", "label"} => papers = {}
  /\ at # "link" => taken = {}

(* A store folder is of an id that was handed out, and an id has one folder. *)
Owned ==
  /\ Documents \subseteq minted
  /\ \A p \in papers : p.id \in minted
  /\ \A f \in Folders : store[f] # None => f[1] \in minted
  /\ \A f, g \in Folders :
       f[1] = g[1] /\ store[f] # None /\ store[g] # None => f = g

(* rescan: what was read is the table, what is hashed could be read.         *)
Scanning ==
  /\ at = "stat" => papers = {AsPaper(i) : i \in Documents}
  /\ at \in {"hash", "rewrite"} =>
       \A p \in papers : /\ p.id \in Documents
                         /\ DocumentDir(p) = Home(p.id)
                         /\ Readable(Home(p.id))
                         /\ p.stat \in Files

(* What the folder holds of the document that is being placed.               *)
Arriving(p, c) ==
  CASE at = "copy"    -> store[DocumentDir(p)] = Empty
    [] at = "copying" -> store[DocumentDir(p)] = Torn
    [] at = "copied"  -> store[DocumentDir(p)] = c[2]
    [] OTHER          -> Readable(DocumentDir(p))

(* place_file: documents placed have their files and no rows yet, and at     *)
(* most one is on its way.                                                   *)
Placed ==
  /\ at \in PlaceStep \cup {"place", "record"} =>
       /\ \A p \in papers : p.id \notin Documents
       /\ \A p, r \in papers : p.id = r.id => p = r
       /\ \A p \in papers \ Placing : Readable(DocumentDir(p))
  /\ at \in {"place", "record"} => Placing = {}
  /\ at \in PlaceStep =>
       \E p \in papers, c \in Paths \X Contents :
         Placing = {p} /\ found = {c} /\ Arriving(p, c)

(* What is to be linked is recorded where it lies.                           *)
Linking ==
  at = "link" =>
    \A p \in papers : /\ p.id \in Documents
                      /\ DocumentDir(p) = Home(p.id)
                      /\ store[Home(p.id)] # None

NoLinkTo(i) == \A q \in Places : tree[q] # None => tree[q][1] # i

(* retag, between the link that is gone and the row that is written.         *)
Retagging ==
  at \in {"rename", "set"} =>
    \E p \in Paper :
      /\ papers = {p} /\ p.id \in Documents /\ NoLinkTo(p.id)
      /\ at = "rename" => /\ store[Home(p.id)] # None
                          /\ \/ p.tag = rows[p.id].tag
                             \/ store[DocumentDir(p)] = None
      /\ at = "set" => /\ store[DocumentDir(p)] # None
                       /\ Readable(DocumentDir(p)) \/ p.id \in hurt

(* remove, between the link that is gone and the row that is deleted.        *)
Removing ==
  at \in {"rmtree", "delete"} =>
    \E p \in Paper :
      /\ papers = {p} /\ p.id \in Documents /\ NoLinkTo(p.id)
      /\ DocumentDir(p) = Home(p.id)

Inductive ==
  /\ TypeOK /\ Phases /\ Owned
  /\ Scanning /\ Placed /\ Linking /\ Retagging /\ Removing
  /\ RowsAreBacked /\ LinksAreTrue

----------------------------------------------------------------------------
(* rebuild_tree: every link so far is of a document that is done, under one  *)
(* of its own two names; every document with a file is to do, linked, or     *)
(* out of names.                                                             *)
NamesOf(i) == {Wanted(AsPaper(i)), Decorated(AsPaper(i))}

Rebuilding ==
  op = "tree" =>
    /\ papers \subseteq {AsPaper(i) : i \in Documents}
    /\ \A q \in Places : tree[q] # None =>
         \E i \in Documents : /\ tree[q] = Home(i) /\ q \in NamesOf(i)
                              /\ AsPaper(i) \notin papers
    /\ taken = {q \in Places : tree[q] # None}
    /\ \A q, r \in Places : tree[q] # None /\ tree[q] = tree[r] => q = r
    /\ \A i \in Documents : Readable(Home(i)) =>
         \/ AsPaper(i) \in papers
         \/ \E q \in Places : tree[q] = Home(i)
         \/ Decorated(AsPaper(i)) \in Litter

----------------------------------------------------------------------------
(* Where waiting files do not change under a pass: what is read of a file    *)
(* twice is the same twice.                                                  *)
Unreplaced ==
  /\ at \in {"known", "label"} => \A c \in found : input[c[1]] = c[2]
  /\ at \in PlaceStep \cup {"place"} =>
       \A d \in drafts : /\ input[d.path] = d.hash
                         /\ \A e \in drafts : d.path = e.path => d = e
  /\ at \in PlaceStep =>
       /\ \A c \in found, d \in drafts : c[1] # d.path
       /\ \A c \in found, p \in Placing :
            /\ p.hash = c[2]
            /\ at # "stored" => input[c[1]] = c[2]
            /\ at = "stored" => store[DocumentDir(p)] = c[2]
  /\ at \in PlaceStep \cup {"place", "record"} =>
       \A p \in papers \ Placing : p.stat = p.hash /\ p.hash = store[DocumentDir(p)]

(* The size and mtime of a row are of no later version than its hash, and    *)
(* that of no later than the file.                                           *)
InOrder(r, f) == Readable(f) => r.stat <= r.hash /\ r.hash <= store[f]

Ordered ==
  /\ \A i \in Documents : InOrder(rows[i], Home(i))
  /\ at = "hash" => \A p \in papers : p.stat <= store[Home(p.id)]
  /\ at = "rewrite" => \A p \in papers : InOrder(p, Home(p.id))
  /\ at = "set" => \A p \in papers : InOrder(rows[p.id], DocumentDir(p))

(* rescan: a document nobody touched since still has what it had, and is     *)
(* looked at unless its row is right.                                        *)
Reconciled ==
  at \in {"stat", "hash", "rewrite"} \cup PassSteps =>
    \A i \in Documents : steady[i] \in Files =>
      /\ at \in {"stat", "hash", "rewrite", "candidates", "known"} =>
           store[Home(i)] = steady[i]
      /\ at \in {"hash", "rewrite"} =>
           rows[i].hash = steady[i] \/ \E p \in papers : p.id = i
      /\ at = "rewrite" => \A p \in papers : p.id = i => p.hash = steady[i]
      /\ at \in PassSteps => rows[i].hash = steady[i]

(* What goes on through the pass is in no row.                               *)
New ==
  \A i \in Documents :
    /\ at = "label" => \A c \in found : c[2] # rows[i].hash
    /\ at \in PlaceStep \cup {"place"} => \A d \in drafts : d.hash # rows[i].hash
    /\ at \in PlaceStep \cup {"place", "record"} =>
         \A p \in papers : p.hash # rows[i].hash

Faithful == Unreplaced /\ Ordered /\ Reconciled /\ New

----------------------------------------------------------------------------
(* Lemmas about rows, papers and folders.                                    *)

(* A document that is placed or read from its row lies in a folder.          *)
LEMMA PaperDirs ==
  ASSUME NEW p \in Paper
  PROVE  /\ DocumentDir(p) \in Folders
         /\ DocumentDir(p)[1] = p.id /\ DocumentDir(p)[2] = p.tag
  BY DEF Paper, DocumentDir, Folders

(* A row makes a paper of the same folder.                                   *)
LEMMA RowPapers ==
  ASSUME TypeOK, NEW i \in Documents
  PROVE  /\ i \in Ids /\ rows[i] \in Row
         /\ AsPaper(i) \in Paper /\ AsPaper(i).id = i
         /\ AsPaper(i).hash = rows[i].hash /\ AsPaper(i).stat = rows[i].stat
         /\ AsPaper(i).tag = rows[i].tag /\ AsPaper(i).stat \in Files
         /\ DocumentDir(AsPaper(i)) = Home(i)
         /\ Home(i) \in Folders /\ Home(i)[1] = i /\ Home(i)[2] = rows[i].tag
<1>1. i \in Ids /\ rows[i] \in Row
  BY DEF TypeOK, Documents
<1>2. QED
  BY <1>1 DEF Row, AsPaper, Paper, DocumentDir, Home, Folders

(* A paper makes a row, and a row is not None.                               *)
LEMMA PaperRows ==
  ASSUME NEW p \in Paper, p.stat # None
  PROVE  /\ AsRow(p) \in Row /\ AsRow(p) # None
         /\ AsRow(p).tag = p.tag /\ AsRow(p).hash = p.hash /\ AsRow(p).stat = p.stat
  BY NoneIsNothing DEF Paper, Row, AsRow

(* Contents are files, and neither is Empty nor None.                        *)
LEMMA FileKinds ==
  /\ Contents \subseteq Files /\ Torn \in Files
  /\ Empty \notin Files /\ None \notin Files /\ None # Empty
  /\ \A f \in Folders : f # None
  /\ \A r \in Row : r # None
  BY FilingAssumption, NoneIsNothing DEF Files, Empty, Torn

(* Links are true while disk, rows and tree stay.                            *)
LEMMA LinksStay ==
  ASSUME LinksAreTrue, UNCHANGED <<store, rows, tree>>
  PROVE  LinksAreTrue'
  BY DEF LinksAreTrue, Documents, Home

(* Folders keep their owners while disk and rows stay.                       *)
LEMMA OwnersStay ==
  ASSUME Owned, UNCHANGED <<store, rows, minted>>, \A p \in papers' : p.id \in minted
  PROVE  Owned'
  BY DEF Owned, Documents

(* Rows are backed while disk and rows stay, and no retag or removal is on.  *)
LEMMA BackingStays ==
  ASSUME RowsAreBacked, UNCHANGED <<store, rows>>, hurt \subseteq hurt',
         at \notin {"set", "delete"}
  PROVE  RowsAreBacked'
  BY DEF RowsAreBacked, Documents, Home, Readable

(* An empty library has every part of the invariant.                         *)
LEMMA InitInductive == Init => Inductive
<1> SUFFICES ASSUME Init PROVE Inductive
  OBVIOUS
<1>1. Documents = {} /\ \A f \in Folders : store[f] = None
  BY DEF Init, Documents
<1>2. TypeOK
  BY FileKinds DEF Init, TypeOK, Steps
<1>3. Phases
  BY DEF Init, Phases, PassSteps, PlaceStep
<1>4. Owned /\ RowsAreBacked /\ LinksAreTrue
  BY <1>1 DEF Init, Owned, RowsAreBacked, LinksAreTrue
<1>5. Scanning /\ Placed /\ Linking /\ Retagging /\ Removing
  BY DEF Init, Scanning, Placed, Linking, Retagging, Removing, PlaceStep
<1>6. QED
  BY <1>2, <1>3, <1>4, <1>5 DEF Inductive

(* The end of an operation that left disk, rows and links as they were.      *)
LEMMA IdleStep ==
  ASSUME Inductive, Done, at \notin {"set", "delete"},
         UNCHANGED <<input, store, rows, tree, minted, hurt, steady>>
  PROVE  Inductive'
<1>1. TypeOK'
  BY DEF Inductive, Done, TypeOK, Steps
<1>2. (Phases /\ Scanning /\ Placed /\ Linking /\ Retagging /\ Removing)'
  BY DEF Done, Phases, PassSteps, PlaceStep, Scanning, Placed, Linking, Retagging, Removing
<1>3. Owned' /\ RowsAreBacked' /\ LinksAreTrue'
  BY OwnersStay, BackingStays, LinksStay DEF Inductive, Done
<1>4. QED
  BY <1>1, <1>2, <1>3 DEF Inductive

----------------------------------------------------------------------------
(* rescan.                                                                   *)

LEMMA RescanReadStep ==
  ASSUME Inductive, RescanRead("pass") \/ RescanRead("scan")
  PROVE  Inductive'
<1> USE DEF RescanRead, Begin, disk
<1>1. /\ op = "none" /\ at = "idle" /\ taken = {} /\ at' = "stat"
      /\ op' \in {"pass", "scan"}
      /\ papers' = {AsPaper(i) : i \in Documents}
      /\ steady' = [i \in Ids |-> IF i \in Documents THEN store[Home(i)] ELSE None]
      /\ UNCHANGED <<input, store, rows, tree, minted, found, drafts, taken, hurt>>
  BY DEF Inductive, Phases
<1>2. TypeOK'
  <2>1. papers' \subseteq Paper
    BY <1>1, RowPapers DEF Inductive
  <2>2. steady' \in [Ids -> Files \cup {Empty, None}]
    BY <1>1, RowPapers DEF Inductive, TypeOK
  <2>3. QED
    BY <1>1, <2>1, <2>2 DEF Inductive, TypeOK, Steps
<1>3. Phases'
  BY <1>1 DEF Phases, PassSteps, PlaceStep
<1>4. Owned'
  BY <1>1, OwnersStay, RowPapers DEF Inductive, Owned
<1>5. Scanning'
  BY <1>1 DEF Scanning, AsPaper, Documents
<1>6. (Placed /\ Linking /\ Retagging /\ Removing)'
  BY <1>1 DEF Placed, Linking, Retagging, Removing, PlaceStep
<1>7. RowsAreBacked' /\ LinksAreTrue'
  BY <1>1, BackingStays, LinksStay DEF Inductive
<1>8. QED
  BY <1>2, <1>3, <1>4, <1>5, <1>6, <1>7 DEF Inductive

LEMMA RescanStatStep ==
  ASSUME Inductive, RescanStat
  PROVE  Inductive'
<1> USE DEF RescanStat, Step, disk, ghosts
<1>1. /\ at = "stat" /\ at' = "hash"
      /\ UNCHANGED <<op, input, store, rows, tree, minted, found, drafts, taken, hurt, steady>>
  OBVIOUS
<1>2. \A r \in papers' :
        /\ r \in Paper /\ r.id \in Documents /\ DocumentDir(r) = Home(r.id)
        /\ Readable(Home(r.id)) /\ r.stat \in Files
  <2> TAKE r \in papers'
  <2>1. PICK p \in papers : /\ Readable(DocumentDir(p))
                            /\ r = [p EXCEPT !.stat = store[DocumentDir(p)]]
    OBVIOUS
  <2>2. PICK i \in Documents : p = AsPaper(i)
    BY <1>1, <2>1 DEF Inductive, Scanning
  <2>3. p \in Paper /\ p.id = i /\ DocumentDir(p) = Home(i) /\ store[Home(i)] \in Files
    BY <2>1, <2>2, RowPapers DEF Inductive, Readable
  <2>4. r \in Paper /\ r.id = i /\ r.tag = p.tag /\ r.stat = store[Home(i)]
    BY <2>1, <2>3 DEF Paper
  <2>5. QED
    BY <2>1, <2>2, <2>3, <2>4 DEF DocumentDir
<1>3. TypeOK'
  BY <1>1, <1>2 DEF Inductive, TypeOK, Steps
<1>4. Phases'
  BY <1>1 DEF Inductive, Phases, PassSteps, PlaceStep
<1>5. Owned'
  BY <1>1, <1>2, OwnersStay DEF Inductive, Owned
<1>6. Scanning'
  BY <1>1, <1>2 DEF Scanning, Documents, Home, Readable
<1>7. (Placed /\ Linking /\ Retagging /\ Removing)'
  BY <1>1 DEF Placed, Linking, Retagging, Removing, PlaceStep
<1>8. RowsAreBacked' /\ LinksAreTrue'
  BY <1>1, BackingStays, LinksStay DEF Inductive
<1>9. QED
  BY <1>3, <1>4, <1>5, <1>6, <1>7, <1>8 DEF Inductive

LEMMA RescanHashStep ==
  ASSUME Inductive, RescanHash
  PROVE  Inductive'
<1> USE DEF RescanHash, Step, disk, ghosts
<1>1. /\ at = "hash" /\ at' = "rewrite"
      /\ UNCHANGED <<op, input, store, rows, tree, minted, found, drafts, taken, hurt, steady>>
  OBVIOUS
<1>2. \A r \in papers' :
        /\ r \in Paper /\ r.id \in Documents /\ DocumentDir(r) = Home(r.id)
        /\ Readable(Home(r.id)) /\ r.stat \in Files
  <2> TAKE r \in papers'
  <2>1. PICK p \in papers : r = [p EXCEPT !.hash = store[DocumentDir(p)]]
    OBVIOUS
  <2>2. /\ p \in Paper /\ p.id \in Documents /\ DocumentDir(p) = Home(p.id)
        /\ store[DocumentDir(p)] \in Files /\ p.stat \in Files
    BY <1>1 DEF Inductive, TypeOK, Scanning, Readable
  <2>3. /\ r \in Paper /\ r.id = p.id /\ r.tag = p.tag /\ r.stat = p.stat
    BY <2>1, <2>2 DEF Paper
  <2>4. QED
    BY <2>2, <2>3 DEF DocumentDir, Readable
<1>3. TypeOK'
  BY <1>1, <1>2 DEF Inductive, TypeOK, Steps
<1>4. Phases'
  BY <1>1 DEF Inductive, Phases, PassSteps, PlaceStep
<1>5. Owned'
  BY <1>1, <1>2, OwnersStay DEF Inductive, Owned
<1>6. Scanning'
  BY <1>1, <1>2 DEF Scanning, Documents, Home, Readable
<1>7. (Placed /\ Linking /\ Retagging /\ Removing)'
  BY <1>1 DEF Placed, Linking, Retagging, Removing, PlaceStep
<1>8. RowsAreBacked' /\ LinksAreTrue'
  BY <1>1, BackingStays, LinksStay DEF Inductive
<1>9. QED
  BY <1>3, <1>4, <1>5, <1>6, <1>7, <1>8 DEF Inductive

(* Whether the rows are written or not, rescan gives way to nothing or to    *)
(* the pass.                                                                 *)
LEMMA RescanOverSteps ==
  ASSUME Inductive, at \in {"stat", "hash", "rewrite"}, RescanOver
  PROVE  /\ op' \in {"none", "pass"} /\ at' \in {"idle", "candidates"}
         /\ op' = "none" <=> at' = "idle"
         /\ papers' = {} /\ taken' = {}
         /\ found' \subseteq found /\ drafts' \subseteq drafts
         /\ (Phases /\ Scanning /\ Placed /\ Linking /\ Retagging /\ Removing)'
<1>1. /\ op' \in {"none", "pass"} /\ at' \in {"idle", "candidates"}
      /\ op' = "none" <=> at' = "idle"
      /\ papers' = {} /\ taken' = {}
      /\ found' \subseteq found /\ drafts' \subseteq drafts
  BY DEF Inductive, Phases, RescanOver, Done
<1>2. QED
  BY <1>1 DEF Phases, PassSteps, PlaceStep, Scanning, Placed, Linking, Retagging, Removing

(* What rescan writes of a row is its hash, size and mtime.                  *)
LEMMA RescannedRows ==
  ASSUME Inductive, RescanWrite
  PROVE  /\ rows' \in [Ids -> Row \cup {None}]
         /\ Documents' = Documents
         /\ \A i \in Documents :
              /\ rows'[i].tag = rows[i].tag /\ Home(i)' = Home(i)
              /\ \/ rows'[i] = rows[i] /\ \A p \in papers : p.id # i
                 \/ \E p \in papers : /\ p.id = i
                                      /\ rows'[i].hash = p.hash
                                      /\ rows'[i].stat = p.stat
<1> USE DEF RescanWrite
<1>1. at = "rewrite" /\ TypeOK
  BY DEF Inductive
<1>2. \A i \in Ids \ Documents : rows'[i] = None
  OBVIOUS
<1>3. ASSUME NEW i \in Documents
      PROVE  /\ rows'[i] \in Row /\ rows'[i].tag = rows[i].tag
             /\ \/ rows'[i] = rows[i] /\ \A p \in papers : p.id # i
                \/ \E p \in papers : /\ p.id = i
                                     /\ rows'[i].hash = p.hash
                                     /\ rows'[i].stat = p.stat
  <2>0. i \in Ids /\ rows[i] \in Row
    BY <1>1, <1>3, RowPapers
  <2>1. CASE \A p \in papers : p.id # i
    BY <2>0, <2>1
  <2>2. CASE \E p \in papers : p.id = i
    <3> DEFINE p == CHOOSE p \in papers : p.id = i
    <3>1. p \in papers /\ p.id = i
      BY <2>2
    <3>2. rows'[i] = [rows[i] EXCEPT !.hash = p.hash, !.stat = p.stat]
      BY <2>0, <2>2
    <3>3. p.hash \in Files /\ p.stat \in Files
      BY <1>1, <3>1 DEF Inductive, Scanning, TypeOK, Paper
    <3> HIDE DEF p
    <3>4. QED
      BY <2>0, <3>1, <3>2, <3>3 DEF Row
  <2>3. QED
    BY <2>1, <2>2
<1>4. rows' \in [Ids -> Row \cup {None}]
  BY <1>2, <1>3
<1>5. Documents' = Documents
  <2>1. \A i \in Documents : rows'[i] # None
    BY <1>3, FileKinds
  <2>2. \A i \in Ids : i \in Documents <=> rows'[i] # None
    BY <1>2, <2>1
  <2>3. QED
    BY <2>2 DEF Documents
<1>6. QED
  BY <1>3, <1>4, <1>5 DEF Home

LEMMA RescanWriteStep ==
  ASSUME Inductive, RescanWrite
  PROVE  Inductive'
<1>1. /\ at = "rewrite" /\ TypeOK /\ RescanOver
      /\ UNCHANGED <<input, store, tree, minted, hurt, steady>>
  BY DEF Inductive, RescanWrite, disk, ghosts
<1>2. /\ op' \in {"none", "pass"} /\ at' \in {"idle", "candidates"}
      /\ papers' = {} /\ taken' = {}
      /\ found' \subseteq found /\ drafts' \subseteq drafts
      /\ (Phases /\ Scanning /\ Placed /\ Linking /\ Retagging /\ Removing)'
  BY <1>1, RescanOverSteps
<1>3. /\ rows' \in [Ids -> Row \cup {None}] /\ Documents' = Documents
      /\ \A i \in Documents : Home(i)' = Home(i)
  BY RescannedRows
<1>4. TypeOK'
  BY <1>1, <1>2, <1>3 DEF TypeOK, Steps
<1>5. Owned'
  BY <1>1, <1>2, <1>3 DEF Inductive, Owned
<1>6. RowsAreBacked'
  <2> SUFFICES ASSUME NEW i \in Documents
               PROVE  Readable(Home(i)) \/ i \in hurt => (Readable(Home(i)) \/ i \in hurt)'
    BY <1>1, <1>3 DEF Inductive, RowsAreBacked
  <2> QED
    BY <1>1, <1>3 DEF Readable
<1>7. LinksAreTrue'
  BY <1>1, <1>3 DEF Inductive, LinksAreTrue
<1>8. QED
  BY <1>2, <1>4, <1>5, <1>6, <1>7 DEF Inductive

LEMMA RescanFailsStep ==
  ASSUME Inductive, RescanFails
  PROVE  Inductive'
<1> USE DEF RescanFails, disk
<1>1. /\ at \in {"stat", "hash", "rewrite"} /\ TypeOK
      /\ UNCHANGED <<input, store, rows, tree, minted, hurt>>
      /\ steady' = [i \in Ids |-> None]
  BY DEF Inductive
<1>2. /\ op' \in {"none", "pass"} /\ at' \in {"idle", "candidates"}
      /\ papers' = {} /\ taken' = {}
      /\ found' \subseteq found /\ drafts' \subseteq drafts
      /\ (Phases /\ Scanning /\ Placed /\ Linking /\ Retagging /\ Removing)'
  BY <1>1, RescanOverSteps
<1>3. TypeOK'
  BY <1>1, <1>2 DEF TypeOK, Steps
<1>4. Owned' /\ RowsAreBacked' /\ LinksAreTrue'
  BY <1>1, <1>2, OwnersStay, BackingStays, LinksStay DEF Inductive
<1>5. QED
  BY <1>2, <1>3, <1>4 DEF Inductive

----------------------------------------------------------------------------
(* A pass, up to its labels: it only remembers.                              *)

LEMMA HashCandidatesStep ==
  ASSUME Inductive, HashCandidates
  PROVE  Inductive'
<1> USE DEF HashCandidates, Step, disk, ghosts
<1>1. /\ at = "candidates" /\ at' = "known" /\ TypeOK
      /\ UNCHANGED <<op, input, store, rows, tree, minted, drafts, papers, taken, hurt, steady>>
  BY DEF Inductive
<1>2. TypeOK'
  BY <1>1 DEF TypeOK, Steps
<1>3. (Phases /\ Scanning /\ Placed /\ Linking /\ Retagging /\ Removing)'
  BY <1>1 DEF Inductive, Phases, PassSteps, PlaceStep, Scanning, Placed, Linking,
              Retagging, Removing
<1>4. Owned' /\ RowsAreBacked' /\ LinksAreTrue'
  BY <1>1, OwnersStay, BackingStays, LinksStay DEF Inductive, Owned
<1>5. QED
  BY <1>2, <1>3, <1>4 DEF Inductive

LEMMA ReadBurstStep ==
  ASSUME Inductive, ReadBurst
  PROVE  Inductive'
<1> USE DEF ReadBurst, Step, disk, ghosts
<1>1. /\ at = "known" /\ at' = "label" /\ TypeOK
      /\ UNCHANGED <<op, input, store, rows, tree, minted, drafts, papers, taken, hurt, steady>>
  BY DEF Inductive
<1>2. TypeOK'
  BY <1>1 DEF TypeOK, Steps
<1>3. (Phases /\ Scanning /\ Placed /\ Linking /\ Retagging /\ Removing)'
  BY <1>1 DEF Inductive, Phases, PassSteps, PlaceStep, Scanning, Placed, Linking,
              Retagging, Removing
<1>4. Owned' /\ RowsAreBacked' /\ LinksAreTrue'
  BY <1>1, OwnersStay, BackingStays, LinksStay DEF Inductive, Owned
<1>5. QED
  BY <1>2, <1>3, <1>4 DEF Inductive

(* A draft is of a candidate, under the labels of some content.              *)
LEMMA DraftsOfCandidates ==
  ASSUME TypeOK, Label
  PROVE  \A d \in drafts' :
           /\ d \in [path : Paths, hash : Contents, title : Titles, tag : Tags]
           /\ <<d.path, d.hash>> \in found
           /\ \A e \in drafts' : d.path = e.path /\ d.hash = e.hash => d = e
<1>1. PICK read \in Extracted : \E bought \in Answers(read) :
        drafts' = {[path |-> c[1], hash |-> c[2], title |-> TitleOf[bought[c[2]]],
                    tag |-> TagOf[bought[c[2]]]] : c \in read}
  BY DEF Label
<1>2. PICK bought \in Answers(read) :
        drafts' = {[path |-> c[1], hash |-> c[2], title |-> TitleOf[bought[c[2]]],
                    tag |-> TagOf[bought[c[2]]]] : c \in read}
  BY <1>1
<1>3. /\ read \subseteq found /\ found \subseteq Paths \X Contents
      /\ bought \in [{c[2] : c \in read} -> Contents]
  BY DEF Extracted, Answers, TypeOK
<1>4. ASSUME NEW c \in read
      PROVE  /\ c[1] \in Paths /\ c[2] \in Contents /\ c = <<c[1], c[2]>>
             /\ bought[c[2]] \in Contents
  BY <1>3
<1>5. \A x \in Contents : TitleOf[x] \in Titles /\ TagOf[x] \in Tags
  BY FilingAssumption
<1>6. QED
  BY <1>2, <1>3, <1>4, <1>5

LEMMA LabelStep ==
  ASSUME Inductive, Label
  PROVE  Inductive'
<1>1. /\ at = "label" /\ at' = "place" /\ TypeOK /\ found' = {}
      /\ UNCHANGED <<op, input, store, rows, tree, minted, papers, taken, hurt, steady>>
      /\ papers = {}
  BY DEF Inductive, Label, Step, disk, ghosts, Phases
<1>2. drafts' \subseteq [path : Paths, hash : Contents, title : Titles, tag : Tags]
  BY <1>1, DraftsOfCandidates
<1>3. TypeOK'
  BY <1>1, <1>2 DEF TypeOK, Steps
<1>4. (Phases /\ Scanning /\ Placed /\ Linking /\ Retagging /\ Removing)'
  BY <1>1 DEF Inductive, Phases, PassSteps, PlaceStep, Scanning, Placed, Placing, Linking,
              Retagging, Removing
<1>5. Owned' /\ RowsAreBacked' /\ LinksAreTrue'
  BY <1>1, OwnersStay, BackingStays, LinksStay DEF Inductive, Owned
<1>6. QED
  BY <1>3, <1>4, <1>5 DEF Inductive

----------------------------------------------------------------------------
(* place_file.                                                               *)

(* A folder that is no document's changes nothing for rows and links.        *)
LEMMA OtherFolders ==
  ASSUME Inductive, at \notin {"set", "delete"},
         NEW f \in Folders, f[1] \notin Documents,
         NEW x \in Files \cup {Empty}, store' = [store EXCEPT ![f] = x],
         UNCHANGED <<rows, tree, hurt>>
  PROVE  RowsAreBacked' /\ LinksAreTrue'
<1>1. /\ TypeOK /\ Documents' = Documents
      /\ \A i \in Documents : Home(i)' = Home(i)
  BY DEF Inductive, Documents, Home
<1>2. \A g \in Folders : store'[g] = IF g = f THEN x ELSE store[g]
  BY <1>1 DEF TypeOK
<1>3. \A i \in Documents : Home(i) \in Folders /\ Home(i) # f
  BY <1>1, RowPapers
<1>4. RowsAreBacked'
  <2> SUFFICES ASSUME NEW i \in Documents
               PROVE  Readable(Home(i)) \/ i \in hurt => (Readable(Home(i)) \/ i \in hurt)'
    BY <1>1 DEF Inductive, RowsAreBacked
  <2> QED
    BY <1>1, <1>2, <1>3 DEF Readable
<1>5. LinksAreTrue'
  <2> SUFFICES ASSUME NEW q \in Places, tree[q] # None
               PROVE  store'[tree[q]] # None
    BY <1>1 DEF Inductive, LinksAreTrue
  <2>1. PICK i \in Documents : Home(i) = tree[q]
    BY DEF Inductive, LinksAreTrue
  <2>2. store[tree[q]] # None
    BY DEF Inductive, LinksAreTrue
  <2> QED
    BY <1>2, <1>3, <2>1, <2>2
<1>6. QED
  BY <1>4, <1>5

(* Whatever a folder that is there holds, its owner is the same.             *)
LEMMA OwnersKeep ==
  ASSUME TypeOK, Owned, NEW f \in Folders, store[f] # None,
         NEW x \in Files \cup {Empty}, store' = [store EXCEPT ![f] = x],
         UNCHANGED <<rows, minted>>, \A p \in papers' : p.id \in minted
  PROVE  Owned'
<1>1. \A g \in Folders : store'[g] # None <=> store[g] # None
  BY FileKinds DEF TypeOK
<1>2. QED
  BY <1>1 DEF Owned, Documents

LEMMA PlaceMkdirStep ==
  ASSUME Inductive, PlaceMkdir
  PROVE  Inductive'
<1>1. PICK i \in Ids \ minted, d \in drafts :
        /\ minted' = minted \cup {i}
        /\ store' = [store EXCEPT ![DocumentDir(Described(i, d))] = Empty]
        /\ papers' = papers \cup {Described(i, d)}
        /\ found' = {<<d.path, d.hash>>}
        /\ drafts' = drafts \ {d}
  BY DEF PlaceMkdir
<1>2. /\ at = "place" /\ at' = "copy" /\ TypeOK
      /\ UNCHANGED <<op, input, rows, tree, taken, hurt, steady>>
  BY DEF Inductive, PlaceMkdir, Step, ghosts
<1> DEFINE p == Described(i, d)
           c == <<d.path, d.hash>>
           f == DocumentDir(p)
<1>3. /\ p \in Paper /\ p.id = i /\ p.stat = None
      /\ c \in Paths \X Contents
      /\ f \in Folders /\ f[1] = i
  <2>1. d \in [path : Paths, hash : Contents, title : Titles, tag : Tags]
    BY <1>2 DEF TypeOK
  <2>2. p \in Paper /\ p.id = i /\ p.stat = None
    BY <2>1, FileKinds DEF Described, Paper
  <2>3. QED
    BY <2>1, <2>2, PaperDirs
<1> HIDE DEF p, c, f
<1>4. store' = [store EXCEPT ![f] = Empty] /\ papers' = papers \cup {p} /\ found' = {c}
  BY <1>1 DEF p, c, f
<1>5. \A g \in Folders : store'[g] = IF g = f THEN Empty ELSE store[g]
  BY <1>2, <1>4 DEF TypeOK
<1>6. i \notin Documents /\ Documents' = Documents
  BY <1>1, <1>2 DEF Inductive, Owned, Documents
<1>7. \A r \in papers : /\ r \in Paper /\ r.id \in minted /\ r.id # i /\ r.stat # None
                        /\ r.id \notin Documents /\ Readable(DocumentDir(r))
                        /\ DocumentDir(r) \in Folders /\ DocumentDir(r) # f
  BY <1>1, <1>2, <1>3, PaperDirs DEF Inductive, Owned, Placed, Placing, PlaceStep, TypeOK
<1>8. TypeOK'
  BY <1>1, <1>2, <1>3, <1>4, <1>5 DEF TypeOK, Steps
<1>9. Phases'
  BY <1>2 DEF Inductive, Phases, PassSteps, PlaceStep
<1>10. Owned'
  <2>1. \A g \in Folders : g[1] = i => store[g] = None
    BY <1>1, <1>2 DEF Inductive, Owned
  <2>2. \A g \in Folders : store'[g] # None => g[1] \in minted' /\ (g[1] = i => g = f)
    BY <1>1, <1>2, <1>3, <1>5, <2>1 DEF Inductive, Owned
  <2>3. \A g, h \in Folders :
          g[1] = h[1] /\ store'[g] # None /\ store'[h] # None => g = h
    <3> SUFFICES ASSUME NEW g \in Folders, NEW h \in Folders, g[1] = h[1],
                        store'[g] # None, store'[h] # None
                 PROVE  g = h
      OBVIOUS
    <3>1. CASE g[1] = i
      BY <2>2, <3>1
    <3>2. CASE g[1] # i
      BY <1>3, <1>5, <3>2 DEF Inductive, Owned
    <3>3. QED
      BY <3>1, <3>2
  <2>4. Documents' \subseteq minted' /\ \A r \in papers' : r.id \in minted'
    BY <1>1, <1>3, <1>4, <1>6, <1>7 DEF Inductive, Owned
  <2>5. QED
    BY <2>2, <2>3, <2>4 DEF Owned
<1>11. Placed'
  <2>1. Placing' = {p}
    BY <1>3, <1>4, <1>7 DEF Placing
  <2>2. \A r \in papers' : r.id \notin Documents'
    BY <1>3, <1>4, <1>6, <1>7
  <2>3. \A r, s \in papers' : r.id = s.id => r = s
    BY <1>2, <1>3, <1>4, <1>7 DEF Inductive, Placed
  <2>4. \A r \in papers : Readable(DocumentDir(r))'
    BY <1>5, <1>7 DEF Readable, DocumentDir
  <2>5. Arriving(p, c)'
    BY <1>2, <1>3, <1>5 DEF Arriving, f, DocumentDir
  <2>6. \A r \in papers' \ Placing' : Readable(DocumentDir(r))'
    BY <1>4, <2>1, <2>4
  <2>7. QED
    BY <1>2, <1>3, <1>4, <2>1, <2>2, <2>3, <2>6, <2>5 DEF Placed, PlaceStep
<1>12. (Scanning /\ Linking /\ Retagging /\ Removing)'
  BY <1>2 DEF Scanning, Linking, Retagging, Removing
<1>13. RowsAreBacked' /\ LinksAreTrue'
  BY <1>2, <1>3, <1>4, <1>6, OtherFolders
<1>14. QED
  BY <1>8, <1>9, <1>10, <1>11, <1>12, <1>13 DEF Inductive

(* The document on its way, and those that have arrived.                     *)
LEMMA OnItsWay ==
  ASSUME Inductive, at \in PlaceStep
  PROVE  \E p \in papers, c \in Paths \X Contents :
           /\ Placing = {p} /\ found = {c} /\ Arriving(p, c)
           /\ p \in Paper /\ p.stat = None /\ p.id \notin Documents
           /\ DocumentDir(p) \in Folders /\ DocumentDir(p)[1] = p.id
           /\ store[DocumentDir(p)] # None
           /\ \A r \in papers \ {p} :
                /\ r \in Paper /\ r.stat # None /\ r.id # p.id /\ r.id \notin Documents
                /\ DocumentDir(r) \in Folders /\ DocumentDir(r) # DocumentDir(p)
                /\ Readable(DocumentDir(r))
<1>1. PICK p \in papers, c \in Paths \X Contents :
        Placing = {p} /\ found = {c} /\ Arriving(p, c)
  BY DEF Inductive, Placed
<1>2. p \in Paper /\ p.stat = None /\ p.id \notin Documents
  BY <1>1 DEF Inductive, TypeOK, Placed, Placing
<1>3. DocumentDir(p) \in Folders /\ DocumentDir(p)[1] = p.id
  BY <1>2, PaperDirs
<1>4. store[DocumentDir(p)] # None
  BY <1>1, FileKinds DEF Arriving, PlaceStep, Readable
<1>5. ASSUME NEW r \in papers \ {p}
      PROVE  /\ r \in Paper /\ r.stat # None /\ r.id # p.id /\ r.id \notin Documents
             /\ DocumentDir(r) \in Folders /\ DocumentDir(r) # DocumentDir(p)
             /\ Readable(DocumentDir(r))
  <2>1. r \in Paper /\ r.stat # None /\ r.id # p.id /\ r.id \notin Documents
    BY <1>1 DEF Inductive, TypeOK, Placed, Placing
  <2>2. Readable(DocumentDir(r))
    BY <1>1 DEF Inductive, Placed
  <2>3. QED
    BY <1>3, <2>1, <2>2, PaperDirs
<1>6. QED
  BY <1>1, <1>2, <1>3, <1>4, <1>5

(* One more step of its file on the way to its folder.                       *)
LEMMA FileArrives ==
  ASSUME Inductive, at \in PlaceStep, at' \in PlaceStep,
         NEW p \in papers, Placing = {p}, NEW c \in Paths \X Contents,
         UNCHANGED <<op, rows, tree, minted, drafts, papers, taken, hurt, steady>>,
         input' \in [Paths -> Contents \cup {None}], found' = {c},
         NEW x \in Files \cup {Empty}, store' = [store EXCEPT ![DocumentDir(p)] = x],
         Arriving(p, c)'
  PROVE  Inductive'
<1>1. /\ p \in Paper /\ p.id \notin Documents
      /\ DocumentDir(p) \in Folders /\ DocumentDir(p)[1] = p.id
      /\ store[DocumentDir(p)] # None
      /\ \A r \in papers \ {p} :
           /\ r.id \notin Documents /\ DocumentDir(r) \in Folders
           /\ DocumentDir(r) # DocumentDir(p) /\ Readable(DocumentDir(r))
  BY OnItsWay
<1>2. /\ TypeOK /\ Documents' = Documents /\ Placing' = Placing
      /\ \A r \in papers : DocumentDir(r)' = DocumentDir(r)
  BY DEF Inductive, Documents, Placing, DocumentDir
<1>3. \A g \in Folders : store'[g] = IF g = DocumentDir(p) THEN x ELSE store[g]
  BY <1>2 DEF TypeOK
<1>4. TypeOK'
  BY <1>2, <1>3 DEF TypeOK, Steps, PlaceStep
<1>5. Phases'
  BY DEF Inductive, Phases, PassSteps, PlaceStep
<1>6. Owned'
  BY <1>1, <1>2, OwnersKeep DEF Inductive, Owned
<1>7. Placed'
  <2>1. \A r \in papers' \ Placing' : Readable(DocumentDir(r))'
    BY <1>1, <1>2, <1>3 DEF Readable
  <2>2. \A r, s \in papers' : r.id = s.id => r = s
    BY DEF Inductive, Placed
  <2>3. \A r \in papers' : r.id \notin Documents'
    BY <1>1, <1>2
  <2>4. QED
    BY <1>2, <2>1, <2>2, <2>3 DEF Placed, PlaceStep
<1>8. (Scanning /\ Linking /\ Retagging /\ Removing)'
  BY DEF Scanning, Linking, Retagging, Removing, PlaceStep
<1>9. RowsAreBacked' /\ LinksAreTrue'
  BY <1>1, <1>2, OtherFolders DEF PlaceStep
<1>10. QED
  BY <1>4, <1>5, <1>6, <1>7, <1>8, <1>9 DEF Inductive

LEMMA CopyBeginStep ==
  ASSUME Inductive, CopyBegin
  PROVE  Inductive'
<1>1. /\ at = "copy" /\ at' = "copying" /\ TypeOK
      /\ UNCHANGED <<op, input, rows, tree, minted, drafts, papers, taken, hurt, steady>>
  BY DEF Inductive, CopyBegin, Step, ghosts
<1>2. PICK p \in Placing, c \in found :
        /\ input[c[1]] # None
        /\ store' = [store EXCEPT ![DocumentDir(p)] = Torn]
        /\ found' = {<<c[1], input[c[1]]>>}
  BY DEF CopyBegin
<1>3. /\ p \in papers /\ Placing = {p} /\ c \in Paths \X Contents
      /\ DocumentDir(p) \in Folders
  BY <1>1, <1>2, OnItsWay DEF PlaceStep
<1>4. <<c[1], input[c[1]]>> \in Paths \X Contents
  BY <1>1, <1>2, <1>3 DEF TypeOK
<1>5. Arriving(p, <<c[1], input[c[1]]>>)'
  BY <1>1, <1>2, <1>3 DEF Arriving, DocumentDir, TypeOK
<1>6. QED
  BY <1>1, <1>2, <1>3, <1>4, <1>5, FileArrives, FileKinds DEF PlaceStep, TypeOK

LEMMA CopyEndStep ==
  ASSUME Inductive, CopyEnd
  PROVE  Inductive'
<1>1. /\ at = "copying" /\ at' = "copied" /\ TypeOK
      /\ UNCHANGED <<op, input, rows, tree, minted, found, drafts, papers, taken, hurt, steady>>
  BY DEF Inductive, CopyEnd, Step, ghosts, memory
<1>2. PICK p \in Placing, c \in found : store' = [store EXCEPT ![DocumentDir(p)] = c[2]]
  BY DEF CopyEnd
<1>3. /\ p \in papers /\ Placing = {p} /\ found = {c} /\ c \in Paths \X Contents
      /\ DocumentDir(p) \in Folders
  BY <1>1, <1>2, OnItsWay DEF PlaceStep
<1>4. c[2] \in Files
  BY <1>3, FileKinds
<1>5. Arriving(p, c)'
  BY <1>1, <1>2, <1>3 DEF Arriving, DocumentDir, TypeOK
<1>6. QED
  BY <1>1, <1>2, <1>3, <1>4, <1>5, FileArrives DEF PlaceStep, TypeOK

LEMMA MoveAtOnceStep ==
  ASSUME Inductive, MoveAtOnce
  PROVE  Inductive'
<1>1. /\ at = "copy" /\ at' = "stored" /\ TypeOK
      /\ UNCHANGED <<op, rows, tree, minted, found, drafts, papers, taken, hurt, steady>>
  BY DEF Inductive, MoveAtOnce, Step, ghosts, memory
<1>2. PICK p \in Placing, c \in found :
        /\ input[c[1]] # None
        /\ store' = [store EXCEPT ![DocumentDir(p)] = input[c[1]]]
        /\ input' = [input EXCEPT ![c[1]] = None]
  BY DEF MoveAtOnce
<1>3. /\ p \in papers /\ Placing = {p} /\ found = {c} /\ c \in Paths \X Contents
      /\ DocumentDir(p) \in Folders
  BY <1>1, <1>2, OnItsWay DEF PlaceStep
<1>4. input[c[1]] \in Files /\ input' \in [Paths -> Contents \cup {None}]
  BY <1>1, <1>2, <1>3, FileKinds DEF TypeOK
<1>5. Arriving(p, c)'
  BY <1>1, <1>2, <1>3, <1>4 DEF Arriving, DocumentDir, TypeOK, Readable
<1>6. QED
  BY <1>1, <1>2, <1>3, <1>4, <1>5, FileArrives DEF PlaceStep

LEMMA MoveUnlinkStep ==
  ASSUME Inductive, MoveUnlink
  PROVE  Inductive'
<1>1. /\ at = "copied" /\ at' = "stored" /\ TypeOK
      /\ UNCHANGED <<op, store, rows, tree, minted, found, drafts, papers, taken, hurt, steady>>
      /\ \E c \in found : input' = [input EXCEPT ![c[1]] = None]
  BY DEF Inductive, MoveUnlink, Step, ghosts, memory
<1>2. PICK p \in papers, c \in Paths \X Contents :
        /\ Placing = {p} /\ found = {c} /\ Arriving(p, c)
        /\ DocumentDir(p) \in Folders
  BY <1>1, OnItsWay DEF PlaceStep
<1>3. input' \in [Paths -> Contents \cup {None}]
  BY <1>1, <1>2 DEF TypeOK
<1>4. /\ c[2] \in Files /\ store[DocumentDir(p)] = c[2]
      /\ store' = [store EXCEPT ![DocumentDir(p)] = c[2]]
  BY <1>1, <1>2, FileKinds DEF Arriving, TypeOK
<1>5. Arriving(p, c)'
  BY <1>1, <1>4 DEF Arriving, DocumentDir, Readable
<1>6. QED
  BY <1>1, <1>2, <1>3, <1>4, <1>5, FileArrives DEF PlaceStep

(* The document arrives, or is given up: either way none is on its way.      *)
LEMMA NoneOnItsWay ==
  ASSUME Inductive, at \in PlaceStep \cup {"place"}, at' \in {"place", "record"}, found' \subseteq found,
         UNCHANGED <<op, input, store, rows, tree, minted, taken, hurt, steady>>,
         drafts' \subseteq drafts,
         \A r \in papers' : /\ r \in Paper /\ r.stat # None /\ Readable(DocumentDir(r))
                            /\ \E p \in papers : p.id = r.id,
         \A r, s \in papers' : r.id = s.id => r = s
  PROVE  Inductive'
<1>1. /\ TypeOK /\ Documents' = Documents /\ Placing' = {}
      /\ \A r \in papers' : Readable(DocumentDir(r))'
  BY DEF Inductive, Documents, Placing, Readable, DocumentDir
<1>2. TypeOK'
  BY <1>1 DEF TypeOK, Steps
<1>3. Phases'
  BY DEF Inductive, Phases, PassSteps, PlaceStep
<1>4. \A r \in papers' : r.id \in minted /\ r.id \notin Documents
  BY DEF Inductive, Owned, Placed
<1>5. Owned'
  BY <1>4, OwnersStay DEF Inductive
<1>6. Placed'
  BY <1>1, <1>4 DEF Placed, PlaceStep
<1>7. (Scanning /\ Linking /\ Retagging /\ Removing)'
  BY DEF Scanning, Linking, Retagging, Removing
<1>8. RowsAreBacked' /\ LinksAreTrue'
  BY BackingStays, LinksStay DEF Inductive, PlaceStep
<1>9. QED
  BY <1>2, <1>3, <1>5, <1>6, <1>7, <1>8 DEF Inductive

LEMMA CopyStatStep ==
  ASSUME Inductive, CopyStat
  PROVE  Inductive'
<1>1. /\ at \in {"copied", "stored"} /\ at' = "place" /\ found' = {}
      /\ papers' = {[p EXCEPT !.stat = IF p \in Placing THEN store[DocumentDir(p)]
                                       ELSE p.stat] : p \in papers}
      /\ UNCHANGED <<op, input, store, rows, tree, minted, drafts, taken, hurt, steady>>
  BY DEF CopyStat, Step, ghosts, disk
<1>2. PICK p \in papers, c \in Paths \X Contents :
        /\ Placing = {p} /\ found = {c} /\ Arriving(p, c)
        /\ p \in Paper
        /\ \A r \in papers \ {p} : /\ r \in Paper /\ r.stat # None
                                   /\ Readable(DocumentDir(r))
  BY <1>1, OnItsWay DEF PlaceStep
<1>3. store[DocumentDir(p)] \in Files
  BY <1>1, <1>2, FileKinds DEF Arriving, Readable
<1>4. ASSUME NEW r \in papers'
      PROVE  /\ r \in Paper /\ r.stat # None /\ Readable(DocumentDir(r))
             /\ \E s \in papers : s.id = r.id
                  /\ r = [s EXCEPT !.stat = IF s \in Placing THEN store[DocumentDir(s)]
                                            ELSE s.stat]
  <2>1. PICK s \in papers :
          r = [s EXCEPT !.stat = IF s \in Placing THEN store[DocumentDir(s)] ELSE s.stat]
    BY <1>1
  <2>2. s \in Paper /\ Readable(DocumentDir(s))
    BY <1>2, <1>3 DEF Readable
  <2>3. /\ r.id = s.id /\ r.tag = s.tag /\ r \in Paper /\ r.stat # None
    BY <1>2, <1>3, <2>1, <2>2, FileKinds DEF Paper
  <2>4. QED
    BY <2>1, <2>2, <2>3 DEF DocumentDir
<1>5. \A r, s \in papers' : r.id = s.id => r = s
  BY <1>1, <1>4 DEF Inductive, Placed, PlaceStep
<1>6. QED
  BY <1>1, <1>4, <1>5, NoneOnItsWay DEF PlaceStep

LEMMA PlaceFailsStep ==
  ASSUME Inductive, PlaceFails
  PROVE  Inductive'
<1>1. /\ at \in PlaceStep /\ at' = "place" /\ found' = {} /\ papers' = papers \ Placing
      /\ UNCHANGED <<op, input, store, rows, tree, minted, drafts, taken, hurt, steady>>
  BY DEF PlaceFails, ghosts, disk
<1>2. \A r \in papers' : r \in Paper /\ r.stat # None /\ Readable(DocumentDir(r))
  BY <1>1, OnItsWay
<1>3. \A r, s \in papers' : r.id = s.id => r = s
  BY <1>1 DEF Inductive, Placed
<1>4. QED
  BY <1>1, <1>2, <1>3, NoneOnItsWay

LEMMA PlacedAllStep ==
  ASSUME Inductive, PlacedAll
  PROVE  Inductive'
<1>1. /\ at = "place" /\ at' = "record" /\ drafts' = {}
      /\ UNCHANGED <<op, input, store, rows, tree, minted, found, papers, taken, hurt, steady>>
  BY DEF PlacedAll, Step, ghosts, disk
<1>2. \A r \in papers : r \in Paper /\ r.stat # None /\ Readable(DocumentDir(r))
  BY <1>1 DEF Inductive, TypeOK, Placed, Placing
<1>3. \A r, s \in papers' : r.id = s.id => r = s
  BY <1>1 DEF Inductive, Placed
<1>4. QED
  BY <1>1, <1>2, <1>3, NoneOnItsWay

(* The rows recorded are those of the documents placed.                      *)
LEMMA RecordedRows ==
  ASSUME Inductive, Record
  PROVE  /\ rows' \in [Ids -> Row \cup {None}]
         /\ Documents' = Documents \cup {p.id : p \in papers}
         /\ \A i \in Documents : rows'[i] = rows[i] /\ Home(i)' = Home(i)
         /\ \A p \in papers : /\ p.id \in Ids \ Documents
                              /\ rows'[p.id] = AsRow(p)
                              /\ Home(p.id)' = DocumentDir(p)
                              /\ Readable(DocumentDir(p))
<1>1. /\ at = "record" /\ TypeOK
      /\ rows' = [i \in Ids |-> IF \E p \in papers : p.id = i
                                THEN AsRow(CHOOSE p \in papers : p.id = i)
                                ELSE rows[i]]
  BY DEF Inductive, Record, Step
<1>2. \A p \in papers : /\ p \in Paper /\ p.stat # None /\ p.id \in Ids \ Documents
                        /\ Readable(DocumentDir(p))
                        /\ \A r \in papers : p.id = r.id => p = r
  BY <1>1 DEF Inductive, TypeOK, Placed, Placing, Paper
<1>3. ASSUME NEW p \in papers
      PROVE  rows'[p.id] = AsRow(p) /\ AsRow(p) \in Row /\ AsRow(p).tag = p.tag
  <2>1. (CHOOSE r \in papers : r.id = p.id) = p
    BY <1>2
  <2>2. QED
    BY <1>1, <1>2, <2>1, PaperRows
<1>4. \A i \in Ids : (\A p \in papers : p.id # i) => rows'[i] = rows[i]
  BY <1>1
<1>5. rows' \in [Ids -> Row \cup {None}]
  <2>1. \A i \in Ids : rows'[i] \in Row \cup {None}
    BY <1>1, <1>3, <1>4 DEF TypeOK
  <2>2. QED
    BY <1>1, <2>1
<1>6. \A i \in Documents : rows'[i] = rows[i]
  BY <1>2, <1>4 DEF Documents
<1>7. Documents' = Documents \cup {p.id : p \in papers}
  <2>1. \A i \in Ids : rows'[i] # None <=> i \in Documents \/ \E p \in papers : p.id = i
    BY <1>3, <1>4, FileKinds DEF Documents
  <2>2. QED
    BY <1>2, <2>1 DEF Documents
<1>8. QED
  BY <1>2, <1>3, <1>5, <1>6, <1>7 DEF Home, DocumentDir

LEMMA RecordStep ==
  ASSUME Inductive, Record
  PROVE  Inductive'
<1>1. /\ at = "record" /\ at' = "link" /\ TypeOK
      /\ UNCHANGED <<op, input, store, tree, minted, found, drafts, papers, taken, hurt, steady>>
  BY DEF Inductive, Record, Step, memory, ghosts, disk
<1>2. /\ rows' \in [Ids -> Row \cup {None}]
      /\ Documents' = Documents \cup {p.id : p \in papers}
      /\ \A i \in Documents : Home(i)' = Home(i)
      /\ \A p \in papers : Home(p.id)' = DocumentDir(p) /\ Readable(DocumentDir(p))
  BY RecordedRows
<1>3. TypeOK'
  BY <1>1, <1>2 DEF TypeOK, Steps
<1>4. Phases'
  BY <1>1 DEF Inductive, Phases, PassSteps, PlaceStep
<1>5. Owned'
  BY <1>1, <1>2 DEF Inductive, Owned
<1>6. Linking'
  BY <1>1, <1>2, FileKinds DEF Linking, Readable, DocumentDir
<1>7. (Scanning /\ Placed /\ Retagging /\ Removing)'
  BY <1>1 DEF Scanning, Placed, Retagging, Removing, PlaceStep
<1>8. RowsAreBacked'
  <2> SUFFICES ASSUME NEW i \in Documents' PROVE (Readable(Home(i)) \/ i \in hurt)'
    BY DEF RowsAreBacked
  <2>1. CASE i \in Documents
    BY <1>1, <1>2, <2>1 DEF Inductive, RowsAreBacked, Readable
  <2>2. CASE i \in {p.id : p \in papers}
    BY <1>1, <1>2, <2>2 DEF Readable
  <2>3. QED
    BY <1>2, <2>1, <2>2
<1>9. LinksAreTrue'
  BY <1>1, <1>2 DEF Inductive, LinksAreTrue
<1>10. QED
  BY <1>3, <1>4, <1>5, <1>6, <1>7, <1>8, <1>9 DEF Inductive

----------------------------------------------------------------------------
(* Links.                                                                    *)

(* _link gives the document one of its two names, or none.                   *)
LEMMA LinkNames ==
  ASSUME TypeOK, NEW p \in Paper, LinkPaper(p)
  PROVE  \/ /\ UNCHANGED <<tree, taken>>
            /\ Decorated(p) \in Litter
         \/ \E q \in {Wanted(p), Decorated(p)} :
              /\ q \in Places /\ q[1] = p.tag
              /\ tree' = [tree EXCEPT ![q] = DocumentDir(p)]
              /\ taken' = taken \cup {q}
              /\ q \in taken => q = Decorated(p)
<1>1. /\ Wanted(p) \in Places /\ Wanted(p)[1] = p.tag
      /\ Decorated(p) \in Places /\ Decorated(p)[1] = p.tag
  BY DEF Paper, Wanted, Decorated, Places
<1>2. QED
  BY <1>1 DEF LinkPaper, LinkPath

LEMMA LinkStep ==
  ASSUME Inductive, Link
  PROVE  Inductive'
<1>1. at = "link" /\ TypeOK /\ UNCHANGED <<input, store, rows, minted, hurt, steady>>
  BY DEF Inductive, Link, disk, ghosts
<1>2. ASSUME NEW p \in papers, LinkPaper(p), papers' = papers \ {p},
             UNCHANGED <<op, at, found, drafts>>
      PROVE  Inductive'
  <2>1. /\ p \in Paper /\ p.id \in Documents /\ DocumentDir(p) = Home(p.id)
        /\ store[Home(p.id)] # None
        /\ DocumentDir(p) \in Folders /\ DocumentDir(p)[2] = p.tag
    BY <1>1, PaperDirs DEF Inductive, TypeOK, Linking
  <2>2. /\ Documents' = Documents /\ \A i \in Documents : Home(i)' = Home(i)
        /\ \A r \in papers : DocumentDir(r)' = DocumentDir(r)
    BY <1>1 DEF Documents, Home, DocumentDir
  <2>3. /\ tree' \in [Places -> Folders \cup {None}] /\ taken' \subseteq Places
        /\ \A q \in Places : \/ tree'[q] = tree[q]
                             \/ tree'[q] = DocumentDir(p) /\ q[1] = p.tag
    BY <1>1, <1>2, <2>1, LinkNames DEF TypeOK
  <2>4. TypeOK'
    BY <1>1, <1>2, <2>3 DEF TypeOK, Steps
  <2>5. Phases'
    BY <1>1, <1>2 DEF Inductive, Phases, PassSteps, PlaceStep
  <2>6. Owned' /\ RowsAreBacked'
    BY <1>1, <1>2, OwnersStay, BackingStays DEF Inductive, Owned
  <2>7. Linking'
    BY <1>1, <1>2, <2>2 DEF Inductive, Linking
  <2>8. (Scanning /\ Placed /\ Retagging /\ Removing)'
    BY <1>1, <1>2 DEF Scanning, Placed, Retagging, Removing, PlaceStep
  <2>9. LinksAreTrue'
    BY <1>1, <2>1, <2>2, <2>3 DEF Inductive, LinksAreTrue
  <2>10. QED
    BY <2>4, <2>5, <2>6, <2>7, <2>8, <2>9 DEF Inductive
<1>3. ASSUME Done, UNCHANGED tree PROVE Inductive'
  BY <1>1, <1>3, IdleStep
<1>4. QED
  BY <1>2, <1>3 DEF Link

----------------------------------------------------------------------------
(* retag.                                                                    *)

(* _unlink leaves no link to the document's folder, and touches no other.    *)
LEMMA UnlinkedLinks ==
  ASSUME Inductive, NEW i \in Documents, tree' = Unlinked(AsPaper(i)),
         UNCHANGED <<store, rows>>
  PROVE  /\ tree' \in [Places -> Folders \cup {None}]
         /\ LinksAreTrue' /\ NoLinkTo(i)'
<1>1. /\ TypeOK /\ LinksAreTrue
      /\ DocumentDir(AsPaper(i)) = Home(i) /\ AsPaper(i).tag = rows[i].tag
      /\ Home(i)[1] = i /\ Home(i)[2] = rows[i].tag
  BY RowPapers DEF Inductive
<1>2. tree' = [q \in Places |-> IF q[1] = rows[i].tag /\ tree[q] = Home(i) THEN None
                                ELSE tree[q]]
  BY <1>1 DEF Unlinked
<1>3. tree' \in [Places -> Folders \cup {None}]
  BY <1>1, <1>2 DEF TypeOK
<1>4. \A q \in Places : tree'[q] # None =>
        tree'[q] = tree[q] /\ ~(q[1] = rows[i].tag /\ tree[q] = Home(i))
  BY <1>2
<1>5. Documents' = Documents /\ \A j \in Documents : Home(j)' = Home(j)
  BY DEF Documents, Home
<1>6. LinksAreTrue'
  BY <1>1, <1>4, <1>5 DEF LinksAreTrue
<1>7. NoLinkTo(i)'
  <2> SUFFICES ASSUME NEW q \in Places, tree'[q] # None, tree'[q][1] = i
               PROVE  FALSE
    BY DEF NoLinkTo
  <2>1. PICK j \in Documents : Home(j) = tree[q] /\ tree[q][2] = q[1]
    BY <1>1, <1>4 DEF LinksAreTrue
  <2>2. j = i
    BY <1>1, <1>4, <2>1, RowPapers
  <2>3. QED
    BY <1>1, <1>4, <2>1, <2>2
<1>8. QED
  BY <1>3, <1>6, <1>7

LEMMA RetagUnlinkStep ==
  ASSUME Inductive, RetagUnlink
  PROVE  Inductive'
<1>1. /\ op = "none" /\ at = "idle" /\ taken = {} /\ TypeOK
      /\ op' = "retag" /\ at' = "rename"
      /\ UNCHANGED <<input, store, rows, minted, found, drafts, taken, hurt, steady>>
  BY DEF Inductive, Phases, RetagUnlink, Begin, disk, ghosts
<1>2. PICK i \in Documents, t \in Tags :
        /\ store[Home(i)] # None
        /\ t # rows[i].tag => store[<<i, t>>] = None
        /\ tree' = Unlinked(AsPaper(i))
        /\ papers' = {[AsPaper(i) EXCEPT !.tag = t]}
  BY DEF RetagUnlink
<1> DEFINE p == [AsPaper(i) EXCEPT !.tag = t]
<1>3. /\ p \in Paper /\ p.id = i /\ p.tag = t
      /\ papers' = {p} /\ DocumentDir(p) = <<i, t>>
  BY <1>1, <1>2, RowPapers DEF Paper, DocumentDir
<1> HIDE DEF p
<1>4. /\ tree' \in [Places -> Folders \cup {None}]
      /\ LinksAreTrue' /\ NoLinkTo(i)'
  BY <1>1, <1>2, UnlinkedLinks
<1>5. TypeOK'
  BY <1>1, <1>3, <1>4 DEF TypeOK, Steps
<1>6. Phases'
  BY <1>1 DEF Phases, PassSteps, PlaceStep
<1>7. i \in minted /\ Owned'
  BY <1>1, <1>3, OwnersStay DEF Inductive, Owned
<1>8. Retagging'
  BY <1>1, <1>2, <1>3, <1>4 DEF Retagging, Documents, Home, DocumentDir
<1>9. (Scanning /\ Placed /\ Linking /\ Removing)'
  BY <1>1 DEF Scanning, Placed, Linking, Removing, PlaceStep
<1>10. RowsAreBacked'
  BY <1>1, BackingStays DEF Inductive
<1>11. QED
  BY <1>4, <1>5, <1>6, <1>7, <1>8, <1>9, <1>10 DEF Inductive

(* The document being retagged or removed, and where it lies.                *)
LEMMA Retagged ==
  ASSUME Inductive, at \in {"rename", "set"}
  PROVE  \E p \in Paper :
           /\ papers = {p} /\ p.id \in Documents /\ NoLinkTo(p.id)
           /\ DocumentDir(p) \in Folders /\ DocumentDir(p)[1] = p.id
           /\ Home(p.id) \in Folders /\ Home(p.id)[1] = p.id
           /\ at = "rename" => /\ store[Home(p.id)] # None
                               /\ \/ DocumentDir(p) = Home(p.id)
                                  \/ store[DocumentDir(p)] = None
                               /\ Readable(Home(p.id)) \/ p.id \in hurt
           /\ at = "set" => /\ store[DocumentDir(p)] # None
                            /\ Readable(DocumentDir(p)) \/ p.id \in hurt
<1>1. PICK p \in Paper :
        /\ papers = {p} /\ p.id \in Documents /\ NoLinkTo(p.id)
        /\ at = "rename" => /\ store[Home(p.id)] # None
                            /\ p.tag = rows[p.id].tag \/ store[DocumentDir(p)] = None
        /\ at = "set" => /\ store[DocumentDir(p)] # None
                         /\ Readable(DocumentDir(p)) \/ p.id \in hurt
  BY DEF Inductive, Retagging
<1>2. /\ DocumentDir(p) \in Folders /\ DocumentDir(p)[1] = p.id
      /\ Home(p.id) \in Folders /\ Home(p.id)[1] = p.id
  BY <1>1, PaperDirs, RowPapers DEF Inductive
<1>3. p.tag = rows[p.id].tag => DocumentDir(p) = Home(p.id)
  BY DEF DocumentDir, Home
<1>4. at = "rename" => Readable(Home(p.id)) \/ p.id \in hurt
  BY <1>1 DEF Inductive, RowsAreBacked
<1>5. QED
  BY <1>1, <1>2, <1>3, <1>4

LEMMA RetagRenameStep ==
  ASSUME Inductive, RetagRename
  PROVE  Inductive'
<1>1. /\ at = "rename" /\ at' = "set" /\ TypeOK
      /\ UNCHANGED <<op, input, rows, tree, minted, found, drafts, papers, taken, hurt, steady>>
  BY DEF Inductive, RetagRename, Step, memory, ghosts
<1>2. PICK p \in Paper :
        /\ papers = {p} /\ p.id \in Documents /\ NoLinkTo(p.id)
        /\ DocumentDir(p) \in Folders /\ DocumentDir(p)[1] = p.id
        /\ Home(p.id) \in Folders /\ Home(p.id)[1] = p.id
        /\ store[Home(p.id)] # None
        /\ DocumentDir(p) = Home(p.id) \/ store[DocumentDir(p)] = None
        /\ Readable(Home(p.id)) \/ p.id \in hurt
  BY <1>1, Retagged
<1>3. store' = [f \in Folders |-> IF f = DocumentDir(p) THEN store[Home(p.id)]
                                  ELSE IF f = Home(p.id) THEN None
                                  ELSE store[f]]
  BY <1>2 DEF RetagRename
<1>4. /\ Documents' = Documents /\ \A i \in Documents : Home(i)' = Home(i)
      /\ DocumentDir(p)' = DocumentDir(p)
  BY <1>1 DEF Documents, Home, DocumentDir
<1>5. TypeOK'
  BY <1>1, <1>2, <1>3 DEF TypeOK, Steps
<1>6. Phases'
  BY <1>1 DEF Inductive, Phases, PassSteps, PlaceStep
<1>7. \A f \in Folders : /\ f[1] # p.id => store'[f] = store[f]
                         /\ f[1] = p.id /\ f # DocumentDir(p) => store'[f] = None
  BY <1>2, <1>3 DEF Inductive, Owned
<1>8. Owned'
  <2>1. p.id \in minted
    BY <1>2 DEF Inductive, Owned
  <2>2. \A f \in Folders : store'[f] # None => f[1] \in minted
    BY <1>7, <2>1 DEF Inductive, Owned
  <2>3. \A f, g \in Folders :
          f[1] = g[1] /\ store'[f] # None /\ store'[g] # None => f = g
    <3> SUFFICES ASSUME NEW f \in Folders, NEW g \in Folders, f[1] = g[1],
                        store'[f] # None, store'[g] # None
                 PROVE  f = g
      OBVIOUS
    <3>1. CASE f[1] = p.id
      BY <1>7, <3>1
    <3>2. CASE f[1] # p.id
      BY <1>7, <3>2 DEF Inductive, Owned
    <3>3. QED
      BY <3>1, <3>2
  <2>4. QED
    BY <1>1, <1>4, <2>2, <2>3 DEF Inductive, Owned
<1>9. Retagging'
  <2>1. store'[DocumentDir(p)] = store[Home(p.id)]
    BY <1>2, <1>3
  <2>2. NoLinkTo(p.id)'
    BY <1>1, <1>2 DEF NoLinkTo
  <2>3. (Readable(DocumentDir(p)) \/ p.id \in hurt)'
    BY <1>1, <1>2, <1>4, <2>1 DEF Readable
  <2>4. QED
    BY <1>1, <1>2, <1>4, <2>1, <2>2, <2>3 DEF Retagging
<1>10. (Scanning /\ Placed /\ Linking /\ Removing)'
  BY <1>1 DEF Scanning, Placed, Linking, Removing, PlaceStep
<1>11. RowsAreBacked'
  <2> SUFFICES ASSUME NEW i \in Documents, i # p.id
               PROVE  Readable(Home(i)) \/ i \in hurt => (Readable(Home(i)) \/ i \in hurt)'
    BY <1>1, <1>2, <1>4 DEF Inductive, RowsAreBacked
  <2>1. Home(i) \in Folders /\ Home(i)[1] = i
    BY <1>1, RowPapers
  <2>2. QED
    BY <1>1, <1>4, <1>7, <2>1 DEF Readable
<1>12. LinksAreTrue'
  <2> SUFFICES ASSUME NEW q \in Places, tree[q] # None
               PROVE  store'[tree[q]] # None
    BY <1>1, <1>4 DEF Inductive, LinksAreTrue
  <2>1. /\ tree[q] \in Folders /\ tree[q][1] # p.id /\ store[tree[q]] # None
    BY <1>1, <1>2 DEF Inductive, TypeOK, NoLinkTo, LinksAreTrue
  <2>2. QED
    BY <1>7, <2>1
<1>13. QED
  BY <1>5, <1>6, <1>8, <1>9, <1>10, <1>11, <1>12 DEF Inductive

LEMMA RetagSetStep ==
  ASSUME Inductive, RetagSet
  PROVE  Inductive'
<1>1. /\ at = "set" /\ at' = "link" /\ TypeOK
      /\ UNCHANGED <<op, input, store, tree, minted, found, drafts, papers, taken, hurt, steady>>
  BY DEF Inductive, RetagSet, Step, memory, ghosts, disk
<1>2. PICK p \in Paper :
        /\ papers = {p} /\ p.id \in Documents /\ NoLinkTo(p.id)
        /\ store[DocumentDir(p)] # None
        /\ Readable(DocumentDir(p)) \/ p.id \in hurt
  BY <1>1, Retagged
<1>3. rows' = [rows EXCEPT ![p.id].tag = p.tag]
  BY <1>2 DEF RetagSet
<1>4. /\ p.id \in Ids /\ rows[p.id] \in Row
  BY <1>1, <1>2, RowPapers
<1>5. /\ rows'[p.id] = [rows[p.id] EXCEPT !.tag = p.tag]
      /\ rows'[p.id] \in Row /\ rows'[p.id].tag = p.tag
      /\ \A i \in Ids : i # p.id => rows'[i] = rows[i]
  BY <1>1, <1>3, <1>4 DEF TypeOK, Row, Paper
<1>6. rows' \in [Ids -> Row \cup {None}]
  BY <1>1, <1>3, <1>5 DEF TypeOK
<1>7. Documents' = Documents
  BY <1>2, <1>4, <1>5, FileKinds DEF Documents
<1>8. /\ \A i \in Documents : i # p.id => Home(i)' = Home(i)
      /\ Home(p.id)' = DocumentDir(p)
      /\ DocumentDir(p)' = DocumentDir(p)
  BY <1>5 DEF Home, DocumentDir, Documents
<1>9. TypeOK'
  BY <1>1, <1>6 DEF TypeOK, Steps
<1>10. Phases'
  BY <1>1 DEF Inductive, Phases, PassSteps, PlaceStep
<1>11. Owned'
  BY <1>1, <1>7 DEF Inductive, Owned
<1>12. Linking'
  BY <1>1, <1>2, <1>7, <1>8 DEF Linking
<1>13. (Scanning /\ Placed /\ Retagging /\ Removing)'
  BY <1>1 DEF Scanning, Placed, Retagging, Removing, PlaceStep
<1>14. RowsAreBacked'
  <2> SUFFICES ASSUME NEW i \in Documents PROVE (Readable(Home(i)) \/ i \in hurt)'
    BY <1>7 DEF RowsAreBacked
  <2>1. CASE i = p.id
    BY <1>1, <1>2, <1>8, <2>1 DEF Readable
  <2>2. CASE i # p.id
    <3>1. Readable(Home(i)) \/ i \in hurt
      BY <1>2, <2>2 DEF Inductive, RowsAreBacked
    <3>2. QED
      BY <1>1, <1>8, <2>2, <3>1 DEF Readable
  <2>3. QED
    BY <2>1, <2>2
<1>15. LinksAreTrue'
  <2> SUFFICES ASSUME NEW q \in Places, tree[q] # None
               PROVE  \E i \in Documents : Home(i)' = tree[q]
    BY <1>1, <1>7 DEF Inductive, LinksAreTrue
  <2>1. PICK i \in Documents : Home(i) = tree[q]
    BY DEF Inductive, LinksAreTrue
  <2>2. i # p.id
    BY <1>1, <1>2, <2>1, RowPapers DEF NoLinkTo
  <2>3. QED
    BY <1>8, <2>1, <2>2
<1>16. QED
  BY <1>9, <1>10, <1>11, <1>12, <1>13, <1>14, <1>15 DEF Inductive

----------------------------------------------------------------------------
(* remove.                                                                   *)

LEMMA RemoveUnlinkStep ==
  ASSUME Inductive, RemoveUnlink
  PROVE  Inductive'
<1>1. /\ op = "none" /\ at = "idle" /\ taken = {} /\ TypeOK
      /\ op' = "remove" /\ at' = "rmtree"
      /\ UNCHANGED <<input, store, rows, minted, found, drafts, taken, hurt, steady>>
  BY DEF Inductive, Phases, RemoveUnlink, Begin, disk, ghosts
<1>2. PICK i \in Documents : tree' = Unlinked(AsPaper(i)) /\ papers' = {AsPaper(i)}
  BY DEF RemoveUnlink
<1>3. AsPaper(i) \in Paper /\ AsPaper(i).id = i /\ DocumentDir(AsPaper(i)) = Home(i)
  BY <1>1, RowPapers
<1>4. /\ tree' \in [Places -> Folders \cup {None}]
      /\ LinksAreTrue' /\ NoLinkTo(i)'
  BY <1>1, <1>2, UnlinkedLinks
<1>5. TypeOK'
  BY <1>1, <1>2, <1>3, <1>4 DEF TypeOK, Steps
<1>6. Phases'
  BY <1>1 DEF Phases, PassSteps, PlaceStep
<1>7. Owned'
  BY <1>1, <1>2, <1>3, OwnersStay DEF Inductive, Owned
<1>8. Removing'
  BY <1>1, <1>2, <1>3, <1>4 DEF Removing, Documents, Home, DocumentDir
<1>9. (Scanning /\ Placed /\ Linking /\ Retagging)'
  BY <1>1 DEF Scanning, Placed, Linking, Retagging, PlaceStep
<1>10. RowsAreBacked'
  BY <1>1, BackingStays DEF Inductive
<1>11. QED
  BY <1>4, <1>5, <1>6, <1>7, <1>8, <1>9, <1>10 DEF Inductive

(* Removing a folder no link leads to leaves links and other rows alone.     *)
LEMMA Removed ==
  ASSUME Inductive, at \in {"rmtree", "delete"}
  PROVE  \E p \in Paper :
           /\ papers = {p} /\ p.id \in Documents /\ NoLinkTo(p.id)
           /\ DocumentDir(p) = Home(p.id)
           /\ Home(p.id) \in Folders /\ Home(p.id)[1] = p.id
           /\ \A i \in Documents : i # p.id => /\ Home(i) # Home(p.id)
                                               /\ Home(i) \in Folders
           /\ \A q \in Places : tree[q] # None =>
                tree[q] \in Folders /\ tree[q] # Home(p.id)
<1>1. PICK p \in Paper : /\ papers = {p} /\ p.id \in Documents /\ NoLinkTo(p.id)
                         /\ DocumentDir(p) = Home(p.id)
  BY DEF Inductive, Removing
<1>2. \A i \in Documents : Home(i) \in Folders /\ Home(i)[1] = i
  BY RowPapers DEF Inductive
<1>3. QED
  BY <1>1, <1>2 DEF NoLinkTo, Inductive, TypeOK

LEMMA RemoveTreeStep ==
  ASSUME Inductive, RemoveTree
  PROVE  Inductive'
<1>1. /\ at = "rmtree" /\ at' = "delete" /\ TypeOK
      /\ UNCHANGED <<op, input, rows, tree, minted, found, drafts, papers, taken, hurt, steady>>
  BY DEF Inductive, RemoveTree, Step, memory, ghosts
<1>2. PICK p \in Paper :
        /\ papers = {p} /\ p.id \in Documents /\ NoLinkTo(p.id)
        /\ DocumentDir(p) = Home(p.id) /\ Home(p.id) \in Folders
        /\ \A i \in Documents : i # p.id => Home(i) # Home(p.id) /\ Home(i) \in Folders
        /\ \A q \in Places : tree[q] # None =>
             tree[q] \in Folders /\ tree[q] # Home(p.id)
  BY <1>1, Removed
<1>3. \A f \in Folders : store'[f] = IF f = Home(p.id) THEN None ELSE store[f]
  BY <1>1, <1>2 DEF RemoveTree, TypeOK
<1>4. Documents' = Documents /\ \A i \in Documents : Home(i)' = Home(i)
  BY <1>1 DEF Documents, Home
<1>5. TypeOK'
  BY <1>1, <1>2 DEF RemoveTree, TypeOK, Steps
<1>6. Phases'
  BY <1>1 DEF Inductive, Phases, PassSteps, PlaceStep
<1>7. Owned'
  BY <1>1, <1>3, <1>4 DEF Inductive, Owned
<1>8. Removing'
  BY <1>1, <1>2, <1>4 DEF Removing, DocumentDir, NoLinkTo
<1>9. (Scanning /\ Placed /\ Linking /\ Retagging)'
  BY <1>1 DEF Scanning, Placed, Linking, Retagging, PlaceStep
<1>10. RowsAreBacked'
  <2> SUFFICES ASSUME NEW i \in Documents, i # p.id
               PROVE  Readable(Home(i)) \/ i \in hurt => (Readable(Home(i)) \/ i \in hurt)'
    BY <1>1, <1>2, <1>4 DEF Inductive, RowsAreBacked
  <2> QED
    BY <1>1, <1>2, <1>3, <1>4 DEF Readable
<1>11. LinksAreTrue'
  BY <1>1, <1>2, <1>3, <1>4 DEF Inductive, LinksAreTrue
<1>12. QED
  BY <1>5, <1>6, <1>7, <1>8, <1>9, <1>10, <1>11 DEF Inductive

LEMMA RemoveRefusedStep ==
  ASSUME Inductive, RemoveRefused
  PROVE  Inductive'
<1>1. /\ at = "rmtree" /\ TypeOK /\ Done
      /\ UNCHANGED <<input, rows, tree, minted, steady>>
  BY DEF Inductive, RemoveRefused
<1>2. CASE UNCHANGED <<store, hurt>>
  BY <1>1, <1>2, IdleStep
<1>3. CASE \E p \in papers : /\ store[DocumentDir(p)] # None
                             /\ store' = [store EXCEPT ![DocumentDir(p)] = Empty]
                             /\ hurt' = hurt \cup {p.id}
  <2>1. PICK p \in Paper :
          /\ p.id \in Documents /\ Home(p.id) \in Folders
          /\ store[Home(p.id)] # None
          /\ store' = [store EXCEPT ![Home(p.id)] = Empty]
          /\ hurt' = hurt \cup {p.id}
          /\ \A i \in Documents : i # p.id => Home(i) # Home(p.id) /\ Home(i) \in Folders
          /\ \A q \in Places : tree[q] # None =>
               tree[q] \in Folders /\ tree[q] # Home(p.id)
    BY <1>1, <1>3, Removed
  <2>2. \A f \in Folders : store'[f] = IF f = Home(p.id) THEN Empty ELSE store[f]
    BY <1>1, <2>1 DEF TypeOK
  <2>3. Documents' = Documents /\ \A i \in Documents : Home(i)' = Home(i)
    BY <1>1 DEF Documents, Home
  <2>4. TypeOK'
    BY <1>1, <2>1 DEF Done, TypeOK, Steps, Documents
  <2>5. (Phases /\ Scanning /\ Placed /\ Linking /\ Retagging /\ Removing)'
    BY <1>1 DEF Done, Phases, PassSteps, PlaceStep, Scanning, Placed, Linking, Retagging,
                Removing
  <2>6. Owned'
    BY <1>1, <2>1, OwnersKeep DEF Inductive, Done
  <2>7. RowsAreBacked'
    <3> SUFFICES ASSUME NEW i \in Documents, i # p.id
                 PROVE  Readable(Home(i)) \/ i \in hurt => (Readable(Home(i)) \/ i \in hurt)'
      BY <1>1, <2>1, <2>3 DEF Inductive, RowsAreBacked
    <3> QED
      BY <2>1, <2>2, <2>3 DEF Readable
  <2>8. LinksAreTrue'
    BY <1>1, <2>1, <2>2, <2>3, FileKinds DEF Inductive, LinksAreTrue
  <2>9. QED
    BY <2>4, <2>5, <2>6, <2>7, <2>8 DEF Inductive
<1>4. QED
  BY <1>2, <1>3 DEF RemoveRefused

LEMMA RemoveDeleteStep ==
  ASSUME Inductive, RemoveDelete
  PROVE  Inductive'
<1>1. /\ at = "delete" /\ TypeOK /\ Done
      /\ UNCHANGED <<input, store, tree, minted, steady>>
  BY DEF Inductive, RemoveDelete, disk
<1>2. PICK p \in Paper :
        /\ papers = {p} /\ p.id \in Documents
        /\ \A q \in Places : tree[q] # None => tree[q] # Home(p.id)
  BY <1>1, Removed
<1>3. rows' = [rows EXCEPT ![p.id] = None] /\ hurt' = hurt \ {p.id}
  BY <1>2 DEF RemoveDelete
<1>4. \A i \in Ids : rows'[i] = IF i = p.id THEN None ELSE rows[i]
  BY <1>1, <1>3 DEF TypeOK
<1>5. Documents' = Documents \ {p.id} /\ \A i \in Documents' : Home(i)' = Home(i)
  BY <1>4 DEF Documents, Home
<1>6. TypeOK'
  BY <1>1, <1>3 DEF Done, TypeOK, Steps
<1>7. (Phases /\ Scanning /\ Placed /\ Linking /\ Retagging /\ Removing)'
  BY <1>1 DEF Done, Phases, PassSteps, PlaceStep, Scanning, Placed, Linking, Retagging,
              Removing
<1>8. Owned'
  BY <1>1, <1>5 DEF Done, Inductive, Owned
<1>9. RowsAreBacked'
  <2> SUFFICES ASSUME NEW i \in Documents, i # p.id
               PROVE  (Readable(Home(i)) \/ i \in hurt)'
    BY <1>5 DEF RowsAreBacked
  <2>1. Readable(Home(i)) \/ i \in hurt
    BY <1>2 DEF Inductive, RowsAreBacked
  <2> QED
    BY <1>1, <1>3, <1>5, <2>1 DEF Readable
<1>10. LinksAreTrue'
  BY <1>1, <1>2, <1>5 DEF Inductive, LinksAreTrue
<1>11. QED
  BY <1>6, <1>7, <1>8, <1>9, <1>10 DEF Inductive

----------------------------------------------------------------------------
(* fsck --adopt and rebuild_tree.                                            *)

(* An adopted folder is of a readable document, becomes its home, and is     *)
(* where no link leads: the id's earlier folder, if any, is gone.            *)
LEMMA AdoptedFolders ==
  ASSUME Inductive, NEW f \in Orphans, Readable(f)
  PROVE  /\ f \in Folders /\ f[1] \in Ids /\ f[2] \in Tags /\ f = <<f[1], f[2]>>
         /\ f[1] \in minted /\ NoLinkTo(f[1])
         /\ Adopted(f) \in Paper /\ Adopted(f).id = f[1]
         /\ DocumentDir(Adopted(f)) = f
         /\ AsRow(Adopted(f)) \in Row /\ AsRow(Adopted(f)) # None
         /\ AsRow(Adopted(f)).tag = f[2]
<1>1. f \in Folders /\ store[f] # None /\ \A i \in Documents : Home(i) # f
  BY DEF Orphans
<1>2. f[1] \in Ids /\ f[2] \in Tags /\ f = <<f[1], f[2]>>
  BY <1>1 DEF Folders
<1>3. f[1] \in minted
  BY <1>1 DEF Inductive, Owned
<1>4. /\ Adopted(f) \in Paper /\ Adopted(f).id = f[1] /\ Adopted(f).tag = f[2]
      /\ Adopted(f).stat \in Files
  BY <1>2 DEF Adopted, Paper, Readable
<1>5. DocumentDir(Adopted(f)) = f
  BY <1>2, <1>4 DEF DocumentDir
<1>6. /\ AsRow(Adopted(f)) \in Row /\ AsRow(Adopted(f)) # None
      /\ AsRow(Adopted(f)).tag = f[2]
  BY <1>4, FileKinds, PaperRows
<1>7. NoLinkTo(f[1])
  <2> SUFFICES ASSUME NEW q \in Places, tree[q] # None, tree[q][1] = f[1]
               PROVE  FALSE
    BY DEF NoLinkTo
  <2>1. tree[q] \in Folders /\ store[tree[q]] # None
    BY DEF Inductive, TypeOK, LinksAreTrue
  <2>2. tree[q] = f
    BY <1>1, <2>1 DEF Inductive, Owned
  <2>3. QED
    BY <1>1, <2>2 DEF Inductive, LinksAreTrue
<1>8. QED
  BY <1>1, <1>2, <1>3, <1>4, <1>5, <1>6, <1>7

LEMMA AdoptStep ==
  ASSUME Inductive, Adopt
  PROVE  Inductive'
<1>1. /\ op = "none" /\ at = "idle" /\ taken = {} /\ TypeOK
      /\ op' = "adopt" /\ at' = "link"
      /\ UNCHANGED <<input, store, tree, minted, found, drafts, taken, steady>>
  BY DEF Inductive, Phases, Adopt, Begin, disk
<1>2. PICK f \in Orphans :
        /\ Readable(f)
        /\ papers' = {Adopted(f)}
        /\ rows' = [rows EXCEPT ![f[1]] = AsRow(Adopted(f))]
        /\ hurt' = hurt \ {f[1]}
  BY DEF Adopt
<1>3. PICK p \in Paper :
        /\ papers' = {p} /\ rows' = [rows EXCEPT ![f[1]] = AsRow(p)]
        /\ f \in Folders /\ f[1] \in Ids /\ f[2] \in Tags /\ f = <<f[1], f[2]>>
        /\ f[1] \in minted /\ NoLinkTo(f[1])
        /\ p.id = f[1] /\ DocumentDir(p) = f
        /\ AsRow(p) \in Row /\ AsRow(p) # None /\ AsRow(p).tag = f[2]
  BY <1>2, AdoptedFolders
<1>4. papers' = {p} /\ rows' = [rows EXCEPT ![f[1]] = AsRow(p)]
  BY <1>3
<1>5. store[f] # None /\ store[f] \in Files
  BY <1>2 DEF Orphans, Readable
<1>6. \A i \in Ids : rows'[i] = IF i = f[1] THEN AsRow(p) ELSE rows[i]
  BY <1>1, <1>4 DEF TypeOK
<1>7. Documents' = Documents \cup {f[1]}
  BY <1>3, <1>6 DEF Documents
<1>8. /\ \A i \in Documents : i # f[1] => Home(i)' = Home(i)
      /\ Home(f[1])' = f
      /\ DocumentDir(p)' = DocumentDir(p)
  BY <1>3, <1>6 DEF Home, DocumentDir, Documents
<1>9. TypeOK'
  <2>1. rows' \in [Ids -> Row \cup {None}]
    BY <1>1, <1>3, <1>4 DEF TypeOK
  <2>2. QED
    BY <1>1, <1>2, <1>3, <1>4, <2>1 DEF TypeOK, Steps
<1>10. Phases'
  BY <1>1 DEF Phases, PassSteps, PlaceStep
<1>11. Owned'
  BY <1>1, <1>3, <1>4, <1>7 DEF Inductive, Owned
<1>12. Linking'
  BY <1>1, <1>3, <1>4, <1>5, <1>7, <1>8 DEF Linking
<1>13. (Scanning /\ Placed /\ Retagging /\ Removing)'
  BY <1>1 DEF Scanning, Placed, Retagging, Removing, PlaceStep
<1>14. RowsAreBacked'
  <2> SUFFICES ASSUME NEW i \in Documents' PROVE (Readable(Home(i)) \/ i \in hurt)'
    BY DEF RowsAreBacked
  <2>1. CASE i = f[1]
    BY <1>1, <1>5, <1>8, <2>1 DEF Readable
  <2>2. CASE i # f[1]
    <3>1. i \in Documents /\ (Readable(Home(i)) \/ i \in hurt)
      BY <1>1, <1>7, <2>2 DEF Inductive, RowsAreBacked
    <3>2. QED
      BY <1>1, <1>2, <1>8, <2>2, <3>1 DEF Readable
  <2>3. QED
    BY <2>1, <2>2
<1>15. LinksAreTrue'
  <2> SUFFICES ASSUME NEW q \in Places, tree[q] # None
               PROVE  \E i \in Documents' : Home(i)' = tree[q]
    BY <1>1 DEF Inductive, LinksAreTrue
  <2>1. PICK i \in Documents : Home(i) = tree[q]
    BY DEF Inductive, LinksAreTrue
  <2>2. i # f[1]
    BY <1>1, <1>3, <2>1, RowPapers DEF NoLinkTo
  <2>3. QED
    BY <1>7, <1>8, <2>1, <2>2
<1>16. QED
  BY <1>9, <1>10, <1>11, <1>12, <1>13, <1>14, <1>15 DEF Inductive

LEMMA RebuildTreeStep ==
  ASSUME Inductive, RebuildTree
  PROVE  Inductive'
<1>1. /\ op = "none" /\ at = "idle" /\ taken = {} /\ TypeOK
      /\ op' = "tree" /\ at' = "link" /\ tree' = [q \in Places |-> None]
      /\ papers' = {AsPaper(i) : i \in {i \in Documents : Readable(Home(i))}}
      /\ UNCHANGED <<input, store, rows, minted, found, drafts, taken, hurt, steady>>
  BY DEF Inductive, Phases, RebuildTree, Begin, disk, ghosts, Cleared
<1>2. Documents' = Documents /\ \A i \in Documents : Home(i)' = Home(i)
  BY <1>1 DEF Documents, Home
<1>3. \A p \in papers' :
        /\ p \in Paper /\ p.id \in Documents /\ DocumentDir(p) = Home(p.id)
        /\ store[Home(p.id)] # None
  BY <1>1, RowPapers, FileKinds DEF Readable
<1>4. TypeOK'
  BY <1>1, <1>3 DEF TypeOK, Steps
<1>5. Phases'
  BY <1>1 DEF Phases, PassSteps, PlaceStep
<1>6. Owned'
  BY <1>1, <1>3, OwnersStay DEF Inductive, Owned
<1>7. Linking'
  BY <1>1, <1>2, <1>3 DEF Linking, DocumentDir
<1>8. (Scanning /\ Placed /\ Retagging /\ Removing)'
  BY <1>1 DEF Scanning, Placed, Retagging, Removing, PlaceStep
<1>9. RowsAreBacked'
  BY <1>1, BackingStays DEF Inductive
<1>10. LinksAreTrue'
  BY <1>1 DEF LinksAreTrue
<1>11. QED
  BY <1>4, <1>5, <1>6, <1>7, <1>8, <1>9, <1>10 DEF Inductive

----------------------------------------------------------------------------
(* The person whose files these are, and the end of the process.             *)

LEMMA DropStep ==
  ASSUME Inductive, Drop
  PROVE  Inductive'
<1>1. /\ TypeOK
      /\ UNCHANGED <<store, rows, tree, minted, op, at, found, drafts, papers, taken,
                     hurt, steady>>
  BY DEF Inductive, Drop, memory, ghosts
<1>2. input' \in [Paths -> Contents \cup {None}]
  BY <1>1 DEF Drop, TypeOK
<1>3. TypeOK'
  BY <1>1, <1>2 DEF TypeOK
<1>4. (Phases /\ Owned)'
  BY <1>1 DEF Inductive, Phases, Owned, Documents
<1>5. (Scanning /\ Linking)'
  BY <1>1 DEF Inductive, Scanning, Linking, AsPaper, Documents, DocumentDir, Home, Readable
<1>6. Placed'
  BY <1>1 DEF Inductive, Placed, Placing, Documents, DocumentDir, Readable, Arriving
<1>7. (Retagging /\ Removing)'
  BY <1>1 DEF Inductive, Retagging, Removing, NoLinkTo, Documents, DocumentDir, Home,
              Readable
<1>8. (RowsAreBacked /\ LinksAreTrue)'
  BY <1>1 DEF Inductive, RowsAreBacked, LinksAreTrue, Documents, Home, Readable
<1>9. QED
  BY <1>3, <1>4, <1>5, <1>6, <1>7, <1>8 DEF Inductive

(* Whoever saves a document that was readable leaves it readable.            *)
LEMMA EditStep ==
  ASSUME Inductive, Edit
  PROVE  Inductive'
<1>1. /\ TypeOK
      /\ UNCHANGED <<input, rows, tree, minted, op, at, found, drafts, papers, taken, hurt>>
  BY DEF Inductive, Edit, memory
<1>2. PICK i \in Documents, c \in Contents :
        /\ store[Home(i)] \in Contents
        /\ store' = [store EXCEPT ![Home(i)] = c]
        /\ steady' = [steady EXCEPT ![i] = None]
  BY DEF Edit
<1>3. Home(i) \in Folders /\ Home(i)[1] = i /\ i \in Ids /\ c \in Files
  BY <1>1, RowPapers, FileKinds
<1>4. /\ \A f \in Folders : store'[f] = IF f = Home(i) THEN c ELSE store[f]
      /\ \A f \in Folders : store[f] # None => store'[f] # None
      /\ \A f \in Folders : store'[f] # None => store[f] # None
      /\ \A f \in Folders : store[f] \in Files => store'[f] \in Files
  BY <1>1, <1>2, <1>3, FileKinds DEF TypeOK
<1>5. /\ Documents' = Documents /\ \A j \in Documents : Home(j)' = Home(j)
      /\ \A j \in Documents : AsPaper(j)' = AsPaper(j)
      /\ \A j \in Documents : Home(j) \in Folders
      /\ \A p \in Paper : /\ DocumentDir(p)' = DocumentDir(p)
                          /\ DocumentDir(p) \in Folders /\ DocumentDir(p)[1] = p.id
      /\ papers \subseteq Paper
  BY <1>1, RowPapers, PaperDirs DEF Documents, Home, DocumentDir, AsPaper, TypeOK
<1>6. TypeOK'
  BY <1>1, <1>2, <1>3 DEF TypeOK
<1>7. Phases'
  BY <1>1 DEF Inductive, Phases
<1>8. Owned'
  <2>1. store[Home(i)] # None
    BY <1>2, FileKinds
  <2>2. \A p \in papers' : p.id \in minted
    BY <1>1 DEF Inductive, Owned
  <2>3. QED
    BY <1>1, <1>2, <1>3, <2>1, <2>2, OwnersKeep DEF Inductive
<1>9. Scanning'
  <2>1. at = "stat" => papers' = {AsPaper(j)' : j \in Documents'}
    BY <1>1, <1>5 DEF Inductive, Scanning
  <2>2. \A j \in Documents : Readable(Home(j)) => Readable(Home(j))'
    BY <1>4, <1>5 DEF Readable
  <2>3. QED
    BY <1>1, <1>5, <2>1, <2>2 DEF Inductive, Scanning
<1>10. Linking'
  BY <1>1, <1>4, <1>5 DEF Inductive, Linking
<1>11. Placed'
  <2>1. Placing' = Placing
    BY <1>1 DEF Placing
  <2>2. \A p \in papers : Readable(DocumentDir(p)) => Readable(DocumentDir(p))'
    BY <1>4, <1>5 DEF Readable
  <2>3. \A p \in papers : p.id \notin Documents => store'[DocumentDir(p)] = store[DocumentDir(p)]
    BY <1>3, <1>4, <1>5
  <2>4. ASSUME at \in PlaceStep
        PROVE  \E p \in papers, d \in Paths \X Contents :
                 Placing = {p} /\ found = {d} /\ Arriving(p, d)'
    <3>1. PICK p \in papers, d \in Paths \X Contents :
            Placing = {p} /\ found = {d} /\ Arriving(p, d)
      BY <2>4 DEF Inductive, Placed
    <3>2. store'[DocumentDir(p)] = store[DocumentDir(p)]
      BY <2>3, <2>4 DEF Inductive, Placed
    <3>3. Arriving(p, d)'
      BY <1>1, <1>5, <3>1, <3>2 DEF Arriving, Readable, DocumentDir
    <3>4. QED
      BY <3>1, <3>3
  <2>5. at \in {"place", "record"} => Placing' = {}
    BY <2>1 DEF Inductive, Placed
  <2>6. at \in PlaceStep \cup {"place", "record"} =>
          /\ \A p \in papers : p.id \notin Documents
          /\ \A p, r \in papers : p.id = r.id => p = r
          /\ \A p \in papers \ Placing : Readable(DocumentDir(p))'
    BY <2>2 DEF Inductive, Placed
  <2>7. QED
    BY <1>1, <1>5, <2>1, <2>4, <2>5, <2>6 DEF Placed
<1>12. Retagging'
  <2> SUFFICES ASSUME at \in {"rename", "set"}
               PROVE  Retagging'
    BY <1>1 DEF Retagging
  <2>1. PICK p \in Paper :
          /\ papers = {p} /\ p.id \in Documents /\ NoLinkTo(p.id)
          /\ at = "rename" => /\ store[Home(p.id)] # None
                              /\ \/ p.tag = rows[p.id].tag
                                 \/ store[DocumentDir(p)] = None
          /\ at = "set" => /\ store[DocumentDir(p)] # None
                           /\ Readable(DocumentDir(p)) \/ p.id \in hurt
    BY DEF Inductive, Retagging
  <2>2. NoLinkTo(p.id)'
    BY <1>1, <2>1 DEF NoLinkTo
  <2>3. /\ store[Home(p.id)] # None => store'[Home(p.id)] # None
        /\ store[DocumentDir(p)] = None => store'[DocumentDir(p)] = None
        /\ store[DocumentDir(p)] # None => store'[DocumentDir(p)] # None
        /\ Readable(DocumentDir(p)) => Readable(DocumentDir(p))'
    BY <1>4, <1>5, <2>1 DEF Readable
  <2>4. QED
    BY <1>1, <1>5, <2>1, <2>2, <2>3 DEF Retagging
<1>13. Removing'
  BY <1>1, <1>5 DEF Inductive, Removing, NoLinkTo
<1>14. RowsAreBacked'
  <2> SUFFICES ASSUME NEW j \in Documents
               PROVE  /\ Readable(Home(j)) => Readable(Home(j))'
                      /\ j \in hurt => j \in hurt'
    BY <1>1, <1>5 DEF Inductive, RowsAreBacked
  <2> QED
    BY <1>1, <1>4, <1>5 DEF Readable
<1>15. LinksAreTrue'
  BY <1>1, <1>4, <1>5 DEF Inductive, LinksAreTrue, TypeOK
<1>16. QED
  BY <1>6, <1>7, <1>8, <1>9, <1>10, <1>11, <1>12, <1>13, <1>14, <1>15 DEF Inductive

LEMMA CrashStep ==
  ASSUME Inductive, Crash
  PROVE  Inductive'
<1>1. /\ TypeOK /\ Done
      /\ UNCHANGED <<input, store, rows, tree, minted, steady>>
      /\ hurt' = IF at \in {"set", "delete"} THEN hurt \cup {p.id : p \in papers}
                 ELSE hurt
  BY DEF Inductive, Crash, disk
<1>2. CASE at \notin {"set", "delete"}
  BY <1>1, <1>2, IdleStep
<1>3. CASE at \in {"set", "delete"}
  <2>1. PICK p \in Paper : papers = {p} /\ p.id \in Documents
    BY <1>3, Retagged, Removed
  <2>2. hurt' = hurt \cup {p.id}
    BY <1>1, <1>3, <2>1
  <2>3. TypeOK'
    BY <1>1, <2>1, <2>2 DEF Done, TypeOK, Steps, Documents
  <2>4. (Phases /\ Scanning /\ Placed /\ Linking /\ Retagging /\ Removing)'
    BY <1>1 DEF Done, Phases, PassSteps, PlaceStep, Scanning, Placed, Linking, Retagging,
                Removing
  <2>5. Owned' /\ LinksAreTrue'
    BY <1>1, OwnersStay, LinksStay DEF Inductive, Done
  <2>6. RowsAreBacked'
    BY <1>1, <2>1, <2>2 DEF Inductive, RowsAreBacked, Documents, Home, Readable
  <2>7. QED
    BY <2>3, <2>4, <2>5, <2>6 DEF Inductive
<1>4. QED
  BY <1>2, <1>3

LEMMA StutterStep ==
  ASSUME Inductive, UNCHANGED vars
  PROVE  Inductive'
<1>1. UNCHANGED <<input, store, rows, tree, minted, op, at, found, drafts, papers, taken,
                  hurt, steady>>
  BY DEF vars
<1>2. (TypeOK /\ Phases /\ Owned)'
  BY <1>1 DEF Inductive, TypeOK, Phases, Owned, Documents
<1>3. (Scanning /\ Linking)'
  BY <1>1 DEF Inductive, Scanning, Linking, AsPaper, Documents, DocumentDir, Home, Readable
<1>4. Placed'
  BY <1>1 DEF Inductive, Placed, Placing, Documents, DocumentDir, Readable, Arriving
<1>5. (Retagging /\ Removing)'
  BY <1>1 DEF Inductive, Retagging, Removing, NoLinkTo, Documents, DocumentDir, Home,
              Readable
<1>6. (RowsAreBacked /\ LinksAreTrue)'
  BY <1>1 DEF Inductive, RowsAreBacked, LinksAreTrue, Documents, Home, Readable
<1>7. QED
  BY <1>2, <1>3, <1>4, <1>5, <1>6 DEF Inductive

----------------------------------------------------------------------------
(* The invariant, and what follows from it.                                  *)

(* Every step of the program, of the person and of a crash keeps it.         *)
LEMMA InductiveKept ==
  ASSUME Inductive, [Next]_vars
  PROVE  Inductive'
<1>1. CASE Rescan
  BY <1>1, RescanReadStep, RescanStatStep, RescanHashStep, RescanWriteStep,
     RescanFailsStep DEF Rescan
<1>2. CASE Pass
  BY <1>2, HashCandidatesStep, ReadBurstStep, LabelStep, PlaceMkdirStep, CopyBeginStep,
     CopyEndStep, MoveAtOnceStep, MoveUnlinkStep, CopyStatStep, PlaceFailsStep,
     PlacedAllStep, RecordStep DEF Pass
<1>3. CASE Commands
  BY <1>3, RetagUnlinkStep, RetagRenameStep, RetagSetStep, RemoveUnlinkStep,
     RemoveTreeStep, RemoveRefusedStep, RemoveDeleteStep, AdoptStep, RebuildTreeStep
     DEF Commands
<1>4. QED
  BY <1>1, <1>2, <1>3, LinkStep, DropStep, EditStep, CrashStep, StutterStep DEF Next

(* All of the above, in every reachable state: the steps of each operation   *)
(* of ingest.py and library.py leave each other what they rely on.           *)
THEOREM Invariance == Spec => []Inductive
  BY InitInductive, InductiveKept, PTL DEF Spec

(* The types of the disk, the database and the memory of an operation.       *)
THEOREM TypeCorrect == Spec => []TypeOK
<1>1. Inductive => TypeOK
  BY DEF Inductive
<1>2. QED
  BY <1>1, Invariance, PTL

(* file_paper's promise: no row points at nothing, whatever failed or died,  *)
(* unless the document's own retag or removal was between disk and database. *)
THEOREM EveryRowIsBacked == Spec => []RowsAreBacked
<1>1. Inductive => RowsAreBacked
  BY DEF Inductive
<1>2. QED
  BY <1>1, Invariance, PTL

(* _link and _unlink: no link dangles, leads to a folder nobody recorded or  *)
(* stands under a category that is not its document's.                       *)
THEOREM EveryLinkIsTrue == Spec => []LinksAreTrue
<1>1. Inductive => LinksAreTrue
  BY DEF Inductive
<1>2. QED
  BY <1>1, Invariance, PTL

----------------------------------------------------------------------------
(* rebuild_tree links every document once.                                   *)

(* Two documents never share a name that holds one of their ids.             *)
LEMMA OwnNames ==
  ASSUME TypeOK, NEW i \in Documents, NEW j \in Documents,
         Decorated(AsPaper(i)) \in NamesOf(j)
  PROVE  i = j
<1>1. /\ i \in Ids /\ j \in Ids /\ AsPaper(i) \in Paper /\ AsPaper(j) \in Paper
      /\ AsPaper(i).id = i /\ AsPaper(j).id = j
  BY RowPapers
<1>2. AsPaper(j).title \in Titles \cup {None} /\ i \notin Titles
  BY <1>1, FilingAssumption DEF Paper
<1>3. CASE Decorated(AsPaper(i)) = Decorated(AsPaper(j))
  BY <1>1, <1>3 DEF Decorated
<1>4. CASE Decorated(AsPaper(i)) = Wanted(AsPaper(j))
  BY <1>1, <1>2, <1>4 DEF Decorated, Wanted
<1>5. QED
  BY <1>3, <1>4 DEF NamesOf

(* It starts over from nothing.                                              *)
LEMMA RebuildBegins ==
  ASSUME Inductive, RebuildTree
  PROVE  Rebuilding'
<1>1. /\ taken = {} /\ tree' = [q \in Places |-> None]
      /\ papers' = {AsPaper(i) : i \in {i \in Documents : Readable(Home(i))}}
      /\ UNCHANGED <<store, rows, taken>>
  BY DEF Inductive, Phases, RebuildTree, Begin, disk, ghosts, Cleared
<1>2. /\ Documents' = Documents /\ \A i \in Documents : Home(i)' = Home(i)
      /\ \A i \in Documents : AsPaper(i)' = AsPaper(i)
  BY <1>1 DEF Documents, Home, AsPaper
<1>3. papers' \subseteq {AsPaper(i)' : i \in Documents'}
  BY <1>1, <1>2
<1>4. \A i \in Documents' : Readable(Home(i))' => AsPaper(i)' \in papers'
  BY <1>1, <1>2 DEF Readable
<1>5. \A q \in Places : tree'[q] = None
  BY <1>1
<1>6. taken' = {q \in Places : tree'[q] # None}
  BY <1>1, <1>5
<1>7. QED
  BY <1>3, <1>4, <1>5, <1>6 DEF Rebuilding

(* One more document: under a name no other document of this rebuild has, or *)
(* nowhere, when both its names are somebody's files.                        *)
LEMMA RebuildLinks ==
  ASSUME Inductive, Rebuilding, op = "tree", NEW p \in papers, LinkPaper(p),
         papers' = papers \ {p}, UNCHANGED <<op, store, rows>>
  PROVE  Rebuilding'
<1> DEFINE name(q) == \E i \in Documents : /\ tree[q] = Home(i) /\ q \in NamesOf(i)
                                           /\ AsPaper(i) \notin papers
<1>1. /\ TypeOK
      /\ papers \subseteq {AsPaper(i) : i \in Documents}
      /\ \A q \in Places : tree[q] # None => name(q)
      /\ taken = {q \in Places : tree[q] # None}
      /\ \A q, r \in Places : tree[q] # None /\ tree[q] = tree[r] => q = r
      /\ \A i \in Documents : Readable(Home(i)) =>
           \/ AsPaper(i) \in papers
           \/ \E q \in Places : tree[q] = Home(i)
           \/ Decorated(AsPaper(i)) \in Litter
  BY DEF Inductive, Rebuilding
<1>2. PICK i \in Documents : p = AsPaper(i)
  BY <1>1
<1>3. /\ p \in Paper /\ p.id = i /\ DocumentDir(p) = Home(i)
      /\ Home(i) \in Folders /\ Home(i) # None
      /\ \A j \in Documents : Home(j) = Home(i) => j = i
      /\ \A j \in Documents : AsPaper(j) = AsPaper(i) => j = i
      /\ \A j \in Documents : Home(j) \in Folders
  BY <1>1, <1>2, RowPapers, FileKinds
<1>4. /\ Documents' = Documents /\ \A j \in Documents : Home(j)' = Home(j)
      /\ \A j \in Documents : AsPaper(j)' = AsPaper(j)
      /\ \A j \in Documents : NamesOf(j)' = NamesOf(j)
      /\ \A j \in Documents : Readable(Home(j))' <=> Readable(Home(j))
  BY DEF Documents, Home, AsPaper, NamesOf, Wanted, Decorated, Readable
<1>5. papers' \subseteq {AsPaper(j)' : j \in Documents'}
  BY <1>1, <1>4
<1>6. CASE UNCHANGED <<tree, taken>> /\ Decorated(p) \in Litter
  <2>1. \A q \in Places : tree'[q] # None =>
          \E j \in Documents' : /\ tree'[q] = Home(j)' /\ q \in NamesOf(j)'
                                /\ AsPaper(j)' \notin papers'
    BY <1>1, <1>4, <1>6
  <2>2. \A j \in Documents' : Readable(Home(j))' =>
           \/ AsPaper(j)' \in papers'
           \/ \E q \in Places : tree'[q] = Home(j)'
           \/ Decorated(AsPaper(j))' \in Litter
    BY <1>1, <1>2, <1>4, <1>6 DEF Decorated
  <2>3. QED
    BY <1>1, <1>5, <1>6, <2>1, <2>2 DEF Rebuilding
<1>7. CASE \E q \in {Wanted(p), Decorated(p)} :
             /\ tree' = [tree EXCEPT ![q] = DocumentDir(p)]
             /\ taken' = taken \cup {q}
             /\ q \in taken => q = Decorated(p)
  <2>1. PICK q \in NamesOf(i) :
          /\ tree' = [tree EXCEPT ![q] = Home(i)]
          /\ taken' = taken \cup {q}
          /\ q \in taken => q = Decorated(AsPaper(i))
    BY <1>2, <1>3, <1>7 DEF NamesOf
  <2>2. q \in Places
    BY <1>2, <1>3 DEF NamesOf, Wanted, Decorated, Places, Paper
  <2>3. tree[q] = None
    <3> SUFFICES ASSUME tree[q] # None PROVE FALSE
      OBVIOUS
    <3>1. PICK j \in Documents : q \in NamesOf(j) /\ AsPaper(j) \notin papers
      BY <1>1, <2>2
    <3>2. Decorated(AsPaper(i)) \in NamesOf(j)
      BY <1>1, <2>1, <2>2, <3>1
    <3>3. QED
      BY <1>1, <1>2, <3>1, <3>2, OwnNames
  <2>4. \A r \in Places : tree'[r] = IF r = q THEN Home(i) ELSE tree[r]
    BY <1>1, <2>1 DEF TypeOK
  <2>5. \A r \in Places : tree[r] # Home(i)
    BY <1>1, <1>2, <1>3
  <2>6. \A r \in Places : tree'[r] # None =>
          \E j \in Documents' : /\ tree'[r] = Home(j)' /\ r \in NamesOf(j)'
                                /\ AsPaper(j)' \notin papers'
    <3> SUFFICES ASSUME NEW r \in Places, tree'[r] # None
                 PROVE  \E j \in Documents : /\ tree'[r] = Home(j) /\ r \in NamesOf(j)
                                             /\ AsPaper(j) \notin papers'
      BY <1>4
    <3>1. CASE r = q
      BY <1>2, <2>1, <2>4, <3>1
    <3>2. CASE r # q
      BY <1>1, <2>4, <3>2
    <3>3. QED
      BY <3>1, <3>2
  <2>7. taken' = {r \in Places : tree'[r] # None}
    BY <1>1, <1>3, <2>1, <2>2, <2>4
  <2>8. \A r, s \in Places : tree'[r] # None /\ tree'[r] = tree'[s] => r = s
    BY <1>1, <2>4, <2>5
  <2>9. \A j \in Documents' : Readable(Home(j))' =>
          \/ AsPaper(j)' \in papers'
          \/ \E r \in Places : tree'[r] = Home(j)'
          \/ Decorated(AsPaper(j))' \in Litter
    <3> SUFFICES ASSUME NEW j \in Documents, Readable(Home(j))
                 PROVE  \/ AsPaper(j) \in papers'
                        \/ \E r \in Places : tree'[r] = Home(j)
                        \/ Decorated(AsPaper(j)) \in Litter
      BY <1>4 DEF Decorated
    <3>1. CASE j = i
      BY <2>2, <2>4, <3>1
    <3>2. CASE j # i
      <4>1. CASE \E r \in Places : tree[r] = Home(j)
        BY <1>3, <2>3, <2>4, <4>1, FileKinds
      <4>2. CASE AsPaper(j) \in papers
        BY <1>2, <1>3, <3>2, <4>2
      <4>3. QED
        BY <1>1, <4>1, <4>2
    <3>3. QED
      BY <3>1, <3>2
  <2>10. QED
    BY <1>5, <2>6, <2>7, <2>8, <2>9 DEF Rebuilding
<1>8. QED
  BY <1>1, <1>3, <1>6, <1>7, LinkNames

(* Nobody else disturbs it: what is saved meanwhile stays readable.          *)
LEMMA RebuildStays ==
  ASSUME Inductive, Rebuilding, UNCHANGED <<op, rows, tree, papers, taken>>,
         \A i \in Documents : Readable(Home(i))' => Readable(Home(i))
  PROVE  Rebuilding'
<1>1. /\ Documents' = Documents /\ \A j \in Documents : Home(j)' = Home(j)
      /\ \A j \in Documents : AsPaper(j)' = AsPaper(j)
      /\ \A j \in Documents : NamesOf(j)' = NamesOf(j)
      /\ \A j \in Documents : Decorated(AsPaper(j))' = Decorated(AsPaper(j))
  BY DEF Documents, Home, AsPaper, NamesOf, Wanted, Decorated
<1>2. QED
  BY <1>1 DEF Rebuilding

LEMMA RebuildingKept ==
  ASSUME Inductive, Rebuilding, [Next]_vars
  PROVE  Rebuilding'
<1>1. op = "tree" => at = "link"
  BY DEF Inductive, Phases
<1>2. CASE RebuildTree
  BY <1>2, RebuildBegins
<1>3. CASE Link
  <2>1. CASE op = "tree" /\ ~Done
    BY <1>3, <2>1, RebuildLinks DEF Link, disk
  <2>2. CASE Done
    BY <2>2 DEF Done, Rebuilding
  <2>3. CASE op # "tree" /\ ~Done
    BY <1>3, <2>3 DEF Link, Rebuilding
  <2>4. QED
    BY <2>1, <2>2, <2>3
<1>4. CASE Edit
  <2>1. PICK i \in Documents, c \in Contents :
          store[Home(i)] \in Contents /\ store' = [store EXCEPT ![Home(i)] = c]
    BY <1>4 DEF Edit
  <2>2. /\ UNCHANGED <<op, rows, tree, papers, taken>>
        /\ \A j \in Documents : Home(j)' = Home(j) /\ Home(j) \in Folders
    BY <1>4, RowPapers DEF Edit, memory, Home, Inductive
  <2>3. \A j \in Documents : Readable(Home(j))' => Readable(Home(j))
    BY <2>1, <2>2, FileKinds DEF Readable, Inductive, TypeOK
  <2>4. QED
    BY <2>2, <2>3, RebuildStays
<1>5. CASE Drop \/ UNCHANGED vars
  <2>1. UNCHANGED <<op, store, rows, tree, papers, taken>>
    BY <1>5 DEF Drop, memory, vars
  <2>2. \A j \in Documents : Readable(Home(j))' => Readable(Home(j))
    BY <2>1 DEF Readable, Home
  <2>3. QED
    BY <2>1, <2>2, RebuildStays
(* Every other step is of another operation, or ends this one.               *)
<1>6. CASE Rescan
  BY <1>1, <1>6 DEF Rescan, RescanRead, RescanStat, RescanHash, RescanWrite, RescanFails,
                    RescanOver, Begin, Step, Done, Rebuilding
<1>7. CASE Pass
  BY <1>1, <1>7 DEF Pass, HashCandidates, ReadBurst, Label, PlaceMkdir, CopyBegin, CopyEnd,
                    MoveAtOnce, MoveUnlink, CopyStat, PlaceFails, PlacedAll, Record, Step,
                    PlaceStep, Rebuilding
<1>8. CASE Commands \/ Crash
  BY <1>1, <1>2, <1>8 DEF Commands, RetagUnlink, RetagRename, RetagSet, RemoveUnlink,
                    RemoveTree, RemoveRefused, RemoveDelete, Adopt, Crash, Begin, Step, Done,
                    Rebuilding
<1>9. QED
  BY <1>2, <1>3, <1>4, <1>5, <1>6, <1>7, <1>8 DEF Next

(* rebuild_tree: when it is through, a document with a file has exactly one  *)
(* link, unless both its names are somebody's files.                         *)
THEOREM EveryDocumentIsLinkedOnce == Spec => []RebuildLinksAll
<1>1. Init => Rebuilding
  BY DEF Init, Rebuilding
<1>2. Inductive /\ Rebuilding => RebuildLinksAll
  <2> SUFFICES ASSUME Inductive, Rebuilding, op = "tree", papers = {},
                      NEW i \in Documents, Readable(Home(i)),
                      Decorated(AsPaper(i)) \notin Litter
               PROVE  Cardinality({q \in Places : tree[q] = Home(i)}) = 1
    BY DEF RebuildLinksAll
  <2>1. PICK q \in Places : tree[q] = Home(i)
    BY DEF Rebuilding
  <2>2. Home(i) # None
    BY RowPapers, FileKinds DEF Inductive
  <2>3. {r \in Places : tree[r] = Home(i)} = {q}
    BY <2>1, <2>2 DEF Rebuilding
  <2>4. QED
    BY <2>3, FS_Singleton
<1>3. QED
  BY <1>1, <1>2, Invariance, RebuildingKept, PTL DEF Spec

----------------------------------------------------------------------------
(* Where waiting files do not change under a running pass (~MayReplace), the *)
(* bytes that were hashed are the bytes that are filed.                      *)

(* Outside a pass, and at its two ends, nothing waits.                       *)
LEMMA Elsewhere ==
  ASSUME Inductive, Rescan \/ Link \/ Commands \/ Crash \/ Record
  PROVE  at' \notin {"known", "label", "place", "record"} \cup PlaceStep
<1>1. CASE Rescan
  BY <1>1 DEF Rescan, RescanRead, RescanStat, RescanHash, RescanWrite, RescanFails,
              RescanOver, Begin, Step, Done, PlaceStep
<1>2. CASE Link \/ Crash \/ Record
  BY <1>2 DEF Link, Crash, Record, Step, Done, PlaceStep
<1>3. CASE Commands
  BY <1>3 DEF Commands, RetagUnlink, RetagRename, RetagSet, RemoveUnlink, RemoveTree,
              RemoveRefused, RemoveDelete, Adopt, RebuildTree, Begin, Step, Done, PlaceStep
<1>4. QED
  BY <1>1, <1>2, <1>3

(* The drafts are of hashed candidates, at most one for each path.           *)
LEMMA LabelsWhatWaits ==
  ASSUME Inductive, Unreplaced, Label
  PROVE  Unreplaced'
<1>1. /\ at = "label" /\ at' = "place" /\ TypeOK /\ papers = {}
      /\ UNCHANGED <<input, papers>>
  BY DEF Inductive, Phases, Label, Step, disk
<1>2. \A d \in drafts' : /\ <<d.path, d.hash>> \in found
                         /\ \A e \in drafts' : d.path = e.path /\ d.hash = e.hash => d = e
  BY <1>1, DraftsOfCandidates
<1>3. \A d \in drafts' : input[d.path] = d.hash
  BY <1>1, <1>2 DEF Unreplaced
<1>4. \A d, e \in drafts' : d.path = e.path => d = e
  <2> TAKE d, e \in drafts'
  <2>1. d.path = e.path => d.hash = e.hash
    BY <1>3
  <2>2. QED
    BY <1>2, <2>1
<1>5. \A d \in drafts' : /\ input'[d.path] = d.hash
                         /\ \A e \in drafts' : d.path = e.path => d = e
  BY <1>1, <1>3, <1>4
<1>6. QED
  BY <1>1, <1>5 DEF Unreplaced, PlaceStep

(* A document that begins its way is the draft's, and no other draft's.      *)
LEMMA PlacesWhatWaits ==
  ASSUME Inductive, Unreplaced, PlaceMkdir
  PROVE  Unreplaced'
<1>1. PICK i \in Ids \ minted, d \in drafts :
        /\ store' = [store EXCEPT ![DocumentDir(Described(i, d))] = Empty]
        /\ papers' = papers \cup {Described(i, d)}
        /\ found' = {<<d.path, d.hash>>}
        /\ drafts' = drafts \ {d}
  BY DEF PlaceMkdir
<1>2. at = "place" /\ at' = "copy" /\ TypeOK /\ UNCHANGED input
  BY DEF Inductive, PlaceMkdir, Step
<1>3. PICK p \in Paper : /\ p = Described(i, d)
                         /\ p.id = i /\ p.stat = None /\ p.hash = d.hash
  <2>1. d \in [path : Paths, hash : Contents, title : Titles, tag : Tags]
    BY <1>2 DEF TypeOK
  <2>2. Described(i, d) \in Paper
    BY <2>1, FileKinds DEF Described, Paper
  <2>3. QED
    BY <2>2 DEF Described
<1>4. /\ store' = [store EXCEPT ![DocumentDir(p)] = Empty]
      /\ papers' = papers \cup {p}
      /\ DocumentDir(p)[1] = i
  BY <1>1, <1>3, PaperDirs
<1>5. \A r \in papers : /\ r.stat # None
                        /\ r.stat = r.hash /\ r.hash = store[DocumentDir(r)]
                        /\ DocumentDir(r) \in Folders /\ DocumentDir(r) # DocumentDir(p)
  <2> TAKE r \in papers
  <2>1. r \in Paper /\ r.id \in minted /\ r.stat # None
    BY <1>2 DEF Inductive, TypeOK, Owned, Placed, Placing
  <2>2. r.stat = r.hash /\ r.hash = store[DocumentDir(r)]
    BY <1>2, <2>1 DEF Unreplaced, Placing
  <2>3. QED
    BY <1>4, <2>1, <2>2, PaperDirs
<1>6. Placing' = {p}
  BY <1>3, <1>4, <1>5 DEF Placing
<1>7. \A r \in papers' \ Placing' : r.stat = r.hash /\ r.hash = store'[DocumentDir(r)']
  <2> SUFFICES ASSUME NEW r \in papers
               PROVE  r.stat = r.hash /\ r.hash = store'[DocumentDir(r)']
    BY <1>4, <1>6
  <2>1. DocumentDir(r)' = DocumentDir(r)
    BY DEF DocumentDir
  <2>2. store'[DocumentDir(r)] = store[DocumentDir(r)]
    BY <1>2, <1>4, <1>5 DEF TypeOK
  <2>3. QED
    BY <1>5, <2>1, <2>2
<1>8. \A c \in found' : c[1] = d.path /\ c[2] = d.hash
  BY <1>1
<1>9. \A e \in drafts' : e.path # d.path
  BY <1>1, <1>2 DEF Unreplaced
<1>10. \A e \in drafts : /\ input'[e.path] = e.hash
                         /\ \A g \in drafts : e.path = g.path => e = g
  BY <1>2 DEF Unreplaced
<1>11. QED
  BY <1>1, <1>2, <1>3, <1>6, <1>7, <1>8, <1>9, <1>10 DEF Unreplaced, PlaceStep

(* On its way it stays that document, in the input folder or in the store.   *)
LEMMA FileStays ==
  ASSUME Inductive, Unreplaced, at \in PlaceStep, at' \in PlaceStep,
         NEW p \in papers, Placing = {p}, NEW c \in Paths \X Contents, found = {c},
         UNCHANGED <<drafts, papers>>, found' = {c},
         \A q \in Paths : q # c[1] => input'[q] = input[q],
         \A f \in Folders : f # DocumentDir(p) => store'[f] = store[f],
         at' # "stored" => input'[c[1]] = c[2],
         at' = "stored" => store'[DocumentDir(p)] = c[2]
  PROVE  Unreplaced'
<1>1. /\ Placing' = {p} /\ TypeOK
      /\ \A r \in papers : DocumentDir(r)' = DocumentDir(r)
  BY DEF Placing, DocumentDir, Inductive
<1>2. \A d \in drafts : /\ d.path \in Paths /\ d.path # c[1]
                        /\ input'[d.path] = d.hash
                        /\ \A e \in drafts : d.path = e.path => d = e
  BY <1>1 DEF Unreplaced, TypeOK
<1>3. \A r \in papers \ {p} : /\ r.stat = r.hash /\ r.hash = store'[DocumentDir(r)]
  BY OnItsWay DEF Unreplaced
<1>4. p.hash = c[2]
  BY DEF Unreplaced
<1>5. QED
  BY <1>1, <1>2, <1>3, <1>4 DEF Unreplaced, PlaceStep

LEMMA CopiesWhatWaits ==
  ASSUME Inductive, Unreplaced, CopyBegin \/ CopyEnd \/ MoveAtOnce \/ MoveUnlink
  PROVE  Unreplaced'
<1>1. PICK p \in papers, c \in Paths \X Contents :
        /\ Placing = {p} /\ found = {c} /\ Arriving(p, c)
        /\ DocumentDir(p) \in Folders
  BY OnItsWay DEF CopyBegin, CopyEnd, MoveAtOnce, MoveUnlink, Step, PlaceStep
<1>2. /\ TypeOK /\ at \in PlaceStep /\ at' \in PlaceStep /\ UNCHANGED <<drafts, papers>>
      /\ at # "stored" => input[c[1]] = c[2]
      /\ c = <<c[1], c[2]>>
  BY <1>1 DEF Inductive, Unreplaced, CopyBegin, CopyEnd, MoveAtOnce, MoveUnlink, Step,
              PlaceStep, memory
<1>3. CASE CopyBegin
  BY <1>1, <1>2, <1>3, FileStays DEF CopyBegin, Step, TypeOK
<1>4. CASE CopyEnd
  BY <1>1, <1>2, <1>4, FileStays DEF CopyEnd, Step, TypeOK, memory
<1>5. CASE MoveAtOnce
  BY <1>1, <1>2, <1>5, FileStays DEF MoveAtOnce, Step, TypeOK, memory
<1>6. CASE MoveUnlink
  BY <1>1, <1>2, <1>6, FileStays DEF MoveUnlink, Step, TypeOK, memory, Arriving
<1>7. QED
  BY <1>3, <1>4, <1>5, <1>6

(* What has arrived is what was hashed, and its size and mtime are its own.  *)
LEMMA RecordsWhatArrived ==
  ASSUME Inductive, Unreplaced, CopyStat \/ PlaceFails \/ PlacedAll
  PROVE  Unreplaced'
<1>1. /\ at \in PlaceStep \cup {"place"} /\ at' \in {"place", "record"}
      /\ UNCHANGED <<input, store>> /\ drafts' \subseteq drafts
  BY DEF CopyStat, PlaceFails, PlacedAll, Step, PlaceStep, disk
<1>2. \A d \in drafts' : /\ input'[d.path] = d.hash
                         /\ \A e \in drafts' : d.path = e.path => d = e
  BY <1>1 DEF Unreplaced
<1>3. \A r \in papers' : r.stat = r.hash /\ r.hash = store[DocumentDir(r)]
  <2>1. CASE PlaceFails
    BY <2>1 DEF PlaceFails, Unreplaced
  <2>2. CASE PlacedAll
    BY <2>2 DEF PlacedAll, Unreplaced, Step, Inductive, Placed
  <2>3. CASE CopyStat
    <3>1. at \in {"copied", "stored"}
      BY <2>3 DEF CopyStat, Step
    <3>2. PICK p \in papers, c \in Paths \X Contents :
            /\ Placing = {p} /\ found = {c} /\ Arriving(p, c)
            /\ p \in Paper /\ \A r \in papers \ {p} : r \in Paper
      BY <3>1, OnItsWay DEF PlaceStep
    <3>3. p.hash = c[2] /\ store[DocumentDir(p)] = c[2]
      BY <3>1, <3>2 DEF Unreplaced, PlaceStep, Arriving
    <3>4. \A r \in papers \ {p} : r.stat = r.hash /\ r.hash = store[DocumentDir(r)]
      BY <3>1, <3>2 DEF Unreplaced, PlaceStep
    <3> TAKE r \in papers'
    <3>5. PICK s \in papers :
            r = [s EXCEPT !.stat = IF s \in Placing THEN store[DocumentDir(s)] ELSE s.stat]
      BY <2>3 DEF CopyStat
    <3>6. /\ s \in Paper /\ r.id = s.id /\ r.tag = s.tag /\ r.hash = s.hash
          /\ r.stat = IF s \in Placing THEN store[DocumentDir(s)] ELSE s.stat
      BY <3>2, <3>5 DEF Paper
    <3>7. QED
      BY <3>2, <3>3, <3>4, <3>6 DEF DocumentDir
  <2>4. QED
    BY <2>1, <2>2, <2>3
<1>4. \A r \in papers' : DocumentDir(r)' = DocumentDir(r)
  BY DEF DocumentDir
<1>5. QED
  BY <1>1, <1>2, <1>3, <1>4 DEF Unreplaced, PlaceStep

LEMMA UnreplacedKept ==
  ASSUME ~MayReplace, Inductive, Unreplaced, [Next]_vars
  PROVE  Unreplaced'
<1>1. CASE Rescan \/ Link \/ Commands \/ Crash \/ Record
  BY <1>1, Elsewhere DEF Unreplaced, PlaceStep
<1>2. CASE HashCandidates
  BY <1>2 DEF HashCandidates, Unreplaced, Step, disk, PlaceStep
<1>3. CASE ReadBurst
  BY <1>3 DEF ReadBurst, Unreplaced, Step, disk, PlaceStep
<1>4. CASE Drop
  <2>1. PICK q \in Paths, c \in Contents \cup {None} :
          /\ input[q] = None \/ at = "idle"
          /\ input' = [input EXCEPT ![q] = c]
    BY <1>4 DEF Drop
  <2>2. TypeOK /\ UNCHANGED <<store, at, found, drafts, papers>>
    BY <1>4 DEF Drop, memory, Inductive
  <2>3. \A x \in Paths : input[x] \in Contents /\ at # "idle" => input'[x] = input[x]
    BY <2>1, <2>2, FileKinds DEF TypeOK
  <2>4. /\ Placing' = Placing
        /\ \A r \in papers : DocumentDir(r)' = DocumentDir(r)
    BY <2>2 DEF Placing, DocumentDir
  <2>5. at \in {"known", "label"} => \A d \in found : input'[d[1]] = d[2]
    BY <2>2, <2>3 DEF Unreplaced, TypeOK
  <2>6. at \in PlaceStep \cup {"place"} => \A d \in drafts : input'[d.path] = d.hash
    BY <2>2, <2>3 DEF Unreplaced, TypeOK, PlaceStep
  <2>7. at \in PlaceStep /\ at # "stored" => \A d \in found : input'[d[1]] = d[2]
    <3> SUFFICES ASSUME at \in PlaceStep, at # "stored", NEW d \in found
                 PROVE  input'[d[1]] = d[2]
      OBVIOUS
    <3>1. input[d[1]] = d[2] /\ d \in Paths \X Contents
      BY <2>2, OnItsWay DEF Unreplaced, TypeOK
    <3>2. QED
      BY <2>3, <3>1 DEF PlaceStep
  <2>8. QED
    BY <2>2, <2>4, <2>5, <2>6, <2>7 DEF Unreplaced
<1>5. CASE Edit
  <2>1. PICK i \in Documents, c \in Contents : store' = [store EXCEPT ![Home(i)] = c]
    BY <1>5 DEF Edit
  <2>2. TypeOK /\ UNCHANGED <<input, at, found, drafts, papers>>
    BY <1>5 DEF Edit, memory, Inductive
  <2>3. /\ Placing' = Placing
        /\ \A r \in papers : DocumentDir(r)' = DocumentDir(r)
    BY <2>2 DEF Placing, DocumentDir
  <2>4. at \in PlaceStep \cup {"place", "record"} =>
          \A r \in papers : store'[DocumentDir(r)] = store[DocumentDir(r)]
    <3> SUFFICES ASSUME at \in PlaceStep \cup {"place", "record"}, NEW r \in papers
                 PROVE  store'[DocumentDir(r)] = store[DocumentDir(r)]
      OBVIOUS
    <3>1. r \in Paper /\ r.id \notin Documents
      BY <2>2 DEF Inductive, Placed, TypeOK
    <3>2. /\ DocumentDir(r) \in Folders /\ DocumentDir(r) # Home(i)
      BY <2>2, <3>1, PaperDirs, RowPapers
    <3>3. QED
      BY <2>1, <2>2, <3>2 DEF TypeOK
  <2>5. QED
    BY <2>2, <2>3, <2>4 DEF Unreplaced, Placing
<1>6. CASE UNCHANGED vars
  BY <1>6 DEF vars, Unreplaced, Placing, DocumentDir
<1>7. QED
  BY <1>1, <1>2, <1>3, <1>4, <1>5, <1>6, LabelsWhatWaits, PlacesWhatWaits,
     CopiesWhatWaits, RecordsWhatArrived DEF Next, Pass

----------------------------------------------------------------------------
(* What a row knows of its file is never of a later version than the file.   *)

(* Files are numbers, so versions compare.                                   *)
LEMMA Versions ==
  /\ Files \subseteq Int
  /\ \A x \in Files : x <= x
  /\ \A r \in Row : r.hash \in Files /\ r.stat \in Files
  BY FilingAssumption DEF Files, Torn, Row

(* The order stays while rows stay and files only get later versions.        *)
LEMMA OrderStays ==
  ASSUME Inductive, Ordered, UNCHANGED rows, at' \notin {"hash", "rewrite", "set"},
         \A i \in Documents :
           store'[Home(i)] \in Files => /\ store[Home(i)] \in Files
                                        /\ store[Home(i)] <= store'[Home(i)]
  PROVE  Ordered'
<1>1. Documents' = Documents /\ \A i \in Documents : Home(i)' = Home(i)
  BY DEF Documents, Home
<1>2. ASSUME NEW i \in Documents PROVE InOrder(rows[i], Home(i))'
  <2> SUFFICES ASSUME store'[Home(i)] \in Files
               PROVE  rows[i].stat <= rows[i].hash /\ rows[i].hash <= store'[Home(i)]
    BY <1>1 DEF InOrder, Readable
  <2>1. /\ rows[i].stat \in Int /\ rows[i].hash \in Int
        /\ store[Home(i)] \in Int /\ store'[Home(i)] \in Int
    BY RowPapers, Versions DEF Inductive
  <2>2. rows[i].stat <= rows[i].hash /\ rows[i].hash <= store[Home(i)]
    BY DEF Ordered, InOrder, Readable
  <2>3. QED
    BY <2>1, <2>2
<1>3. QED
  BY <1>1, <1>2 DEF Ordered

(* A pass touches no folder a row names.                                     *)
LEMMA OrderOfPlacing ==
  ASSUME Inductive, Ordered, PlaceMkdir \/ CopyBegin \/ CopyEnd \/ MoveAtOnce
  PROVE  Ordered'
<1>1. TypeOK /\ UNCHANGED rows /\ at' \notin {"hash", "rewrite", "set"}
  BY DEF Inductive, PlaceMkdir, CopyBegin, CopyEnd, MoveAtOnce, Step
<1>2. \A i \in Documents : /\ Home(i) \in Folders /\ Home(i)[1] = i /\ i \in minted
                           /\ store[Home(i)] \in Files => store[Home(i)] \in Int
  BY <1>1, RowPapers, Versions DEF Inductive, Owned
<1>3. \A i \in Documents : store'[Home(i)] = store[Home(i)]
  <2>1. CASE PlaceMkdir
    <3>1. PICK i \in Ids \ minted, d \in drafts :
            store' = [store EXCEPT ![DocumentDir(Described(i, d))] = Empty]
      BY <2>1 DEF PlaceMkdir
    <3>2. DocumentDir(Described(i, d))[1] = i
      BY DEF DocumentDir, Described
    <3>3. QED
      BY <1>1, <1>2, <3>1, <3>2 DEF TypeOK
  <2>2. CASE CopyBegin \/ CopyEnd \/ MoveAtOnce
    <3>1. PICK p \in papers : /\ Placing = {p} /\ p.id \notin Documents
                              /\ DocumentDir(p)[1] = p.id
      BY <2>2, OnItsWay DEF CopyBegin, CopyEnd, MoveAtOnce, Step, PlaceStep
    <3>2. \A f \in Folders : f # DocumentDir(p) => store'[f] = store[f]
      BY <1>1, <2>2, <3>1 DEF CopyBegin, CopyEnd, MoveAtOnce, TypeOK
    <3>3. QED
      BY <1>2, <3>1, <3>2
  <2>3. QED
    BY <2>1, <2>2
<1>4. QED
  BY <1>1, <1>2, <1>3, OrderStays

(* rescan: the stat comes before the hash, and both before the row.          *)
LEMMA OrderOfRescan ==
  ASSUME Inductive, Ordered, RescanStat \/ RescanHash \/ RescanWrite
  PROVE  Ordered'
<1>1. /\ TypeOK /\ UNCHANGED store
      /\ \A i \in Documents : Home(i) \in Folders /\ InOrder(rows[i], Home(i))
  BY RowPapers DEF Inductive, Ordered, RescanStat, RescanHash, RescanWrite, disk
<1>2. CASE RescanStat
  <2>1. /\ at = "stat" /\ at' = "hash" /\ UNCHANGED rows /\ Inductive'
    BY <1>2, RescanStatStep DEF RescanStat, Step
  <2>2. \A p \in papers' : p.stat = store[Home(p.id)]
    <3> TAKE r \in papers'
    <3>1. PICK p \in papers : r = [p EXCEPT !.stat = store[DocumentDir(p)]]
      BY <1>2 DEF RescanStat
    <3>2. p \in Paper /\ DocumentDir(p) = Home(p.id)
      BY <1>1, <2>1, <3>1, RowPapers DEF Inductive, Scanning
    <3>3. QED
      BY <3>1, <3>2 DEF Paper
  <2>3. /\ Documents' = Documents /\ \A i \in Documents : Home(i)' = Home(i)
    BY <2>1 DEF Documents, Home
  <2>4. \A p \in papers' : p.id \in Documents /\ p.stat \in Int
    BY <2>1, <2>3, Versions DEF Inductive, Scanning
  <2>5. \A p \in papers' : p.stat <= store'[Home(p.id)']
    BY <1>1, <2>2, <2>3, <2>4
  <2>6. \A i \in Documents' : InOrder(rows[i], Home(i))'
    BY <1>1, <2>1, <2>3 DEF InOrder, Readable
  <2>7. QED
    BY <2>1, <2>5, <2>6 DEF Ordered
<1>3. CASE RescanHash
  <2>1. /\ at = "hash" /\ at' = "rewrite" /\ UNCHANGED rows
    BY <1>3 DEF RescanHash, Step
  <2>2. /\ Documents' = Documents /\ \A i \in Documents : Home(i)' = Home(i)
    BY <2>1 DEF Documents, Home
  <2>3. \A p \in papers' : p.stat <= p.hash /\ p.hash <= store'[Home(p.id)']
    <3> TAKE r \in papers'
    <3>1. PICK p \in papers : r = [p EXCEPT !.hash = store[DocumentDir(p)]]
      BY <1>3 DEF RescanHash
    <3>2. /\ p \in Paper /\ p.id \in Documents /\ DocumentDir(p) = Home(p.id)
          /\ store[Home(p.id)] \in Int /\ p.stat <= store[Home(p.id)]
      BY <1>1, <2>1, <3>1, Versions DEF Inductive, TypeOK, Scanning, Ordered, Readable
    <3>3. r.id = p.id /\ r.stat = p.stat /\ r.hash = store[Home(p.id)]
      BY <3>1, <3>2 DEF Paper
    <3>4. QED
      BY <1>1, <2>2, <3>2, <3>3
  <2>4. \A p \in papers' : InOrder(p, Home(p.id))'
    BY <2>3 DEF InOrder
  <2>5. \A i \in Documents' : InOrder(rows[i], Home(i))'
    BY <1>1, <2>1, <2>2 DEF InOrder, Readable
  <2>6. QED
    BY <2>1, <2>4, <2>5 DEF Ordered
<1>4. CASE RescanWrite
  <2>1. at = "rewrite" /\ at' \in {"idle", "candidates"}
    BY <1>4 DEF RescanWrite, RescanOver, Done
  <2>2. /\ Documents' = Documents
        /\ \A i \in Documents :
             /\ Home(i)' = Home(i)
             /\ \/ rows'[i] = rows[i]
                \/ \E p \in papers : /\ p.id = i
                                     /\ rows'[i].hash = p.hash
                                     /\ rows'[i].stat = p.stat
    BY <1>4, RescannedRows
  <2>3. \A p \in papers : InOrder(p, Home(p.id))
    BY <2>1 DEF Ordered
  <2>4. ASSUME NEW i \in Documents PROVE InOrder(rows[i], Home(i))'
    BY <1>1, <2>2, <2>3 DEF InOrder, Readable
  <2>5. QED
    BY <2>1, <2>2, <2>4 DEF Ordered
<1>5. QED
  BY <1>2, <1>3, <1>4

(* A new row is written from the file, an old one moves with its folder.     *)
LEMMA OrderOfRows ==
  ASSUME Inductive, Unreplaced, Ordered,
         Record \/ Adopt \/ RetagSet \/ RemoveDelete
  PROVE  Ordered'
<1>1. /\ TypeOK /\ UNCHANGED store /\ at' \in {"link", "idle"}
      /\ \A i \in Documents : InOrder(rows[i], Home(i))
  BY DEF Inductive, Ordered, Record, Adopt, RetagSet, RemoveDelete, Begin, Step, Done, disk
<1>2. SUFFICES ASSUME NEW i \in Documents' PROVE InOrder(rows[i], Home(i))'
  BY <1>1 DEF Ordered
<1>3. CASE Record
  <2>1. /\ at = "record"
        /\ Documents' = Documents \cup {p.id : p \in papers}
        /\ \A j \in Documents : rows'[j] = rows[j] /\ Home(j)' = Home(j)
        /\ \A p \in papers : rows'[p.id] = AsRow(p) /\ Home(p.id)' = DocumentDir(p)
    BY <1>3, RecordedRows DEF Record, Step
  <2>2. CASE i \in Documents
    BY <1>1, <2>1, <2>2 DEF InOrder, Readable
  <2>3. ASSUME NEW p \in papers, i = p.id PROVE InOrder(rows[i], Home(i))'
    <3>1. /\ p \in Paper /\ p.stat = p.hash /\ p.hash = store[DocumentDir(p)]
          /\ p.hash \in Int
      BY <1>1, <2>1, Versions DEF Inductive, TypeOK, Placed, Unreplaced, Paper
    <3>2. AsRow(p).stat = p.stat /\ AsRow(p).hash = p.hash
      BY DEF AsRow
    <3>3. QED
      BY <1>1, <2>1, <2>3, <3>1, <3>2 DEF InOrder
  <2>4. QED
    BY <2>1, <2>2, <2>3
<1>4. CASE Adopt
  <2>1. PICK f \in Orphans :
          Readable(f) /\ rows' = [rows EXCEPT ![f[1]] = AsRow(Adopted(f))]
    BY <1>4 DEF Adopt
  <2>2. /\ f[1] \in Ids /\ f = <<f[1], f[2]>> /\ store[f] \in Int
        /\ AsRow(Adopted(f)).tag = f[2]
        /\ AsRow(Adopted(f)).hash = store[f] /\ AsRow(Adopted(f)).stat = store[f]
    BY <2>1, AdoptedFolders, Versions DEF AsRow, Adopted, Readable
  <2>3. \A j \in Ids : rows'[j] = IF j = f[1] THEN AsRow(Adopted(f)) ELSE rows[j]
    BY <1>1, <2>1 DEF TypeOK
  <2>4. CASE i = f[1]
    BY <1>1, <2>2, <2>3, <2>4 DEF InOrder, Home
  <2>5. CASE i # f[1]
    <3>1. i \in Documents /\ Home(i)' = Home(i) /\ rows'[i] = rows[i]
      BY <2>3, <2>5 DEF Documents, Home
    <3>2. QED
      BY <1>1, <3>1 DEF InOrder, Readable
  <2>6. QED
    BY <2>4, <2>5
<1>5. CASE RetagSet
  <2>1. PICK p \in Paper :
          /\ papers = {p} /\ p.id \in Documents
          /\ rows' = [rows EXCEPT ![p.id].tag = p.tag]
          /\ InOrder(rows[p.id], DocumentDir(p))
    BY <1>5, Retagged DEF RetagSet, Step, Ordered
  <2>2. rows[p.id] \in Row /\ p.id \in Ids
    BY <1>1, <2>1, RowPapers
  <2>3. /\ rows'[p.id].hash = rows[p.id].hash /\ rows'[p.id].stat = rows[p.id].stat
        /\ rows'[p.id].tag = p.tag
        /\ \A j \in Ids : j # p.id => rows'[j] = rows[j]
    BY <1>1, <2>1, <2>2 DEF TypeOK, Row
  <2>4. CASE i = p.id
    <3>1. Home(i)' = DocumentDir(p)
      BY <2>3, <2>4 DEF Home, DocumentDir
    <3>2. QED
      BY <1>1, <2>1, <2>3, <2>4, <3>1 DEF InOrder, Readable
  <2>5. CASE i # p.id
    <3>1. i \in Documents /\ Home(i)' = Home(i) /\ rows'[i] = rows[i]
      BY <2>3, <2>5 DEF Documents, Home
    <3>2. QED
      BY <1>1, <3>1 DEF InOrder, Readable
  <2>6. QED
    BY <2>4, <2>5
<1>6. CASE RemoveDelete
  <2>1. PICK p \in papers : rows' = [rows EXCEPT ![p.id] = None]
    BY <1>6 DEF RemoveDelete
  <2>2. i \in Documents /\ Home(i)' = Home(i) /\ rows'[i] = rows[i]
    BY <1>1, <2>1 DEF Documents, Home, TypeOK
  <2>3. QED
    BY <1>1, <2>2 DEF InOrder, Readable
<1>7. QED
  BY <1>3, <1>4, <1>5, <1>6

(* retag takes the file along; remove leaves none to be wrong about.         *)
LEMMA OrderOfFolders ==
  ASSUME Inductive, Ordered, RetagRename \/ RemoveTree \/ RemoveRefused
  PROVE  Ordered'
<1>1. /\ TypeOK /\ UNCHANGED rows
      /\ \A i \in Documents : /\ InOrder(rows[i], Home(i)) /\ Home(i) \in Folders
                              /\ Home(i)[1] = i
                              /\ store[Home(i)] \in Files => store[Home(i)] \in Int
  BY RowPapers, Versions DEF Inductive, Ordered, RetagRename, RemoveTree, RemoveRefused
<1>2. CASE RetagRename
  <2>1. /\ at = "rename" /\ at' = "set" /\ UNCHANGED papers
    BY <1>2 DEF RetagRename, Step, memory
  <2>2. PICK p \in Paper :
          /\ papers = {p} /\ p.id \in Documents /\ DocumentDir(p) \in Folders
          /\ DocumentDir(p)[1] = p.id
          /\ store' = [f \in Folders |-> IF f = DocumentDir(p) THEN store[Home(p.id)]
                                         ELSE IF f = Home(p.id) THEN None
                                         ELSE store[f]]
    BY <1>2, <2>1, Retagged DEF RetagRename
  <2>3. /\ Documents' = Documents /\ \A i \in Documents : Home(i)' = Home(i)
        /\ DocumentDir(p)' = DocumentDir(p)
    BY <1>1 DEF Documents, Home, DocumentDir
  <2>4. ASSUME NEW i \in Documents PROVE InOrder(rows[i], Home(i))'
    <3>1. CASE i # p.id
      BY <1>1, <2>2, <2>3, <3>1 DEF InOrder, Readable
    <3>2. CASE i = p.id /\ Home(i) = DocumentDir(p)
      BY <1>1, <2>2, <2>3, <3>2 DEF InOrder, Readable
    <3>3. CASE i = p.id /\ Home(i) # DocumentDir(p)
      BY <1>1, <2>2, <2>3, <3>3, FileKinds DEF InOrder, Readable
    <3>4. QED
      BY <3>1, <3>2, <3>3
  <2>5. InOrder(rows[p.id], DocumentDir(p))'
    BY <1>1, <2>2, <2>3 DEF InOrder, Readable
  <2>6. QED
    BY <2>1, <2>2, <2>3, <2>4, <2>5 DEF Ordered
<1>3. CASE RemoveTree \/ RemoveRefused
  <2>1. at' \notin {"hash", "rewrite", "set"}
    BY <1>3 DEF RemoveTree, RemoveRefused, Step, Done
  <2>2. PICK p \in papers :
          \/ store' = [store EXCEPT ![DocumentDir(p)] = None]
          \/ store' = [store EXCEPT ![DocumentDir(p)] = Empty]
          \/ store' = store
    BY <1>3 DEF RemoveTree, RemoveRefused
  <2>3. \A f \in Folders : store'[f] \in Files => store'[f] = store[f]
    BY <1>1, <2>2, FileKinds DEF TypeOK
  <2>4. QED
    BY <1>1, <2>1, <2>3, OrderStays
<1>4. QED
  BY <1>2, <1>3

(* A saved document is of a later version wherever it is looked for.         *)
LEMMA OrderOfEdits ==
  ASSUME Inductive, Ordered, Edit \/ Drop \/ UNCHANGED vars
  PROVE  Ordered'
<1>1. TypeOK /\ UNCHANGED <<rows, at, papers>>
  BY DEF Inductive, Edit, Drop, memory, vars
<1>2. \A f \in Folders :
        store'[f] \in Files => /\ store[f] \in Files /\ store[f] \in Int
                               /\ store'[f] \in Int /\ store[f] <= store'[f]
  <2>1. CASE UNCHANGED store
    BY <2>1, Versions
  <2>2. ASSUME NEW i \in Documents, NEW c \in Contents, store[Home(i)] \in Contents,
               store[Home(i)] < c, store' = [store EXCEPT ![Home(i)] = c]
        PROVE  \A f \in Folders :
                 store'[f] \in Files => /\ store[f] \in Files /\ store[f] \in Int
                                        /\ store'[f] \in Int /\ store[f] <= store'[f]
    <3>1. c \in Int /\ store[Home(i)] \in Int /\ store[Home(i)] \in Files
      BY <2>2, Versions, FileKinds
    <3>2. store[Home(i)] <= c
      BY <2>2, <3>1
    <3>3. \A f \in Folders : store'[f] = IF f = Home(i) THEN c ELSE store[f]
      BY <1>1, <2>2 DEF TypeOK
    <3>4. QED
      BY <3>1, <3>2, <3>3, Versions
  <2>3. QED
    BY <2>1, <2>2 DEF Edit, Drop, vars
<1>3. ASSUME NEW r, NEW f \in Folders, r.stat \in Int, r.hash \in Int,
             (r.stat <= r.hash /\ r.hash <= store[f]) \/ store[f] \notin Files
      PROVE  store'[f] \in Files => r.stat <= r.hash /\ r.hash <= store'[f]
  BY <1>2, <1>3
<1>4. /\ Documents' = Documents /\ \A i : Home(i)' = Home(i)
      /\ \A i \in Documents : /\ Home(i) \in Folders
                              /\ rows[i].stat \in Int /\ rows[i].hash \in Int
      /\ \A p \in papers : p \in Paper /\ DocumentDir(p)' = DocumentDir(p)
  BY <1>1, RowPapers, Versions DEF Documents, Home, TypeOK, DocumentDir
<1>5. \A i \in Documents : InOrder(rows[i], Home(i))'
  BY <1>1, <1>3, <1>4 DEF Ordered, InOrder, Readable
<1>6. at = "hash" => \A p \in papers : p.stat <= store'[Home(p.id)]
  <2> SUFFICES ASSUME at = "hash", NEW p \in papers PROVE p.stat <= store'[Home(p.id)]
    OBVIOUS
  <2>1. /\ p.id \in Documents /\ p.stat \in Int /\ p.stat <= store[Home(p.id)]
        /\ store[Home(p.id)] \in Files
    BY Versions DEF Inductive, Scanning, Ordered, Readable
  <2>2. store'[Home(p.id)] \in Files
    <3>1. CASE UNCHANGED store
      BY <2>1, <3>1
    <3>2. CASE Edit
      BY <1>1, <1>4, <2>1, <3>2, FileKinds DEF Edit, TypeOK
    <3>3. QED
      BY <3>1, <3>2 DEF Drop, vars
  <2>3. QED
    BY <1>2, <1>4, <2>1, <2>2
<1>7. at = "rewrite" => \A p \in papers : InOrder(p, Home(p.id))'
  <2> SUFFICES ASSUME at = "rewrite", NEW p \in papers PROVE InOrder(p, Home(p.id))'
    OBVIOUS
  <2>1. /\ p.id \in Documents /\ p.stat \in Int /\ p.hash \in Int
        /\ InOrder(p, Home(p.id))
    BY <1>4, Versions DEF Inductive, Scanning, Ordered, Paper
  <2>2. QED
    BY <1>3, <1>4, <2>1 DEF InOrder, Readable
<1>8. at = "set" => \A p \in papers : InOrder(rows[p.id], DocumentDir(p))'
  <2> SUFFICES ASSUME at = "set", NEW p \in papers
               PROVE  InOrder(rows[p.id], DocumentDir(p))'
    OBVIOUS
  <2>1. /\ p.id \in Documents /\ DocumentDir(p) \in Folders
        /\ InOrder(rows[p.id], DocumentDir(p))
    BY <1>4, PaperDirs DEF Inductive, Retagging, Ordered
  <2>2. QED
    BY <1>1, <1>3, <1>4, <2>1 DEF InOrder, Readable
<1>9. QED
  BY <1>1, <1>4, <1>5, <1>6, <1>7, <1>8 DEF Ordered

LEMMA OrderedKept ==
  ASSUME Inductive, Unreplaced, Ordered, [Next]_vars
  PROVE  Ordered'
(* The steps that leave disk and database alone.                             *)
<1>1. ASSUME UNCHANGED <<store, rows>>, at' \notin {"hash", "rewrite", "set"}
      PROVE  Ordered'
  <2>1. \A i \in Documents : store[Home(i)] \in Files => store[Home(i)] <= store[Home(i)]
    BY Versions
  <2>2. QED
    BY <1>1, <2>1, OrderStays
<1>2. CASE Rescan
  <2>1. CASE RescanRead("pass") \/ RescanRead("scan") \/ RescanFails
    BY <1>1, <2>1 DEF RescanRead, RescanFails, RescanOver, Begin, Done, disk
  <2>2. QED
    BY <1>2, <2>1, OrderOfRescan DEF Rescan
<1>3. CASE Pass
  <2>1. CASE \/ HashCandidates \/ ReadBurst \/ Label \/ MoveUnlink \/ CopyStat
             \/ PlaceFails \/ PlacedAll
    BY <1>1, <2>1 DEF HashCandidates, ReadBurst, Label, MoveUnlink, CopyStat, PlaceFails,
                      PlacedAll, Step, disk
  <2>2. QED
    BY <1>3, <2>1, OrderOfPlacing, OrderOfRows DEF Pass
<1>4. CASE Commands
  <2>1. CASE RetagUnlink \/ RemoveUnlink \/ RebuildTree
    BY <1>1, <2>1 DEF RetagUnlink, RemoveUnlink, RebuildTree, Begin, disk
  <2>2. QED
    BY <1>4, <2>1, OrderOfRows, OrderOfFolders DEF Commands
<1>5. CASE Link \/ Crash
  BY <1>1, <1>5 DEF Link, Crash, Done, disk
<1>6. QED
  BY <1>2, <1>3, <1>4, <1>5, OrderOfEdits DEF Next

----------------------------------------------------------------------------
(* rescan finds what changed, and the pass keeps to what it found.           *)

(* Each of rescan's steps knows more of the documents nobody touches.        *)
LEMMA ReconciledByRescan ==
  ASSUME Inductive, Ordered, Reconciled, Rescan
  PROVE  Reconciled'
<1>1. /\ TypeOK /\ UNCHANGED store
      /\ \A i \in Documents : /\ i \in Ids /\ Home(i) \in Folders
                              /\ rows[i].hash \in Int /\ rows[i].stat \in Int
                              /\ store[Home(i)] \in Files => store[Home(i)] \in Int
  BY RowPapers, Versions DEF Inductive, Rescan, RescanRead, RescanStat, RescanHash,
                             RescanWrite, RescanFails, disk
<1>2. CASE RescanRead("pass") \/ RescanRead("scan")
  <2>1. /\ at' = "stat" /\ UNCHANGED rows
        /\ steady' = [i \in Ids |-> IF i \in Documents THEN store[Home(i)] ELSE None]
    BY <1>2 DEF RescanRead, Begin
  <2>2. Documents' = Documents /\ \A i : Home(i)' = Home(i)
    BY <2>1 DEF Documents, Home
  <2>3. QED
    BY <1>1, <2>1, <2>2 DEF Reconciled, PassSteps, PlaceStep
<1>3. CASE RescanStat
  <2>1. at = "stat" /\ at' = "hash" /\ UNCHANGED <<rows, steady>>
    BY <1>3 DEF RescanStat, Step, ghosts
  <2>2. Documents' = Documents /\ \A i : Home(i)' = Home(i)
    BY <2>1 DEF Documents, Home
  <2>3. ASSUME NEW i \in Documents, steady[i] \in Files
        PROVE  /\ store[Home(i)] = steady[i]
               /\ rows[i].hash = steady[i] \/ \E p \in papers' : p.id = i
    <3>1. store[Home(i)] = steady[i]
      BY <2>1, <2>3 DEF Reconciled
    <3>2. CASE rows[i].stat = steady[i]
      BY <1>1, <2>3, <3>1, <3>2 DEF Ordered, InOrder, Readable
    <3>3. CASE rows[i].stat # steady[i]
      <4> DEFINE p == AsPaper(i)
      <4>1. /\ p \in papers /\ p \in Paper /\ p.id = i /\ p.stat = rows[i].stat
            /\ DocumentDir(p) = Home(i)
        BY <1>1, <2>1, RowPapers DEF Inductive, Scanning
      <4> HIDE DEF p
      <4>2. [p EXCEPT !.stat = store[DocumentDir(p)]] \in papers'
        BY <1>3, <2>3, <3>1, <3>3, <4>1 DEF RescanStat, Readable
      <4>3. [p EXCEPT !.stat = store[DocumentDir(p)]].id = i
        BY <4>1 DEF Paper
      <4>4. QED
        BY <3>1, <4>2, <4>3
    <3>4. QED
      BY <3>2, <3>3
  <2>4. QED
    BY <1>1, <2>1, <2>2, <2>3 DEF Reconciled, PassSteps, PlaceStep
<1>4. CASE RescanHash
  <2>1. /\ at = "hash" /\ at' = "rewrite" /\ UNCHANGED <<rows, steady>>
        /\ papers' = {[p EXCEPT !.hash = store[DocumentDir(p)]] : p \in papers}
    BY <1>4 DEF RescanHash, Step, ghosts
  <2>2. Documents' = Documents /\ \A i : Home(i)' = Home(i)
    BY <2>1 DEF Documents, Home
  <2>3. \A p \in papers : /\ [p EXCEPT !.hash = store[DocumentDir(p)]].id = p.id
                          /\ [p EXCEPT !.hash = store[DocumentDir(p)]].hash = store[Home(p.id)]
    BY <1>1, <2>1 DEF TypeOK, Paper, Inductive, Scanning
  <2>4. ASSUME NEW i \in Documents, steady[i] \in Files
        PROVE  /\ store[Home(i)] = steady[i]
               /\ rows[i].hash = steady[i] \/ \E p \in papers' : p.id = i
               /\ \A p \in papers' : p.id = i => p.hash = steady[i]
    <3>1. /\ store[Home(i)] = steady[i]
          /\ rows[i].hash = steady[i] \/ \E p \in papers : p.id = i
      BY <2>1, <2>4 DEF Reconciled
    <3>2. ASSUME NEW p \in papers, p.id = i PROVE \E r \in papers' : r.id = i
      BY <2>1, <2>3, <3>2
    <3>3. ASSUME NEW r \in papers', r.id = i PROVE r.hash = steady[i]
      <4>1. PICK p \in papers : r = [p EXCEPT !.hash = store[DocumentDir(p)]]
        BY <2>1
      <4>2. QED
        BY <2>3, <3>1, <3>3, <4>1
    <3>4. QED
      BY <3>1, <3>2, <3>3
  <2>5. QED
    BY <1>1, <2>1, <2>2, <2>4 DEF Reconciled, PassSteps, PlaceStep
<1>5. CASE RescanWrite
  <2>1. /\ at = "rewrite" /\ at' \in {"idle", "candidates"} /\ UNCHANGED steady
    BY <1>5 DEF RescanWrite, RescanOver, Done, ghosts
  <2>2. /\ Documents' = Documents
        /\ \A i \in Documents :
             /\ Home(i)' = Home(i)
             /\ \/ rows'[i] = rows[i] /\ \A p \in papers : p.id # i
                \/ \E p \in papers : p.id = i /\ rows'[i].hash = p.hash
    BY <1>5, RescannedRows
  <2>3. ASSUME NEW i \in Documents, steady[i] \in Files
        PROVE  store[Home(i)] = steady[i] /\ rows'[i].hash = steady[i]
    <3>1. /\ store[Home(i)] = steady[i]
          /\ rows[i].hash = steady[i] \/ \E p \in papers : p.id = i
          /\ \A p \in papers : p.id = i => p.hash = steady[i]
      BY <2>1, <2>3 DEF Reconciled
    <3>2. QED
      BY <2>2, <3>1
  <2>4. QED
    BY <1>1, <2>1, <2>2, <2>3 DEF Reconciled, PassSteps, PlaceStep
<1>6. CASE RescanFails
  <2>1. steady' = [i \in Ids |-> None] /\ UNCHANGED rows
    BY <1>6 DEF RescanFails
  <2>2. \A i \in Documents' : steady'[i] \notin Files
    BY <2>1, FileKinds DEF Documents
  <2>3. QED
    BY <2>2 DEF Reconciled
<1>7. QED
  BY <1>2, <1>3, <1>4, <1>5, <1>6 DEF Rescan

LEMMA ReconciledKept ==
  ASSUME Inductive, Ordered, Reconciled, [Next]_vars
  PROVE  Reconciled'
<1>1. TypeOK
  BY DEF Inductive
<1>2. CASE Pass
  <2>1. /\ at \in PassSteps /\ UNCHANGED steady
        /\ at' \in {"candidates", "known"} => at = "candidates" /\ UNCHANGED store
        /\ at' = "link" \/ (at' \in PassSteps /\ UNCHANGED rows)
    <3>1. CASE HashCandidates \/ ReadBurst \/ PlacedAll
      BY <3>1 DEF HashCandidates, ReadBurst, PlacedAll, Step, PassSteps, ghosts, disk
    <3>2. CASE PlaceMkdir \/ CopyBegin \/ CopyEnd \/ MoveAtOnce \/ MoveUnlink
      BY <3>2 DEF PlaceMkdir, CopyBegin, CopyEnd, MoveAtOnce, MoveUnlink, Step,
                  PassSteps, PlaceStep, ghosts
    <3>3. CASE CopyStat \/ PlaceFails
      BY <3>3 DEF CopyStat, PlaceFails, Step, PassSteps, PlaceStep, ghosts, disk
    <3>4. CASE Label
      BY <3>4 DEF Label, Step, PassSteps, ghosts
    <3>5. CASE Record
      <4>1. at = "record" /\ at' = "link" /\ UNCHANGED steady
        BY <3>5 DEF Record, Step, ghosts
      <4>2. QED
        BY <4>1 DEF PassSteps
    <3>6. QED
      BY <1>2, <3>1, <3>2, <3>3, <3>4, <3>5 DEF Pass
  <2>2. CASE at' = "link"
    BY <2>2 DEF Reconciled, PassSteps, PlaceStep
  <2>3. CASE at' \in PassSteps /\ UNCHANGED rows
    <3>1. Documents' = Documents /\ \A i : Home(i)' = Home(i)
      BY <2>3 DEF Documents, Home
    <3>2. QED
      BY <2>1, <2>3, <3>1 DEF Reconciled, PassSteps, PlaceStep
  <2>4. QED
    BY <2>1, <2>2, <2>3
<1>3. CASE Link \/ Crash
  BY <1>3 DEF Link, Crash, Done, Reconciled, PassSteps, PlaceStep
<1>4. CASE Commands
  BY <1>4 DEF Commands, RetagUnlink, RetagRename, RetagSet, RemoveUnlink, RemoveTree,
              RemoveRefused, RemoveDelete, Adopt, RebuildTree, Begin, Step, Done,
              Reconciled, PassSteps, PlaceStep
<1>5. CASE Drop \/ UNCHANGED vars
  <2>1. UNCHANGED <<store, rows, at, papers, steady>>
    BY <1>5 DEF Drop, memory, ghosts, vars
  <2>2. Documents' = Documents /\ \A i : Home(i)' = Home(i)
    BY <2>1 DEF Documents, Home
  <2>3. QED
    BY <2>1, <2>2 DEF Reconciled
<1>6. CASE Edit
  <2>1. PICK i \in Documents, c \in Contents :
          /\ store' = [store EXCEPT ![Home(i)] = c]
          /\ steady' = [steady EXCEPT ![i] = None]
    BY <1>6 DEF Edit
  <2>2. UNCHANGED <<rows, at, papers>>
    BY <1>6 DEF Edit, memory
  <2>3. Documents' = Documents /\ \A j : Home(j)' = Home(j)
    BY <2>2 DEF Documents, Home
  <2>4. steady'[i] = None /\ i \in Ids
    BY <1>1, <2>1 DEF TypeOK, Documents
  <2>5. \A j \in Documents : steady'[j] \in Files =>
          steady'[j] = steady[j] /\ store'[Home(j)] = store[Home(j)]
    <3> TAKE j \in Documents
    <3>1. CASE j = i
      BY <2>4, <3>1, FileKinds
    <3>2. CASE j # i
      <4>1. Home(j) # Home(i) /\ Home(j) \in Folders
        BY <1>1, <3>2, RowPapers
      <4>2. QED
        BY <1>1, <2>1, <3>2, <4>1 DEF TypeOK, Documents
    <3>3. QED
      BY <3>1, <3>2
  <2>6. QED
    BY <2>2, <2>3, <2>5 DEF Reconciled
<1>7. QED
  BY <1>2, <1>3, <1>4, <1>5, <1>6, ReconciledByRescan DEF Next

----------------------------------------------------------------------------
(* What a pass files is in no row.                                           *)

LEMMA NewKept ==
  ASSUME Inductive, New, [Next]_vars
  PROVE  New'
<1>1. CASE Rescan \/ Link \/ Commands \/ Crash \/ Record
  BY <1>1, Elsewhere DEF New, PlaceStep
<1>2. CASE HashCandidates
  BY <1>2 DEF HashCandidates, New, Step, PlaceStep
<1>3. CASE ReadBurst
  BY <1>3 DEF ReadBurst, New, Step, PlaceStep, Documents
<1>4. CASE Label
  <2>1. /\ at = "label" /\ at' = "place" /\ TypeOK /\ papers' = {} /\ UNCHANGED rows
    BY <1>4 DEF Label, Step, Inductive, Phases
  <2>2. \A d \in drafts' : <<d.path, d.hash>> \in found
    BY <1>4, <2>1, DraftsOfCandidates
  <2>3. \A i \in Documents, d \in drafts' : d.hash # rows[i].hash
    BY <2>1, <2>2 DEF New
  <2>4. QED
    BY <2>1, <2>3 DEF New, PlaceStep, Documents
<1>5. CASE PlaceMkdir
  <2>1. /\ at = "place" /\ at' = "copy" /\ UNCHANGED rows /\ drafts' \subseteq drafts
        /\ \A p \in papers' : p \in papers \/ \E d \in drafts : p.hash = d.hash
    BY <1>5 DEF PlaceMkdir, Step, Described
  <2>2. QED
    BY <2>1 DEF New, PlaceStep, Documents
<1>6. CASE CopyBegin \/ CopyEnd \/ MoveAtOnce \/ MoveUnlink \/ PlaceFails \/ PlacedAll
  <2>1. /\ at \in PlaceStep \cup {"place"} /\ at' \in PlaceStep \cup {"place", "record"}
        /\ UNCHANGED rows /\ drafts' \subseteq drafts /\ papers' \subseteq papers
    BY <1>6 DEF CopyBegin, CopyEnd, MoveAtOnce, MoveUnlink, PlaceFails, PlacedAll, Step,
                PlaceStep, memory
  <2>2. QED
    BY <2>1 DEF New, PlaceStep, Documents
<1>7. CASE CopyStat
  <2>1. /\ at \in PlaceStep /\ at' = "place" /\ UNCHANGED <<rows, drafts>>
    BY <1>7 DEF CopyStat, Step, PlaceStep
  <2>2. \A r \in papers' : \E p \in papers : r.hash = p.hash
    BY <1>7 DEF CopyStat, Inductive, TypeOK, Paper
  <2>3. QED
    BY <2>1, <2>2 DEF New, PlaceStep, Documents
<1>8. CASE Drop \/ Edit \/ UNCHANGED vars
  BY <1>8 DEF Drop, Edit, memory, vars, New, Documents
<1>9. QED
  BY <1>1, <1>2, <1>3, <1>4, <1>5, <1>6, <1>7, <1>8 DEF Next, Pass

----------------------------------------------------------------------------
(* No bytes are lost.                                                        *)

LEMMA BytesStay ==
  ASSUME Inductive, Unreplaced, Next, at' # at, at # "rmtree",
         NEW c \in Contents, Held(c)
  PROVE  Held(c)'
<1>1. TypeOK /\ c # None /\ c # Empty /\ c # Torn
  BY FileKinds, FilingAssumption DEF Inductive, Torn
<1>2. CASE UNCHANGED <<input, store>>
  BY <1>2 DEF Held
(* What a folder is given takes the place of nothing.                        *)
<1>3. ASSUME NEW f \in Folders, store[f] \in {None, Empty, Torn},
             NEW x, store' = [store EXCEPT ![f] = x], UNCHANGED input
      PROVE  Held(c)'
  BY <1>1, <1>3 DEF Held, TypeOK
(* What leaves the input folder is in the store.                             *)
<1>4. ASSUME NEW q \in Paths, NEW f \in Folders, store'[f] = input[q],
             \A g \in Folders : g # f => store'[g] = store[g],
             store[f] \in {None, Empty, Torn, input[q]},
             input' = [input EXCEPT ![q] = None]
      PROVE  Held(c)'
  <2>1. CASE c = input[q]
    BY <1>4, <2>1 DEF Held
  <2>2. CASE c # input[q]
    <3>1. ASSUME NEW r \in Paths, input[r] = c PROVE input'[r] = c
      BY <1>1, <1>4, <2>2, <3>1 DEF TypeOK
    <3>2. ASSUME NEW g \in Folders, store[g] = c PROVE store'[g] = c
      BY <1>1, <1>4, <2>2, <3>2
    <3>3. QED
      BY <3>1, <3>2 DEF Held
  <2>3. QED
    BY <2>1, <2>2
<1>5. CASE PlaceMkdir
  <2>1. PICK i \in Ids \ minted, d \in drafts :
          store' = [store EXCEPT ![DocumentDir(Described(i, d))] = Empty]
    BY <1>5 DEF PlaceMkdir
  <2>2. d.tag \in Tags
    BY <1>1 DEF TypeOK
  <2>3. /\ DocumentDir(Described(i, d)) \in Folders
        /\ DocumentDir(Described(i, d))[1] = i
    BY <2>2 DEF DocumentDir, Described, Folders
  <2>4. store[DocumentDir(Described(i, d))] = None
    BY <2>3 DEF Inductive, Owned
  <2>5. QED
    BY <1>3, <1>5, <2>1, <2>3, <2>4 DEF PlaceMkdir
<1>6. CASE CopyBegin \/ CopyEnd \/ MoveAtOnce \/ MoveUnlink
  <2>1. PICK p \in papers, d \in Paths \X Contents :
          /\ Placing = {p} /\ found = {d} /\ Arriving(p, d)
          /\ DocumentDir(p) \in Folders
    BY <1>6, OnItsWay DEF CopyBegin, CopyEnd, MoveAtOnce, MoveUnlink, Step, PlaceStep
  <2>2. CASE CopyBegin
    BY <1>3, <2>1, <2>2 DEF CopyBegin, Step, Arriving
  <2>3. CASE CopyEnd
    BY <1>3, <2>1, <2>3 DEF CopyEnd, Step, Arriving
  <2>4. CASE MoveAtOnce
    <3>1. /\ store[DocumentDir(p)] = Empty /\ d[1] \in Paths
          /\ store' = [store EXCEPT ![DocumentDir(p)] = input[d[1]]]
          /\ input' = [input EXCEPT ![d[1]] = None]
      BY <2>1, <2>4 DEF MoveAtOnce, Step, Arriving
    <3>2. QED
      BY <1>1, <1>4, <2>1, <3>1 DEF TypeOK
  <2>5. CASE MoveUnlink
    <3>1. /\ store[DocumentDir(p)] = d[2] /\ d[1] \in Paths /\ input[d[1]] = d[2]
          /\ input' = [input EXCEPT ![d[1]] = None] /\ UNCHANGED store
      BY <2>1, <2>5 DEF MoveUnlink, Step, Arriving, Unreplaced, PlaceStep
    <3>2. QED
      BY <1>4, <2>1, <3>1
  <2>6. QED
    BY <1>6, <2>2, <2>3, <2>4, <2>5
<1>7. CASE RetagRename
  <2>1. UNCHANGED input
    BY <1>7 DEF RetagRename
  <2>2. PICK p \in Paper :
          /\ DocumentDir(p) \in Folders /\ Home(p.id) \in Folders
          /\ DocumentDir(p) = Home(p.id) \/ store[DocumentDir(p)] = None
          /\ store' = [f \in Folders |-> IF f = DocumentDir(p) THEN store[Home(p.id)]
                                         ELSE IF f = Home(p.id) THEN None
                                         ELSE store[f]]
    BY <1>7, Retagged DEF RetagRename, Step
  <2>3. ASSUME NEW f \in Folders, store[f] = c PROVE \E g \in Folders : store'[g] = c
    <3>1. CASE f = Home(p.id)
      BY <2>2, <2>3, <3>1
    <3>2. CASE f # Home(p.id)
      BY <1>1, <2>2, <2>3, <3>2
    <3>3. QED
      BY <3>1, <3>2
  <2>4. QED
    BY <2>1, <2>3 DEF Held
(* Every other step leaves the disk alone, or is the person's.               *)
<1>8. CASE Rescan
  BY <1>2, <1>8 DEF Rescan, RescanRead, RescanStat, RescanHash, RescanWrite, RescanFails, disk
<1>9. CASE HashCandidates \/ ReadBurst \/ Label \/ CopyStat \/ PlaceFails \/ PlacedAll \/ Record
  BY <1>2, <1>9 DEF HashCandidates, ReadBurst, Label, CopyStat, PlaceFails, PlacedAll,
                    Record, disk
<1>10. CASE \/ RetagUnlink \/ RetagSet \/ RemoveUnlink \/ RemoveDelete \/ Adopt
            \/ RebuildTree \/ Link \/ Crash
  BY <1>2, <1>10 DEF RetagUnlink, RetagSet, RemoveUnlink, RemoveDelete, Adopt,
                     RebuildTree, Link, Crash, disk
<1>11. CASE RemoveTree \/ RemoveRefused \/ Drop \/ Edit
  BY <1>11 DEF RemoveTree, RemoveRefused, Step, Drop, Edit
<1>12. QED
  BY <1>5, <1>6, <1>7, <1>8, <1>9, <1>10, <1>11 DEF Next, Pass, Commands

(* Where waiting files do not change under a pass, the four together hold    *)
(* in every state the library gets to.                                       *)
LEMMA Faithfully ==
  ASSUME ~MayReplace
  PROVE  Spec => [](Inductive /\ Faithful)
<1>1. Init => Inductive /\ Faithful
  BY InitInductive DEF Init, Faithful, Unreplaced, Ordered, Reconciled, New, Documents,
                       PassSteps, PlaceStep
<1>2. Inductive /\ Faithful /\ [Next]_vars => (Inductive /\ Faithful)'
  BY InductiveKept, UnreplacedKept, OrderedKept, ReconciledKept, NewKept DEF Faithful
<1>3. QED
  BY <1>1, <1>2, PTL DEF Spec

(* place_file, ingest_folder and retag: no step but a removal's rmtree takes *)
(* the last copy of any bytes away.                                          *)
THEOREM NoBytesAreLost ==
  ASSUME ~MayReplace
  PROVE  Spec => NothingIsLost
<1>1. Inductive /\ Faithful /\ [Next]_vars =>
        [at' # at => \A c \in Contents : Held(c) => Held(c)' \/ at = "rmtree"]_vars
  BY BytesStay DEF Faithful
<1>2. QED
  BY <1>1, Faithfully, PTL DEF Spec, NothingIsLost

(* rescan: what nobody touched since it began has its hash in its row.       *)
THEOREM RescanFindsEveryEdit ==
  ASSUME ~MayReplace
  PROVE  Spec => []HashesAreCurrent
<1>1. Inductive /\ Faithful => HashesAreCurrent
  BY DEF Faithful, Reconciled, HashesAreCurrent, PassSteps
<1>2. QED
  BY <1>1, Faithfully, PTL

(* _reconcile_store: no pass records bytes the library has held all along.   *)
THEOREM PassesFileOnlyWhatIsNew ==
  ASSUME ~MayReplace
  PROVE  Spec => FilesOnlyWhatIsNew
<1>1. ASSUME Inductive, Faithful, at = "record", NEW p \in papers, NEW i \in Documents
      PROVE  p.hash # steady[i]
  <2>1. p.hash \in Files /\ p.hash # rows[i].hash
    BY <1>1 DEF Inductive, TypeOK, Paper, Faithful, New
  <2>2. steady[i] \in Files => rows[i].hash = steady[i]
    BY <1>1 DEF Faithful, Reconciled, PassSteps
  <2>3. QED
    BY <2>1, <2>2
<1>2. Inductive /\ Faithful /\ [Next]_vars =>
        [at = "record" /\ at' = "link" =>
           \A p \in papers, i \in Documents : p.hash # steady[i]]_vars
  BY <1>1
<1>3. QED
  BY <1>2, Faithfully, PTL DEF Spec, FilesOnlyWhatIsNew

=============================================================================
