------------------------------- MODULE Filing -------------------------------
(* A library on disk and the operations that change it: the ingest pass of   *)
(* ingest.py, and scan, retag, remove, adopt and tree of library.py.         *)
(*                                                                           *)
(* One operation runs at a time, as under a watcher, whose server.busy every *)
(* served command waits for. But each is a sequence of steps on the disk and *)
(* the database, the process can die between any two of them, and the person *)
(* whose files these are keeps working all the while.                        *)
EXTENDS Integers, FiniteSets

CONSTANTS
  Paths,        \* files of the input folder
  Contents,     \* what a PDF can hold; equal contents have equal hashes
  Ids,          \* document ids new_id() can mint; bounds the filings
  Tags,         \* categories; a folder's name is its id and its tag
  Titles,       \* what link_name makes of author, year and title
  TagOf,        \* [Contents -> Tags]: the category the model gives it
  TitleOf,      \* [Contents -> Titles]: the title the model reads in it
  Litter,       \* places in the tree occupied by somebody's real file
  Move,         \* FilingMode.MOVE, else COPY
  MayReplace,   \* whether waiting files change under a running pass (then
                \*   HashesAreCurrent fails, see README.md)
  MayEdit,      \* whether stored files get edited
  Ops,          \* the operations this instance runs
  None          \* no file, no row, no link

ASSUME FilingAssumption ==
  /\ Contents \subseteq Nat
  /\ TagOf \in [Contents -> Tags]
  /\ TitleOf \in [Contents -> Titles]
  /\ {Move, MayReplace, MayEdit} \subseteq BOOLEAN
  /\ Titles \cap Ids = {}
  /\ None \notin Contents \cup Titles

Folders == Ids \X Tags                  \* store_name: <id>__<Tag>
Places == Tags \X (Titles \cup Ids)     \* a link's directory and name
Empty == -1                             \* a store folder holding no document
Torn == -2                              \* a copy that was cut short
Files == Contents \cup {Torn}

VARIABLES
  input,     \* [Paths -> Contents or None]
  store,     \* [Folders -> Files, Empty or None]
  rows,      \* [Ids -> row or None]: the papers table
  tree,      \* [Places -> the folder a link points at, or None]
  minted,    \* the ids handed out so far
  op, at,    \* the running operation and its step
  found,     \* ingest: candidates <<path, hash>>; while placing, the source
  drafts,    \* ingest: labelled documents waiting to be placed
  papers,    \* documents placed, or read from the database
  taken,     \* link places used by this operation
  hurt,      \* ids whose retag or removal broke off between disk and database
  steady     \* what each row's file has held ever since the operation began

vars == <<input, store, rows, tree, minted, op, at, found, drafts, papers,
          taken, hurt, steady>>
disk == <<input, store>>
memory == <<found, drafts, papers, taken>>
ghosts == <<hurt, steady>>

(* A row, and the Paper it is written from. The recorded size and mtime are  *)
(* those of one version of the file, so they are named by its content.       *)
Row == [hash : Files, stat : Files, tag : Tags, title : Titles \cup {None}]
Paper == [id : Ids, hash : Files, stat : Files \cup {None}, tag : Tags,
          title : Titles \cup {None}]

(* None is no file, no row, no link and no title.                            *)
ASSUME NoneIsNothing == None \notin Files \cup {Empty} \cup Titles \cup Folders \cup Row

AsRow(p) == [hash |-> p.hash, stat |-> p.stat, tag |-> p.tag, title |-> p.title]
AsPaper(i) == [id |-> i, hash |-> rows[i].hash, stat |-> rows[i].stat,
               tag |-> rows[i].tag, title |-> rows[i].title]

DocumentDir(p) == <<p.id, p.tag>>
Documents == {i \in Ids : rows[i] # None}
Home(i) == <<i, rows[i].tag>>
Readable(f) == store[f] \in Files

Steps == {"idle", "stat", "hash", "rewrite", "candidates", "known", "label",
          "place", "copy", "copying", "copied", "stored", "record", "link",
          "rename", "set", "rmtree", "delete"}

(* Every variable has its type.                                              *)
TypeOK ==
  /\ input \in [Paths -> Contents \cup {None}]
  /\ store \in [Folders -> Files \cup {Empty, None}]
  /\ rows \in [Ids -> Row \cup {None}]
  /\ tree \in [Places -> Folders \cup {None}]
  /\ minted \subseteq Ids
  /\ op \in {"none", "pass", "scan", "retag", "remove", "adopt", "tree"}
  /\ at \in Steps
  /\ found \subseteq Paths \X Contents
  /\ drafts \subseteq [path : Paths, hash : Contents, title : Titles, tag : Tags]
  /\ papers \subseteq Paper
  /\ taken \subseteq Places
  /\ hurt \subseteq Ids
  /\ steady \in [Ids -> Files \cup {Empty, None}]

Init ==
  /\ input \in [Paths -> Contents \cup {None}]
  /\ store = [f \in Folders |-> None]
  /\ rows = [i \in Ids |-> None]
  /\ tree = [p \in Places |-> None]
  /\ minted = {}
  /\ op = "none" /\ at = "idle"
  /\ found = {} /\ drafts = {} /\ papers = {} /\ taken = {}
  /\ hurt = {}
  /\ steady = [i \in Ids |-> None]

(* The end of an operation: its memory is gone.                              *)
Done == /\ op' = "none" /\ at' = "idle"
        /\ found' = {} /\ drafts' = {} /\ papers' = {} /\ taken' = {}

Begin(o, step) == /\ op = "none" /\ o \in Ops
                  /\ op' = o /\ at' = step

Step(from, to) == at = from /\ at' = to /\ UNCHANGED op

----------------------------------------------------------------------------
(* _unlink: every link in the document's category that leads to its folder,  *)
(* found by where it points and not by what it is called.                    *)
UnlinkedByName(p) ==
  [q \in Places |-> IF q = <<p.tag, p.title>> THEN None ELSE tree[q]]
Unlinked(p) ==
  [q \in Places |-> IF q[1] = p.tag /\ tree[q] = DocumentDir(p) THEN None
                    ELSE tree[q]]

(* _link_path: the name the document wants, or the one with its id when this *)
(* operation already used the name. A document without a title is named by   *)
(* its folder.                                                               *)
Wanted(p) == <<p.tag, IF p.title = None THEN p.id ELSE p.title>>
Decorated(p) == <<p.tag, p.id>>
AlwaysWanted(p) == Wanted(p)
LinkPath(p) == IF Wanted(p) \in taken THEN Decorated(p) ELSE Wanted(p)

(* _link: a link in the way is replaced; a real file never is, and the       *)
(* document takes its other name, or stays unlinked when that is a file too. *)
LinkPaper(p) ==
  LET q == IF LinkPath(p) \in Litter THEN Decorated(p) ELSE LinkPath(p)
  IN  \/ /\ q \notin Litter
         /\ tree' = [tree EXCEPT ![q] = DocumentDir(p)]
         /\ taken' = taken \cup {q}
      \/ /\ q \in Litter
         /\ UNCHANGED <<tree, taken>>

(* Phase 7 of a pass, the end of retag and adopt, and the loop of            *)
(* rebuild_tree: link what there is to link, then finish.                    *)
Link ==
  /\ at = "link"
  /\ \/ \E p \in papers :
          /\ LinkPaper(p)
          /\ papers' = papers \ {p}
          /\ UNCHANGED <<op, at, found, drafts>>
     \/ papers = {} /\ Done /\ UNCHANGED tree
  /\ UNCHANGED <<disk, rows, minted, ghosts>>

----------------------------------------------------------------------------
(* rescan reads the rows and lets the database go.                           *)
RescanRead(o) ==
  /\ Begin(o, "stat")
  /\ papers' = {AsPaper(i) : i \in Documents}
  /\ steady' = [i \in Ids |-> IF i \in Documents THEN store[Home(i)] ELSE None]
  /\ UNCHANGED <<disk, rows, tree, minted, found, drafts, taken, hurt>>

(* Size and mtime gate the hashing; a missing document is only reported.     *)
RescansMissing ==
  /\ Step("stat", "hash")
  /\ papers' = {[p EXCEPT !.stat = store[DocumentDir(p)]] : p \in papers}
  /\ UNCHANGED <<disk, rows, tree, minted, found, drafts, taken, ghosts>>
RescanStat ==
  /\ Step("stat", "hash")
  /\ papers' = {[p EXCEPT !.stat = store[DocumentDir(p)]] :
                  p \in {p \in papers : /\ Readable(DocumentDir(p))
                                        /\ p.stat # store[DocumentDir(p)]}}
  /\ UNCHANGED <<disk, rows, tree, minted, found, drafts, taken, ghosts>>

(* The hash is read after the stat, so it can be of a later version.         *)
RescanHash ==
  /\ Step("hash", "rewrite")
  /\ papers' = {[p EXCEPT !.hash = store[DocumentDir(p)]] : p \in papers}
  /\ UNCHANGED <<disk, rows, tree, minted, found, drafts, taken, ghosts>>

(* set_stored_file_states, in one transaction: rows gone by now are not      *)
(* brought back. That is all of a scan; a pass goes on.                      *)
RescanOver == \/ op = "scan" /\ Done
              \/ /\ op = "pass"
                 /\ papers' = {} /\ at' = "candidates"
                 /\ UNCHANGED <<op, found, drafts, taken>>

RescanWriteStatsAgain ==
  /\ at = "rewrite"
  /\ rows' = [i \in Ids |->
                IF i \notin Documents THEN None
                ELSE IF i \notin {p.id : p \in papers} THEN rows[i]
                ELSE LET p == CHOOSE p \in papers : p.id = i
                     IN  [rows[i] EXCEPT !.hash = p.hash, !.stat = store[Home(i)]]]
  /\ RescanOver
  /\ UNCHANGED <<disk, tree, minted, ghosts>>
RescanWrite ==
  /\ at = "rewrite"
  /\ rows' = [i \in Ids |->
                IF i \notin Documents THEN None
                ELSE IF i \notin {p.id : p \in papers} THEN rows[i]
                ELSE LET p == CHOOSE p \in papers : p.id = i
                     IN  [rows[i] EXCEPT !.hash = p.hash, !.stat = p.stat]]
  /\ RescanOver
  /\ UNCHANGED <<disk, tree, minted, ghosts>>

(* The store cannot be read or the database stays busy: nothing is written,  *)
(* and a pass steps over it, knowing nothing of the stored files.            *)
RescanFails ==
  /\ at \in {"stat", "hash", "rewrite"}
  /\ RescanOver
  /\ steady' = [i \in Ids |-> None]
  /\ UNCHANGED <<disk, rows, tree, minted, hurt>>

Rescan == \/ RescanRead("pass") \/ RescanRead("scan") \/ RescanStat
          \/ RescanHash \/ RescanWrite \/ RescanFails

----------------------------------------------------------------------------
(* Phase 1: hash every candidate that can be read. No database.              *)
HashCandidates ==
  /\ Step("candidates", "known")
  /\ found' = {<<q, input[q]>> : q \in {q \in Paths : input[q] # None}}
  /\ UNCHANGED <<disk, rows, tree, minted, drafts, papers, taken, ghosts>>

(* Phase 2: the read burst. What is already recorded is left where it is.    *)
ForgetsKnown ==
  /\ Step("known", "label")
  /\ UNCHANGED <<disk, rows, tree, minted, memory, ghosts>>
ReadBurst ==
  /\ Step("known", "label")
  /\ found' = {c \in found : \A i \in Documents : rows[i].hash # c[2]}
  /\ UNCHANGED <<disk, rows, tree, minted, drafts, papers, taken, ghosts>>

(* Phase 3: whatever can still be opened and read.                           *)
Extracted == SUBSET {c \in found : input[c[1]] # None}

(* Phase 4: one label for each hash -- the bank's, for those bytes, or the   *)
(* one bought for the text that is in a file with that hash by now.          *)
Answers(read) ==
  {bought \in [{c[2] : c \in read} -> Contents] :
     \A h \in DOMAIN bought :
       bought[h] \in {h} \cup {input[c[1]] : c \in {c \in read : c[2] = h}}}

(* What could not be read, or was in a batch that failed, is reported and    *)
(* stays in the input folder.                                                *)
Label ==
  /\ Step("label", "place")
  /\ \E read \in Extracted : \E bought \in Answers(read) :
       drafts' = {[path |-> c[1], hash |-> c[2], title |-> TitleOf[bought[c[2]]],
                   tag |-> TagOf[bought[c[2]]]] : c \in read}
  /\ found' = {}
  /\ UNCHANGED <<disk, rows, tree, minted, papers, taken, ghosts>>

(* _describe_paper: the row of a labelled document, under a fresh id.        *)
Described(i, d) == [id |-> i, hash |-> d.hash, stat |-> None, tag |-> d.tag,
                    title |-> d.title]

(* Phase 5, place_file for one document: its folder ...                      *)
PlaceMkdir ==
  /\ Step("place", "copy")
  /\ \E i \in Ids \ minted, d \in drafts :
       /\ minted' = minted \cup {i}
       /\ store' = [store EXCEPT ![DocumentDir(Described(i, d))] = Empty]
       /\ papers' = papers \cup {Described(i, d)}
       /\ found' = {<<d.path, d.hash>>}
       /\ drafts' = drafts \ {d}
  /\ UNCHANGED <<input, rows, tree, taken, ghosts>>

(* The paper being placed is the one whose file has not been stat'ed yet.    *)
Placing == {p \in papers : p.stat = None}

(* ... the copy, of the file as it is when it is opened ...                  *)
CopyBegin ==
  /\ Step("copy", "copying")
  /\ \E p \in Placing, c \in found :
       /\ input[c[1]] # None
       /\ store' = [store EXCEPT ![DocumentDir(p)] = Torn]
       /\ found' = {<<c[1], input[c[1]]>>}
  /\ UNCHANGED <<input, rows, tree, minted, drafts, papers, taken, ghosts>>

CopyEnd ==
  /\ Step("copying", "copied")
  /\ \E p \in Placing, c \in found :
       store' = [store EXCEPT ![DocumentDir(p)] = c[2]]
  /\ UNCHANGED <<input, rows, tree, minted, memory, ghosts>>

(* ... or a rename, when both folders are on one filesystem ...              *)
MoveAtOnce ==
  /\ Move
  /\ Step("copy", "stored")
  /\ \E p \in Placing, c \in found :
       /\ input[c[1]] # None
       /\ store' = [store EXCEPT ![DocumentDir(p)] = input[c[1]]]
       /\ input' = [input EXCEPT ![c[1]] = None]
  /\ UNCHANGED <<rows, tree, minted, memory, ghosts>>

(* ... shutil.move removes what it copied only then ...                      *)
MoveUnlink ==
  /\ Move
  /\ Step("copied", "stored")
  /\ \E c \in found : /\ input[c[1]] # None
                      /\ input' = [input EXCEPT ![c[1]] = None]
  /\ UNCHANGED <<store, rows, tree, minted, memory, ghosts>>

(* ... and the size and mtime recorded are those of the file that arrived.   *)
CopyStat ==
  /\ Step(IF Move THEN "stored" ELSE "copied", "place")
  /\ papers' = {[p EXCEPT !.stat = IF p \in Placing THEN store[DocumentDir(p)]
                                   ELSE p.stat] : p \in papers}
  /\ found' = {}
  /\ UNCHANGED <<disk, rows, tree, minted, drafts, taken, ghosts>>

(* Any of it can fail: the source is gone, the disk is full. The document is *)
(* reported, and the folder with whatever is in it stays behind.             *)
PlaceStep == {"copy", "copying", "copied", "stored"}

FailsButRecords ==
  /\ at \in PlaceStep /\ at' = "place"
  /\ papers' = {[p EXCEPT !.stat = IF p \in Placing THEN p.hash ELSE p.stat] :
                  p \in papers}
  /\ found' = {}
  /\ UNCHANGED <<disk, rows, tree, minted, op, drafts, taken, ghosts>>
FailsAndCleansUp ==
  /\ at \in PlaceStep /\ at' = "place"
  /\ store' = [f \in Folders |-> IF \E p \in Placing : f = DocumentDir(p)
                                 THEN None ELSE store[f]]
  /\ papers' = papers \ Placing
  /\ found' = {}
  /\ UNCHANGED <<input, rows, tree, minted, op, drafts, taken, ghosts>>
PlaceFails ==
  /\ at \in PlaceStep /\ at' = "place"
  /\ papers' = papers \ Placing
  /\ found' = {}
  /\ UNCHANGED <<disk, rows, tree, minted, op, drafts, taken, ghosts>>

PlacedAll ==
  /\ Step("place", "record")
  /\ drafts = {} \/ minted = Ids
  /\ drafts' = {}
  /\ UNCHANGED <<disk, rows, tree, minted, found, papers, taken, ghosts>>

(* Phase 6: every document of the pass in one transaction.                   *)
Record ==
  /\ Step("record", "link")
  /\ rows' = [i \in Ids |-> IF \E p \in papers : p.id = i
                            THEN AsRow(CHOOSE p \in papers : p.id = i)
                            ELSE rows[i]]
  /\ UNCHANGED <<disk, tree, minted, memory, ghosts>>

Pass == \/ HashCandidates \/ ReadBurst \/ Label
        \/ PlaceMkdir \/ CopyBegin \/ CopyEnd \/ MoveAtOnce \/ MoveUnlink
        \/ CopyStat \/ PlaceFails \/ PlacedAll \/ Record

----------------------------------------------------------------------------
(* retag checks both folders and removes the link ...                        *)
RetagUnlink ==
  /\ Begin("retag", "rename")
  /\ \E i \in Documents, t \in Tags :
       /\ store[Home(i)] # None
       /\ t # rows[i].tag => store[<<i, t>>] = None
       /\ tree' = Unlinked(AsPaper(i))
       /\ papers' = {[AsPaper(i) EXCEPT !.tag = t]}
  /\ UNCHANGED <<disk, rows, minted, found, drafts, taken, ghosts>>

(* ... renames the folder, with everything kept in it ...                    *)
RetagRename ==
  /\ Step("rename", "set")
  /\ \E p \in papers :
       store' = [f \in Folders |-> IF f = DocumentDir(p) THEN store[Home(p.id)]
                                   ELSE IF f = Home(p.id) THEN None
                                   ELSE store[f]]
  /\ UNCHANGED <<input, rows, tree, minted, memory, ghosts>>

(* ... and records its new name before linking it again.                     *)
RetagSet ==
  /\ Step("set", "link")
  /\ \E p \in papers : rows' = [rows EXCEPT ![p.id].tag = p.tag]
  /\ UNCHANGED <<disk, tree, minted, memory, ghosts>>

(* remove takes the link first ...                                           *)
RemoveUnlink ==
  /\ Begin("remove", "rmtree")
  /\ \E i \in Documents : /\ tree' = Unlinked(AsPaper(i))
                          /\ papers' = {AsPaper(i)}
  /\ UNCHANGED <<disk, rows, minted, found, drafts, taken, ghosts>>

(* ... then the folder, which may already be gone ...                        *)
RemoveTree ==
  /\ Step("rmtree", "delete")
  /\ \E p \in papers : store' = [store EXCEPT ![DocumentDir(p)] = None]
  /\ UNCHANGED <<input, rows, tree, minted, memory, ghosts>>

(* ... or refuses to go, with some of it possibly gone: then the row stays,  *)
(* because it alone says the folder belongs to a document ...                *)
RemoveRefused ==
  /\ at = "rmtree" /\ Done
  /\ \E p \in papers :
       /\ store[DocumentDir(p)] # None
       /\ \/ UNCHANGED <<store, hurt>>
          \/ /\ store' = [store EXCEPT ![DocumentDir(p)] = Empty]
             /\ hurt' = hurt \cup {p.id}
  /\ UNCHANGED <<input, rows, tree, minted, steady>>

(* ... and the rows last.                                                    *)
RemoveDelete ==
  /\ at = "delete" /\ Done
  /\ \E p \in papers : /\ rows' = [rows EXCEPT ![p.id] = None]
                       /\ hurt' = hurt \ {p.id}
  /\ UNCHANGED <<disk, tree, minted, steady>>

(* Store folders no row names.                                               *)
Orphans == {f \in Folders : /\ store[f] # None
                            /\ \A i \in Documents : Home(i) # f}

(* fsck --adopt: one that holds a document gets the row its name and its     *)
(* bytes can give; an earlier row of that id is replaced.                    *)
Adopted(f) == [id |-> f[1], hash |-> store[f], stat |-> store[f], tag |-> f[2],
               title |-> None]
Adopt ==
  /\ Begin("adopt", "link")
  /\ \E f \in Orphans : /\ Readable(f)
                        /\ papers' = {Adopted(f)}
                        /\ rows' = [rows EXCEPT ![f[1]] = AsRow(Adopted(f))]
                        /\ hurt' = hurt \ {f[1]}
  /\ UNCHANGED <<disk, tree, minted, found, drafts, taken, steady>>

(* rebuild_tree discards every link and starts over from the database.       *)
Cleared == [q \in Places |-> None]
RebuildTree ==
  /\ Begin("tree", "link")
  /\ tree' = Cleared
  /\ papers' = {AsPaper(i) : i \in {i \in Documents : Readable(Home(i))}}
  /\ UNCHANGED <<disk, rows, minted, found, drafts, taken, ghosts>>

Commands == \/ RetagUnlink \/ RetagRename \/ RetagSet
            \/ RemoveUnlink \/ RemoveTree \/ RemoveRefused \/ RemoveDelete
            \/ Adopt \/ RebuildTree

----------------------------------------------------------------------------
(* A document is put in the input folder, taken out, or written over.        *)
Drop ==
  /\ \E q \in Paths, c \in Contents \cup {None} :
       /\ input[q] = None \/ at = "idle" \/ MayReplace
       /\ input[q] # c
       /\ input' = [input EXCEPT ![q] = c]
  /\ UNCHANGED <<store, rows, tree, minted, op, at, memory, ghosts>>

(* A stored document is annotated and saved, at any moment, wherever a link  *)
(* or a command leads to it. No edit restores an earlier version whole, mtime*)
(* and all, so versions only go up.                                          *)
Edit ==
  /\ MayEdit
  /\ \E i \in Documents, c \in Contents :
       /\ store[Home(i)] \in Contents
       /\ store[Home(i)] < c
       /\ store' = [store EXCEPT ![Home(i)] = c]
       /\ steady' = [steady EXCEPT ![i] = None]
  /\ UNCHANGED <<input, rows, tree, minted, op, at, memory, hurt>>

(* The process dies. Files and committed rows are what they are.             *)
Crash ==
  /\ op # "none" /\ Done
  /\ hurt' = IF at \in {"set", "delete"} THEN hurt \cup {p.id : p \in papers}
             ELSE hurt
  /\ UNCHANGED <<disk, rows, tree, minted, steady>>

Next == Rescan \/ Pass \/ Link \/ Commands \/ Drop \/ Edit \/ Crash

Spec == Init /\ [][Next]_vars

----------------------------------------------------------------------------
(* Safety.                                                                   *)

Held(c) == (\E q \in Paths : input[q] = c) \/ (\E f \in Folders : store[f] = c)

(* No step of the program but the rmtree of a removal makes the last copy of *)
(* some bytes disappear: a source goes only once its document is in the      *)
(* store, a failed placing leaves behind what arrived, a retag takes the     *)
(* folder along (place_file, ingest_folder, retag).                          *)
NothingIsLost ==
  [][at' # at => \A c \in Contents : Held(c) => Held(c)' \/ at = "rmtree"]_vars

(* Every row has its document in the store, whatever failed or died, except  *)
(* one whose own removal or retagging is between its disk step and its       *)
(* database step, or broke off there (file_paper: a crash leaves a file with *)
(* no row rather than a row pointing at nothing).                            *)
RowsAreBacked ==
  \A i \in Documents :
    \/ Readable(Home(i))
    \/ i \in hurt
    \/ at \in {"set", "delete"} /\ \E p \in papers : p.id = i

(* A link leads to a folder that exists, belongs to a recorded document and  *)
(* is in the category the link is filed under: what is removed or renamed,   *)
(* with another's link under its name or its own under another, leaves no    *)
(* link behind (library.py:680-702). It says nothing of a document that has  *)
(* no link: a pass, a retag and an adoption take the name they want from     *)
(* whoever has it.                                                           *)
LinksAreTrue ==
  \A q \in Places :
    tree[q] # None => /\ tree[q][2] = q[1]
                      /\ store[tree[q]] # None
                      /\ \E i \in Documents : Home(i) = tree[q]

(* When rebuild_tree is through, every document with a file has exactly one  *)
(* link, whoever wants the same name and whatever file is in the way, unless *)
(* both its names are somebody's files (README: "a single link").            *)
RebuildLinksAll ==
  op = "tree" /\ papers = {} =>
    \A i \in Documents :
      Readable(Home(i)) =>
        \/ Cardinality({q \in Places : tree[q] = Home(i)}) = 1
        \/ Decorated(AsPaper(i)) \in Litter

(* After the reconciliation every document that nobody touched meanwhile has *)
(* the hash of what it holds, through any number of edits racing any number  *)
(* of scans (rescan: a stat that did not move is a hash that did not).       *)
HashesAreCurrent ==
  at \in {"candidates", "known"} =>
    \A i \in Documents : steady[i] \in Files => rows[i].hash = steady[i]

(* A pass records no document whose bytes a file of the library has held all *)
(* through the pass, as filed or as annotated since (_reconcile_store).      *)
FilesOnlyWhatIsNew ==
  [][at = "record" /\ at' = "link" =>
       \A p \in papers, i \in Documents : p.hash # steady[i]]_vars
=============================================================================
