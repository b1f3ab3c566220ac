------------------------------ MODULE WatchLoop ------------------------------
(* The watcher's process: the loop of watch.py that files what settles in    *)
(* the input folder, the index task it keeps beside it, and the socket of    *)
(* daemon.py, where each connection is a task of its own.                    *)
(*                                                                           *)
(* They are coroutines of one thread, so a step here is what runs between    *)
(* two awaits: the wait for a lock, the requests to the model, the work sent *)
(* to a thread. What a pass does to the disk and the database within a step  *)
(* is Filing's subject. The person filling the input folder interleaves      *)
(* with everything.                                                          *)
EXTENDS Naturals, Sequences

CONSTANTS
  Files,        \* PDFs of the input folder, by path
  Contents,     \* what a PDF can hold, numbered; several files can hold one
  Size,         \* [Contents -> Nat]: the size of each content
  Histories,    \* [Files -> Contents or 0]s: what each has had before
  MaxFilings,   \* how often a content of a file is filed
  Moves,        \* the watcher files with FilingMode.MOVE
  Clients,      \* connections to the socket
  Loop,         \* the watch loop
  Indexer       \* the index task of the watch loop

Procs == Clients \cup {Loop, Indexer}

ASSUME WatchLoopAssumption ==
  /\ Contents \subseteq Nat \ {0}
  /\ Histories \subseteq [Files -> Contents \cup {0}]
  /\ MaxFilings \in Nat
  /\ Moves \in BOOLEAN
  /\ Size \in [Contents -> Nat \ {0}]
  /\ Loop # Indexer /\ Loop \notin Clients /\ Indexer \notin Clients

VARIABLES
  input,     \* [Files -> Contents or 0]: what lies in the input folder
  newest,    \* [Files -> Contents or 0]: the last content a file has had
  wake,      \* the loop's asyncio.Event
  pending,   \* the snapshot the loop is letting settle
  lastRun,   \* the snapshot of the last pass it started
  pc,        \* where each task is
  busy,      \* Server.busy: its holder, then those waiting for it
  indexing,  \* Server.indexing, likewise
  again,     \* _Indexer._again
  cand,      \* [Procs -> what a running pass found and does not know]
  todo,      \* [Procs -> what a running index pass has yet to embed]
  rows,      \* the documents of the library
  orphans,   \* placed in the store by a pass that did not record them
  filings,   \* how often each content of each file was placed; it numbers them
  sources,   \* the documents whose text is recorded as indexed
  fresh,     \* ghost: files no pass of the loop has read as they are
  owed       \* ghost: the loop filed something and no index pass has read
             \*   the library since

vars == <<input, newest, wake, pending, lastRun, pc, busy, indexing, again,
          cand, todo, rows, orphans, filings, sources, fresh, owed>>
folder == <<input, newest, fresh>>
timing == <<wake, pending, lastRun>>
passes == <<cand, rows, orphans, filings>>
searching == <<indexing, again, todo, sources>>

(* What a pass finds is a path and the content it hashed there. A document   *)
(* has both in its row, and a number: one removed and filed again is another *)
(* one.                                                                      *)
Docs == Files \X Contents
Rows == Docs \X (Nat \ {0})
HashOf(r) == r[1][2]

(* discovery.py's Snapshot: the sizes of the PDFs that are there.            *)
Snapshots == [Files -> Nat]
Nothing == [f \in Files |-> 0]
Snapshot == [f \in Files |-> IF input[f] = 0 THEN 0 ELSE Size[input[f]]]

(* asyncio.Lock serves its waiters in order; one that is free is taken at    *)
(* once, which is a queue with one entry.                                    *)
Holds(lock, p) == lock # <<>> /\ Head(lock) = p

Places == {"measuring", "idle", "settling", "wantsIngest", "asking",
           "announcing", "wantsCall", "searching", "wantsIndex", "wantsRead",
           "planning", "wantsDrop", "embedding", "wantsFlush"}

(* Every variable has its type, and every document a number given out.       *)
TypeOK ==
  /\ input \in [Files -> Contents \cup {0}]
  /\ newest \in [Files -> Contents \cup {0}]
  /\ wake \in BOOLEAN /\ again \in BOOLEAN
  /\ owed \in BOOLEAN
  /\ pending \in Snapshots /\ lastRun \in Snapshots
  /\ pc \in [Procs -> Places]
  /\ busy \in Seq(Procs) /\ indexing \in Seq(Procs)
  /\ cand \in [Procs -> SUBSET Docs]
  /\ todo \in [Procs -> SUBSET Rows]
  /\ rows \subseteq Rows /\ orphans \subseteq Rows
  /\ filings \in [Docs -> Nat]
  /\ \A r \in rows \cup orphans : r[2] <= filings[r[1]]
  /\ sources \subseteq Rows
  /\ fresh \subseteq Files

Init ==
  /\ input = Nothing /\ newest \in Histories /\ fresh = {}
  /\ wake = FALSE /\ pending = Nothing /\ lastRun = Nothing
  /\ pc = [p \in Procs |-> IF p = Loop THEN "measuring" ELSE "idle"]
  /\ busy = <<>> /\ indexing = <<>> /\ again = FALSE
  /\ cand = [p \in Procs |-> {}] /\ todo = [p \in Procs |-> {}]
  /\ rows = {} /\ orphans = {} /\ filings = [d \in Docs |-> 0] /\ sources = {}
  /\ owed = FALSE

At(p, place) == pc[p] = place
Goto(p, place) == pc' = [pc EXCEPT ![p] = place]

-----------------------------------------------------------------------------
(* The input folder: a file arrives, or grows, or is taken away. (The bound: *)
(* no file has a content twice, or an earlier one again.) Watchdog's thread  *)
(* tells the loop, or misses it. (That it tells it some time later adds      *)
(* nothing: the loop's wait can end at any time.)                            *)
Event == wake' \in {wake, TRUE}

Arrive(f) ==
  /\ \E c \in Contents :
       /\ newest[f] < c
       /\ newest' = [newest EXCEPT ![f] = c]
       /\ input' = [input EXCEPT ![f] = c]
  /\ fresh' = fresh \cup {f}
  /\ Event
  /\ UNCHANGED <<pending, lastRun, pc, busy, searching, passes, owed>>

TakeAway(f) ==
  /\ input[f] # 0
  /\ input' = [input EXCEPT ![f] = 0]
  /\ fresh' = fresh \ {f}
  /\ Event
  /\ UNCHANGED <<newest, pending, lastRun, pc, busy, searching, passes, owed>>

-----------------------------------------------------------------------------
(* The top of the loop.                                                      *)
NothingToDo(snapshot) == snapshot = Nothing \/ snapshot = lastRun

Measure ==
  /\ At(Loop, "measuring")
  /\ pending' = Snapshot
  /\ Goto(Loop, IF NothingToDo(Snapshot) THEN "idle" ELSE "settling")
  /\ UNCHANGED <<folder, wake, lastRun, busy, searching, passes, owed>>

(* Mutant: without the idle rescan, only an event ends the wait.             *)
OnlyEvents(timeout) == wake

(* _wait_for_change: an event, or IDLE_RESCAN_SECONDS without one.           *)
WaitOver(timeout) == wake \/ timeout

_wait_for_change ==
  /\ At(Loop, "idle")
  /\ WaitOver(TRUE)
  /\ wake' = FALSE
  /\ Goto(Loop, "measuring")
  /\ UNCHANGED <<folder, pending, lastRun, busy, searching, passes, owed>>

(* SETTLE_SECONDS later: still arriving, or settled, and the pass is next in *)
(* line for server.busy.                                                     *)
StillArriving ==
  /\ At(Loop, "settling")
  /\ Snapshot # pending
  /\ Goto(Loop, "measuring")
  /\ UNCHANGED <<folder, timing, busy, searching, passes, owed>>

Settled ==
  /\ At(Loop, "settling")
  /\ Snapshot = pending
  /\ wake' = FALSE
  /\ lastRun' = pending
  /\ busy' = Append(busy, Loop)
  /\ Goto(Loop, "wantsIngest")
  /\ UNCHANGED <<folder, pending, searching, passes, owed>>

-----------------------------------------------------------------------------
(* Mutant: a pass that does not wait for server.busy.                        *)
IngestsAtOnce(p) == TRUE

(* ingest_folder, of the loop and of a client's `ingest`. Up to its first    *)
(* request: the folder is hashed and the database asked what it knows.       *)
IngestTurn(p) == Holds(busy, p)

Known == {HashOf(r) : r \in rows}

Found == {<<f, input[f]>> : f \in {g \in Files : input[g] # 0}}

Hash(p) ==
  /\ At(p, "wantsIngest")
  /\ IngestTurn(p)
  /\ cand' = [cand EXCEPT ![p] = {d \in Found : d[2] \notin Known}]
  /\ fresh' = IF p = Loop THEN {} ELSE fresh
  /\ Goto(p, "asking")
  /\ UNCHANGED <<input, newest, timing, busy, searching, rows, orphans,
                 filings, owed>>

(* What the model labelled and the disk took, some of the candidates or      *)
(* none: a document whose file has gone, or whose batch failed, is reported. *)
(* Candidates were compared with the library and not with each other, so two *)
(* of one content are both among them.                                       *)
Labelled(p) ==
  SUBSET {d \in cand[p] : input[d[1]] # 0 /\ filings[d] < MaxFilings}

(* Mutant: a document filed under the number of the last one.                *)
ReusesNumbers(docs) == {<<d, filings[d]>> : d \in docs}

AsRows(docs) == {<<d, filings[d] + 1>> : d \in docs}

(* place_file: moving, the input folder's file goes, whatever it now holds.  *)
Place(p, docs) ==
  /\ \E moving \in IF p = Loop THEN {Moves} ELSE BOOLEAN :
       LET taken == IF moving THEN {d[1] : d \in docs} ELSE {}
       IN /\ input' = [f \in Files |-> IF f \in taken THEN 0 ELSE input[f]]
          /\ fresh' = fresh \ taken
          /\ IF taken # {} THEN Event ELSE wake' = wake
  /\ newest' = newest

Number(docs) ==
  filings' = [d \in Docs |-> filings[d] + (IF d \in docs THEN 1 ELSE 0)]

(* The end of a pass: what was placed is recorded, and some of it linked,    *)
(* which is what it reports as filed. If there is any the loop announces it; *)
(* a client is answered.                                                     *)
Passed(p) ==
  /\ At(p, "asking")
  /\ \E docs \in Labelled(p) : \E linked \in SUBSET docs :
       LET reported == p = Loop /\ linked # {}
       IN /\ Place(p, docs) /\ Number(docs)
          /\ rows' = rows \cup AsRows(docs)
          /\ owed' = (owed \/ reported)
          /\ Goto(p, CASE reported  -> "announcing"
                       [] p = Loop  -> "measuring"
                       [] OTHER     -> "idle")
  /\ cand' = [cand EXCEPT ![p] = {}]
  /\ busy' = Tail(busy)
  /\ UNCHANGED <<pending, lastRun, searching, orphans>>

(* Mutant: the lock is not released on an exception.                         *)
KeepsTheLock == busy' = busy

(* Or it raised: before it placed a file, between the files and their rows,  *)
(* in the middle of a database visit, or while linking what it recorded.     *)
LetGo == busy' = Tail(busy)

Raised(p) ==
  /\ At(p, "asking")
  /\ \E docs \in Labelled(p) :
       /\ Place(p, docs) /\ Number(docs)
       /\ \/ /\ rows' = rows \cup AsRows(docs)
             /\ UNCHANGED orphans
          \/ /\ orphans' = orphans \cup AsRows(docs)
             /\ UNCHANGED rows
  /\ cand' = [cand EXCEPT ![p] = {}]
  /\ LetGo
  /\ Goto(p, IF p = Loop THEN "measuring" ELSE "idle")
  /\ UNCHANGED <<pending, lastRun, searching, owed>>

-----------------------------------------------------------------------------
(* Mutant: a request made while a pass runs is taken for that pass.          *)
RequestsOnce ==
  IF At(Indexer, "idle")
  THEN /\ pc' = [pc EXCEPT ![Loop] = "measuring", ![Indexer] = "wantsIndex"]
       /\ indexing' = Append(indexing, Indexer)
       /\ again' = FALSE
  ELSE Goto(Loop, "measuring") /\ UNCHANGED <<again, indexing>>

(* _Indexer.request, when the announcement of what was filed is out.         *)
request ==
  IF At(Indexer, "idle")
  THEN /\ pc' = [pc EXCEPT ![Loop] = "measuring", ![Indexer] = "wantsIndex"]
       /\ indexing' = Append(indexing, Indexer)
       /\ again' = FALSE
  ELSE /\ Goto(Loop, "measuring")
       /\ again' = TRUE
       /\ indexing' = indexing

Announced ==
  /\ At(Loop, "announcing")
  /\ request
  /\ UNCHANGED <<folder, timing, busy, todo, sources, passes, owed>>

(* Mutant: an index pass that does not wait for server.indexing.             *)
IndexesAtOnce(p) == TRUE

(* index_library, of the task and of a client's `index`. It waits its turn   *)
(* among the index passes, and for server.busy before each visit to the      *)
(* database. The first reads what there is and what is indexed.              *)
IndexTurn(p) == Holds(indexing, p)

AskBusy(p, place) ==
  /\ busy' = Append(busy, p)
  /\ Goto(p, place)

BeginIndex(p) ==
  /\ At(p, "wantsIndex")
  /\ IndexTurn(p)
  /\ AskBusy(p, "wantsRead")
  /\ UNCHANGED <<folder, timing, searching, passes, owed>>

ReadPapers(p) ==
  /\ At(p, "wantsRead") /\ Holds(busy, p)
  /\ todo' = [todo EXCEPT ![p] = rows \ sources]
  /\ owed' = FALSE
  /\ busy' = Tail(busy)
  /\ Goto(p, "planning")
  /\ UNCHANGED <<folder, timing, indexing, again, sources, passes>>

(* The plan is made in a thread. Between it and the embedding the database   *)
(* is visited to drop vanished notes and to fetch page texts: a wait for     *)
(* server.busy that changes nothing here.                                    *)
_plan(p) ==
  /\ At(p, "planning")
  /\ AskBusy(p, "wantsDrop")
  /\ UNCHANGED <<folder, timing, searching, passes, owed>>

DropVanished(p) ==
  /\ At(p, "wantsDrop") /\ Holds(busy, p)
  /\ busy' = Tail(busy)
  /\ Goto(p, "embedding")
  /\ UNCHANGED <<folder, timing, searching, passes, owed>>

Embedded(p) ==
  /\ At(p, "embedding")
  /\ todo[p] # {}
  /\ AskBusy(p, "wantsFlush")
  /\ UNCHANGED <<folder, timing, searching, passes, owed>>

(* Mutant: the batch is written as it was read.                              *)
WritesAsRead(batch) == batch

(* _flush, and the marks of what has no text: written for the documents that *)
(* are still in the library.                                                 *)
StillThere(batch) == batch \cap rows

_flush(p) ==
  /\ At(p, "wantsFlush") /\ Holds(busy, p)
  /\ \E batch \in SUBSET todo[p] :
       /\ batch # {}
       /\ sources' = sources \cup StillThere(batch)
       /\ todo' = [todo EXCEPT ![p] = @ \ batch]
  /\ busy' = Tail(busy)
  /\ Goto(p, "embedding")
  /\ UNCHANGED <<folder, timing, indexing, again, passes, owed>>

(* The pass is over: everything embedded, stopped by a spent budget or a     *)
(* failing service, or out of its plan by an exception. The task goes round  *)
(* again if it was asked to meanwhile.                                       *)
EndIndex(p) ==
  /\ todo' = [todo EXCEPT ![p] = {}]
  /\ IF p = Indexer /\ again
     THEN /\ Goto(p, "wantsIndex")
          /\ indexing' = Append(Tail(indexing), p)
          /\ again' = FALSE
     ELSE /\ Goto(p, "idle")
          /\ indexing' = Tail(indexing)
          /\ again' = again

Indexed(p) ==
  /\ pc[p] \in {"planning", "embedding"}
  /\ EndIndex(p)
  /\ UNCHANGED <<folder, timing, busy, sources, passes, owed>>

(* Or a visit to the database raised. If that was to be the reading of the   *)
(* pass the loop asked for, and no other is on its way, what was filed waits *)
(* for the next filing.                                                      *)
GaveUp(p) ==
  p = Indexer /\ At(p, "wantsRead") /\ ~again /\ ~At(Loop, "announcing")

IndexRaised(p) ==
  /\ pc[p] \in {"wantsRead", "wantsDrop", "wantsFlush"} /\ Holds(busy, p)
  /\ EndIndex(p)
  /\ owed' = (owed /\ ~GaveUp(p))
  /\ busy' = Tail(busy)
  /\ UNCHANGED <<folder, timing, sources, passes>>

-----------------------------------------------------------------------------
(* The socket. A request for `ingest`, or for a read or a write the command  *)
(* cannot do itself, waits for server.busy; `index` and `search` lock for    *)
(* themselves.                                                               *)
_serve(c) ==
  /\ At(c, "idle")
  /\ \/ /\ \E op \in {"wantsIngest", "wantsCall"} : AskBusy(c, op)
        /\ UNCHANGED indexing
     \/ Goto(c, "wantsIndex") /\ indexing' = Append(indexing, c) /\ UNCHANGED busy
     \/ Goto(c, "searching") /\ UNCHANGED <<busy, indexing>>
  /\ UNCHANGED <<folder, timing, again, todo, sources, passes, owed>>

(* An ingest without a key is refused before it has done anything.           *)
Refused(c) ==
  /\ At(c, "wantsIngest") /\ Holds(busy, c)
  /\ busy' = Tail(busy)
  /\ Goto(c, "idle")
  /\ UNCHANGED <<folder, timing, searching, passes, owed>>

(* One method of the library for a client: `remove` takes a document and its *)
(* index with it, `adopt` gives an orphan its row, whatever the library has  *)
(* of its content; the others touch nothing modelled here.                   *)
Remove(r) ==
  /\ rows' = rows \ {r}
  /\ sources' = sources \ {r}
  /\ orphans' = orphans

Adopt(r) ==
  /\ rows' = rows \cup {r}
  /\ orphans' = orphans \ {r}
  /\ sources' = sources

Called(c) ==
  /\ At(c, "wantsCall") /\ Holds(busy, c)
  /\ \/ \E r \in rows : Remove(r)
     \/ \E r \in orphans : Adopt(r)
     \/ UNCHANGED <<rows, sources, orphans>>
  /\ busy' = Tail(busy)
  /\ Goto(c, "idle")
  /\ UNCHANGED <<folder, timing, indexing, again, todo, cand, filings, owed>>

(* `search`, when its query is embedded.                                     *)
Searched(c) ==
  /\ At(c, "searching")
  /\ Goto(c, "idle")
  /\ UNCHANGED <<folder, timing, busy, searching, passes, owed>>

-----------------------------------------------------------------------------
Person == \E f \in Files : Arrive(f) \/ TakeAway(f)

Pass(p) == Hash(p) \/ Passed(p) \/ Raised(p)

LoopStep == Measure \/ _wait_for_change \/ StillArriving \/ Settled \/ Pass(Loop)
            \/ Announced

IndexStep(p) == BeginIndex(p) \/ ReadPapers(p) \/ _plan(p) \/ DropVanished(p)
                \/ Embedded(p) \/ _flush(p) \/ Indexed(p) \/ IndexRaised(p)

ServerStep(c) == Pass(c) \/ Refused(c) \/ Called(c) \/ Searched(c) \/ IndexStep(c)

Next == \/ Person
        \/ LoopStep
        \/ IndexStep(Indexer)
        \/ \E c \in Clients : _serve(c) \/ ServerStep(c)

Spec == Init /\ [][Next]_vars

(* The event loop runs every task that can run, a request to the model ends  *)
(* in an answer or a timeout, and the idle wait has a timeout of its own.    *)
(* Nobody has to fill the folder, connect, or deliver an event.              *)
FairSpec == /\ Spec
            /\ WF_vars(LoopStep)
            /\ WF_vars(IndexStep(Indexer))
            /\ \A c \in Clients : WF_vars(ServerStep(c))

-----------------------------------------------------------------------------
(* No pass files what the library holds: of two passes, of the loop and of   *)
(* clients, the second knows what the first has filed, though each asks the  *)
(* model between looking and filing (watch.py:131-134, daemon.py:309-313).   *)
(* Only an orphan that is adopted can be a second of its content; and of one *)
(* pass, two equal files are both filed, which this does not speak of.       *)
NoKnownContentIsFiled ==
  [][\A r \in rows' \ rows : HashOf(r) \in Known => r \in orphans]_vars

(* Nothing is indexed that is not in the library, though a document can be   *)
(* removed while its text is being embedded (semantic.py:593-597).           *)
IndexHoldsOnlyDocuments == sources \subseteq rows

(* No two index passes are about to embed, and pay for, the same document    *)
(* (daemon.py:315-318).                                                      *)
EmbeddedOnce == \A p, q \in Procs : p # q => todo[p] \cap todo[q] = {}

(* A file that lies in the folder is read by a pass of the loop, as it is,   *)
(* or leaves, whatever events are missed and passes fail, as long as a file  *)
(* that changes changes its size (watch.py:69-71, 36-37).                    *)
EveryArrivalIsTried == fresh # {} ~> fresh = {}

(* What a pass of the loop recorded, if it could link any of it, is followed *)
(* by an index pass that reads the library after it; or the one asked for    *)
(* fails before it has (watch.py:76-78, 187-188, 207-211, 261-263).          *)
FilingsAreIndexed == owed ~> ~owed

(* Every request is answered: the two locks never wait for each other.       *)
RequestsAreAnswered ==
  \A c \in Clients : (pc[c] # "idle") ~> (pc[c] = "idle")

(* The holder of a lock is the task that is where only a holder can be, what *)
(* a pass is about to file is not in the library, and what an index pass has *)
(* read is nobody else's while it holds Server.indexing. With the types this *)
(* is preserved by every step; NoKnownContentIsFiled and EmbeddedOnce follow *)
(* from it.                                                                  *)
AtIndexing == {"wantsRead", "planning", "wantsDrop", "embedding", "wantsFlush"}

LocksAgree ==
  /\ \A p \in Procs : At(p, "asking") => Holds(busy, p)
  /\ \A p \in Procs : pc[p] \in AtIndexing => Holds(indexing, p)

CandidatesAreNew ==
  \A p \in Procs : At(p, "asking") => \A d \in cand[p] : d[2] \notin Known

OnlyIndexersHaveToDo == \A p \in Procs : pc[p] \notin AtIndexing => todo[p] = {}

Inductive == /\ TypeOK
             /\ LocksAgree
             /\ CandidatesAreNew
             /\ OnlyIndexersHaveToDo
             /\ IndexHoldsOnlyDocuments
=============================================================================
