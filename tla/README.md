# sortyourpaperya, verified

TLA+ models, model-checking runs and machine-checked proofs for *sortyourpaperya*
(`src/python/src/sortyourpaperya`), a program that files PDFs: it hashes what
lies in an input folder, has a language model give each document a title, authors
and a category, copies or moves it into a store, records it in a DuckDB database
and links it into a tree of categories. A watcher (`sypy watch`) does this
whenever PDFs settle in a folder; while it runs, other commands reach the library
through its socket.

File names below are relative to `src/python/src/sortyourpaperya`.

## 1. Inventory

### Components, their state and their operations

| Component | State | Operations | Correct when | Model |
|---|---|---|---|---|
| Folder claims, `watchlock.py` | one file per claimed folder in the watch-locks directory, with a payload and an flock; each watcher's descriptors | `claim`, `release`, `live_claims` | no two running watchers share an input folder or a library; a dead watcher keeps nobody out | `FolderClaims`, `WatchLock`, `WatchLockProofs` |
| Ingest pass, `ingest.py` | one pass's candidates, labels and placed documents | `ingest_folder` in seven phases | no bytes lost, nothing filed that is known, no row without its document, nothing paid for twice | `Filing` (files and rows), `Answers` (requests) |
| Library, `library.py` | the store's folders, the tree's links, the database | `place_file`, `record`, `link_paper`, `retag`, `remove`, `rescan`, `orphans`/`adopt`, `rebuild_tree`; `backup`, `migrate_store_layout`, `refresh_document_names`, `tree_litter` | rows, store and links agree, or disagree only in ways `fsck` and `tree` mend | `Filing` (the ones before the semicolon) |
| Database, `db.py` | papers, attributes, bought answers, chunks; at most one connection | atomic writes, queries, `release`; `remember_model_answers` | every write is all or nothing; answers are kept as long as promised; nobody waits for ever to open it | the writes in `Filing`, bought answers in `Answers`, who has it open in `Service` |
| Watch loop, `watch.py` | the pending snapshot, that of the last pass, the wake event, the index task | measure, settle, pass, announce, wait | every arrival is tried, and once | `WatchLoop`; starting, stopping and dying in `Service` |
| Watcher server, `daemon.py`, `protocol.py` | connections; the locks `busy` and `indexing` | `_serve` and its ops, `start`, `stop` | ops do not overlap, every request is answered; the path leads to the watcher that serves | `WatchLoop` (ops by the locks they take), `Service` (its life), `WatcherKey` (the ops on the key) |
| Search index, `semantic.py` | chunks and fingerprints | `index_library`, `search` | what is filed gets indexed once, and nothing else | `WatchLoop` (waits, bursts, failures) |
| Discovery, `discovery.py` | none | `discover_pdfs`, `snapshot_input` | snapshots differ when the folder does | `WatchLoop` |
| Names, `naming.py` | none | `store_name`, `link_name`, `disambiguate` | names are unique, short and legal | `Filing` (what names distinguish) |
| Command routing, `client.py` | a local library, a socket | read or write directly, or through the watcher | nothing done twice or reported undone, every command ends | `Service` |
| Spend limit, `budget.py` | one JSON file under a lock | `check`, `record`, `reset`, prune | no count is lost, spending stops at the limit | `Ledger` |
| Model client, `llm.py` | key, client, retries | `extract_keywords`, `read_pages`, embeddings | every request is counted; no replaced key is spent | `Ledger` (what requests cost), `WatcherKey` (keys and refusals) |
| Settings and key, `config.py` | the key cache | `resolve_api_key`, store, forget | a replaced or refused key is not used on, a good one is found, the keychain is spared | `WatcherKey` |
| Bibliographies, `bib.py`; reading list, `reading.py` | a record and a `.bib`; one file | load, change, save | the list is whole; keys, marks and rankings stand | `Bibs` |
| Watch registry, `registry.py` | a configuration file | `load`, check for shared folders | no two watches overlap | not modelled |
| Command line, `cli.py` | none of its own | each command's way to the library, and whom it asks in between | the database is not held for a person | `Service`, `Bibs` (what a command does to them) |
| `extract.py`, `render.py`, `recategorize.py`, `notes.py`, `notify.py`, `pick.py` | none of their own | wrap a PDF library, a model, an editor, a notifier, a terminal | | not modelled |

### How they interact

The watch loop claims its folders, then binds the socket, then loops. It, the
index task and every connection are coroutines of one thread that share one
`Library` and its single database connection. Two locks order them: `busy` for
anything that writes, `indexing` for one index pass at a time; an index pass holds
`indexing` throughout and takes `busy` for each visit to the database. Commands
outside the watcher open the database themselves and, when it is locked, go
through the socket. Every process of the machine counts what it spends in one
ledger file, and reads the API key from one keychain. Bibliographies are plain
files that each command loads and saves for itself. The disk is shared with people: the input folder fills under
a running pass, stored files are annotated, links are deleted.

### What is hard

* **Claims.** flock is held on an inode and names are rebound under it; release is
  three system calls; the process dies anywhere.
* **Filing.** Disk and database change in turn with nothing to make the two
  atomic; a pass decides what is new long before it writes.
* **Watching.** Everything waits for requests of minutes: a filing lands during an
  index pass, a removal between reading and writing the index, a client's ingest
  beside the loop's own; events get lost.
* **Commands beside a watcher.** Looking whether a watcher answers, dialling it,
  being served and being answered are four moments, and it can stop or die between
  any two.
* **Copies of what others change.** The key is cached in three places with two
  deadlines; an answer bought again is merged into a row with an age of its own.
* **Sharing files between processes** without a lock around load and save
  (bibliographies, reading list, the budget's reset).

`PROJECT.json` lists each hazard at its line with the properties that cover it,
or why none does.

## 2. Modules

### `FolderClaims`: what the claims promise

Each claim has an owner or none; a watcher runs (`watching`) only while it owns
the two it wanted; a dead one owns nothing from that instant. Nothing is said of
files.

### `WatchLock`: how `watchlock.py` keeps it

One action per system call of `_acquire` and `release`: `Create` (link), `Open`,
`Flock`, `Check` (`_is_current`), `Truncate`, `Write`, then `watching`, then
`ReleaseIsCurrent`, `ReleaseUnlink`, `ReleaseClose` for each entry; `Crash`
anywhere; and a reporter's `ProbeOpen`, `ProbeFlock`, `ProbeClose`. State: the
inode each name leads to (`dir`), each inode's lock and payload, each process's
descriptors. Inode numbers are reused once no name and no descriptor refers to
them, which is what makes comparing numbers in `_is_current` worth checking.
`Owner` and `Watching` map it to `FolderClaims`: a claim is owned by whoever holds
the lock of the inode the name leads to *now*.

Left out: the temporary file of `_create` (it is private until the link makes it
visible, in one action); an `OSError` of flock other than contention; a claims
directory cleared by hand; reused process ids (the payload's pid decides nothing).

### `Filing`: the library's operations

One operation at a time, as under `busy`, each a sequence of steps at which the
process can die and the person can act. `op` and `at` say which operation is where;
`found`, `drafts`, `papers`, `taken` are its local variables and vanish with it.
A pass goes `RescanRead`, `RescanStat`, `RescanHash`, `RescanWrite`,
`HashCandidates`, `ReadBurst`, `Label`, then per document `PlaceMkdir`,
`CopyBegin`, `CopyEnd` (or `MoveAtOnce`, on one file system), `MoveUnlink`,
`CopyStat`, or `PlaceFails`; then `Record` and `Link`. `Commands` are retag,
remove, adopt and tree. Contents stand for the bytes of a PDF, equal contents for
equal hashes; the size and mtime of a file are those of one version of it, so
they are named by its content. A store folder is an id and a tag, a link a
category and a title; the title of another document can be the same.

Left out: preview mode (it stops after `Label` and writes nothing), the bank of
model answers (`Answers` has it), a touch that changes the mtime and not the bytes, bytes edited
back to an earlier version, folders a person makes in the store, a second process
(§6). Names are collapsed: a wanted link name and one disambiguated name stand for
the several levels of `naming.py`, the fallbacks of a store name are one id, and a
category inside another is a category.

Two ghosts: `hurt`, the documents whose own retag or removal broke off halfway,
and `steady`, the content each row's file has had since the operation began.

### `WatchLoop`: the watcher's process

A step is what runs between two awaits. The loop: `Measure`, `_wait_for_change`,
`StillArriving` or `Settled`, then a pass (`Hash`, and `Passed` or `Raised`), then
`Announced`, which makes the request to the index task. Index passes, of the task
and of clients: `BeginIndex`, `ReadPapers`, `_plan`, `DropVanished`, `Embedded`,
`_flush`, `Indexed`, `IndexRaised`. Connections: `_serve` takes a request, and
`Refused`, `Called`, `Searched`, the pass or the index pass answer it. `busy` and
`indexing` are the queues of `asyncio.Lock`, holder first. `input` and `newest`
are the folder: a file holds a content, several files can hold equal ones, and
`Size` says which contents a snapshot can tell apart. `rows`, `orphans` and `sources`
are the documents with a row, those placed by a pass that broke off before their
row, and those indexed. A document is the path and content it was filed from (its
hash is the content) and the number of its filing, so a document removed and filed
again is another one, as its fresh id makes it. What a pass records and what it
could link differ: the latter is `report.filed`, and only it makes the loop announce
and ask for an index. Of the methods served, `remove` takes a row and `adopt` gives
an orphan one; the others change nothing modelled here.

What the pass does between awaits is one step here; `Filing` is about that. An
event arrives with the change or never: a later one adds no behaviour, because
the idle wait may end at any time.

Left out: starting and stopping (`Service`), notes and the reasons for marks in
the index, the ops that touch only the key (`WatcherKey`), a client that goes away
(its op runs on; `Service` kills commands).

Two ghosts: `fresh`, the files no pass of the loop has read as they are, and
`owed`, whether the loop reported something filed and no index pass has read the
library since (`ReadPapers`), leaving aside the pass that gave up before it read.

### `Ledger`: what may be spent

Requests of several processes over the one ledger file. `_spend` checks the
ceilings against the file as it is, without the lock; `_exclusively` takes the lock,
reads the clock and the file and drops old hours; `_update` renames the new file
into place and sends the request; `_record_tokens` counts what the answer cost the
same way; `RecordFails` is the swallowed `OSError`, after which the request goes
out uncounted; `CallFails`, `reset` (no lock), `Crash` and `Tick` are the rest. A
process is one thread, so one of its `turn`s in the ledger ends before the next
begins, while its `calls` are in flight together.

Left out: a file that cannot be read counts as empty (so an unreadable moment
between two counts would lose what is in it; the file is only ever replaced whole);
the SDK's retries of one request, which are counted once; requests whose count
failed are not in `owed`, and neither is a count a reset undid.

### `WatcherKey`: the key as the watcher knows it

`cache`, `missLeft` and `rereadLeft` are `config.py`'s `_CACHED_KEY`, `_MISS_UNTIL`
and `_REREAD_AFTER`, deadlines as the time left; `built` is what the model client
and the embedder were made with. Generation numbers are only ever compared for
equality with the current one, so a copy says whether it is `fresh`. `Call`,
`Resolve` and `Keyless` are a call of a client that is there, one that must be
built, and one that cannot be; `Answered` and `Refused` the API's word, the latter
with `forget_cached_key`. `login`, `logout` and `ping` are the socket ops;
`StoredElsewhere` and `Issue` are the world.

Left out: a logout that finds nothing stored answers False and changes nothing,
cached key included; the later batches of one embedding go out on the key it began
with; the short-lived clients an op makes for itself.

### `Service`: commands and the watcher's life

`claim_folders`, `start`, `stop`, `unlink`, `release_claim`, `Exit` and `Crash` are
the life of `watch()` around its loop; what is left at the socket path by a crash
stays there and answers nobody. `PassDue`, `Serve`, `Reply`, `Fail` are ops and
passes under `busy`; `release` the idle loop letting go of DuckDB. A command goes
`Begin`, `reading`, `writing`, `call`, or `_connect` with its `Timeout`; then `Ask`,
`Yes`, `No` and `Work`. A `retag` that must ask the model first looks the document up,
reads the categories (`existing_categories`: in the same visit, or, when a watcher
looked it up, by opening the file itself) and then retags, unless the model fails or
the person calls it off (`_retag_by_asking`). `Kill` is Ctrl-C. The claim is the abstract one of
`FolderClaims`. `effects` is a ghost: how often a command's work was done.

An op is one method of the library in one visit to the database. An ingest makes
several, letting the database go in between; one refused then leaves what it has
placed, which is `Filing`'s broken-off pass and `WatchLoop`'s `Raised`.

Left out: commands that make several calls in a row are one op; `index` and
`search`, whose locks are in `WatchLoop`; frames, versions and sizes of the
protocol; what the work is (`Filing`).

### `Answers`: what is bought, and the bank of it

The phases of a pass as `ingest.py` orders its requests: `_extract_new`,
`_read_scanned`, `BankPages`, `extract_keywords`, `BankLabels`, `record`; `Crash` is
a pass that raises or dies. `Merged` is the upsert that keeps the row's
`created_at_ms`, `Pruned` the deletion in the same transaction. The ghosts `latest` and
`since` remember when each answer was banked and how old the row was that it went
into: an answer lasts as long as its row (`AnswersLastAsTheirRows`), which is less
than it is said to last (`NothingIsBoughtTwice`, false).

Left out: the settings 0 (nothing is banked) and no limit (nothing expires).

### `Bibs`: a bibliography and its reading list

Commands that load, change and save whole files: `load`, `add` (with `_free_key`, on
a document's own base or on one given with `--key`), `bib_build`, and a save in four
steps, since the record and the `.bib` are emptied and then written in place;
`from_agent` and `mark`, and a save in three, since the list is staged and renamed.
The person edits the record (`Edit`: says more of a source, gives it another key,
takes it out, writes one in) and mends a torn one; a command may `End` anywhere.
`stale`, `late`, `clean`, `orderly` are ghosts that say whether two saves overlapped or
one was cut short: the code promises nothing then, and does lose a citation or a
ranking (§3). `told` and `withdrawn` keep what was reported and what the person took
out since the `.bib` was written.
Left out: creating a bibliography, shelving and notes, and a person who gives two
sources one key, which no command looks for.

### Proof modules and `MC*`

`WatchLockProofs`, `FilingProofs`, `WatchLoopProofs`, `LedgerProofs`,
`WatcherKeyProofs`, `ServiceProofs`, `AnswersProofs` and `BibsProofs` hold the proofs
(§4). The `MC` modules define the
values of constants a `.cfg` cannot write, and symmetries (only for runs without
liveness). The definitions marked *Mutant* stand for plausible mistakes in the
code; each property is violated when one of them takes the place of the
definition it imitates.

## 3. Runs

| Run | Instance | Shows |
|---|---|---|
| `claims_safety` | 2 watchers of the same two folders, 2 starts each, a reporter, 4 inodes, 2 attempts | `ExclusiveFolders`; `NothingLeftUnlocked`, a release takes the name before the lock; `RefusedOnlyByTheLiving`, no leftover refuses anybody |
| `claims_live` | the same without the reporter, 1 start, 3 inodes | `ContentionHasAWinner`, two that start together do not both lose; `EveryClaimSettles`; `ImplementsFolderClaims` |
| `filing_bytes` | 2 paths, 3 contents, 2 ids, move, edits at any time; pass, scan, remove, adopt | `NothingIsLost`, `HashesAreCurrent`, `FilesOnlyWhatIsNew` |
| `filing_links` | 2 paths, 2 contents of one title, 2 categories, somebody's file in the way; pass, retag, remove, adopt, tree | `RowsAreBacked`, `LinksAreTrue`, `RebuildLinksAll` |
| `watch` | one file that changes, or two that are equal; the loop moves what it files, one client | `NoKnownContentIsFiled`, `IndexHoldsOnlyDocuments`, `EmbeddedOnce`; `EveryArrivalIsTried`, `FilingsAreIndexed`, `RequestsAreAnswered` |
| `ledger` | 2 processes, 2 requests each in flight, both ceilings 2, answers that cost 0 or 2, hours of 2, a window of 1, 5 ticks, one reset | `NothingIsUncounted`, no count of the last day is lost; `SpendingStopsAtTheCeilings` but for what was in flight |
| `key_live` | 2 keys, a miss believed for 2 ticks, no key in the environment | `ClientSpendsNoOldKey`; `AsksSparingly`, no third look at the keychain; `GoodKeyIsFound`, without a restart |
| `key_logout` | the same | *violation*: `NobodySpendsAnOldKey`, below |
| `service_life` | 2 watchers, 2 commands of any kind | `ThePathLeadsToTheWatcher`; `ToldTheTruth`, done at most once and never said undone when it was done; `EveryCommandEnds` |
| `answers_bank` | a scan and a document with text, answers that last 2 of 5 ticks | `AnswersLastAsTheirRows`, whatever fails in between; `NoOldLabelIsUsed` |
| `answers_again` | the same | *violation*: `NothingIsBoughtTwice`, below |
| `bibs_files` | 2 processes, 5 commands and edits, 2 documents that ask for one key | `NoHalfWrittenList`; `RankingsAndMarksStand`; `KeysStand`; `TheRecordExplainsTheBib` |

### Bounds

* **Inodes.** A watcher has at most one inode open that no name leads to (one it
  lost to a release), besides the linked ones; each reporter one more. With fewer,
  `Create` would wait for a free number and hide interleavings; with one spare,
  a freed number is reused, the case that matters.
* **`Attempts`** is 5 in the code and 2 here: the second attempt is what differs
  from the first, and the proofs hold for any number. `MaxStarts` bounds how often
  a watcher comes back; two starts let one meet its own leftovers.
* **Two watchers** contend for both claims; the proofs cover any number.
* **`Ids`** bounds the documents ever filed, removals included; two are enough for
  a collision of names, a twin, and an operation on one document that harms the
  other. Three contents allow two documents and an edit.
* **`Contents`, `Histories`, `MaxFilings`** bound what a file ever holds: either one
  file has two contents, the second being what a stale snapshot is stale against, or
  two files hold the same one. Each content of each file is filed once: a second
  filing, after a removal, is in the proofs, which bound nothing. **`Moves`** is TRUE:
  passes that move raise events of their own and race the person for the file.
* **`Ledger`.** Two processes with two requests each are what it takes to pass a
  ceiling in every way there is: checks before the other's count, answers that come
  in late. Five ticks carry the window over two hours and past the first count.
* **`WatcherKey`.** A second key is what a replaced one is replaced by; two ticks
  separate the beginning, the middle and the end of a miss. A key in the
  environment is in the proofs.
* **`Service`.** Two watchers overlap in stopping and starting; two commands, of
  which one may hold the database against the other or queue behind it.
* **`Answers`.** A row lives for two ticks and the clock runs for five: a row can
  be bought, merged into, expire and be bought again.
* **`Bibs`.** Two processes overlap; of five commands and edits one save rests on
  another's, is lost to a third, and the person edits before and after. The bound stops the model where the program goes on,
  so its deadlock is not checked (nor that of the claims, which end for good once
  their starts are used up).
* **Clients.** With one client there are three contenders for `busy` (loop, index
  task, client) and two for `indexing`; a client can be any op.

### Fairness

`WatchLock!FairSpec`: each watcher that is in the middle of `claim` or `release`
takes its next system call. Nobody has to start, stop, crash or probe. None of
these calls blocks (`LOCK_NB`), so a running process justifies it.
`WatchLoop!FairSpec`: the loop, the index task and each served request take their
next step when they can. The event loop is fair to ready tasks, `asyncio.Lock`
serves in order, a request to the model ends in an answer or its timeout, and the
idle wait has its own timeout. Nobody has to put files there, connect, or deliver
an event.
`WatcherKey!FairSpec`: time passes, the API answers or its timeout does (a
refusal), and a watcher with work asks again, as its loop does on the next pass.
`Service!Spec`: a command takes its next step, a person who is asked answers, a
watcher serves the head of its queue and, once stopping, stops. Waiting for the
database ends at `_connect`'s deadline, an action of its own, so nobody need let it
go, and nobody need ever start a watcher.

### Where the code and its documentation part

`key_logout`: `LazyOpenAiEmbedder.embed` takes the new generation before it asks
for the key and keeps its old embedder when there is none (`semantic.py:305`).
After a logout one call fails for want of a key; the next finds an embedder of
the current generation and sends on the key that was forgotten. The model client
drops its own first (`llm.py:609-612`, "Rebuild rather than keep spending the key
it replaced"), and `ClientSpendsNoOldKey` holds of it.

`answers_again`: an answer is merged into the row there is and `created_at_ms` stays
as it was (`db.py:650-675`). So the labels of a scan run out with its page text,
however late they were bought; and one bought because the row is too old is deleted
by the write that brings it, so a pass that fails after that pays for it again.
`ingest.py:195-197` says that a pass can crash and "re-run without paying for any of
it a second time", `db.py:636` that a later pass "does not buy it again",
`python/README.md:129` that answers are "reused for 7 days". What does hold is
`AnswersLastAsTheirRows`.

The models contain the following as well. They are not runs; how to see each is
in brackets.

* A watcher that created its claim, lost it to another's release and opened that
  one's successor still counts it as `created` and does not rewrite it; the claim
  names a watcher that may be gone (`watchlock.py:180-182`) [`WatchLock`: the
  payload of a locked inode].
* Candidates of one pass are compared with rows and never with each other
  (`ingest.py:366`): two copies of one paper that arrive together are both filed, where
  `python/README.md:220-222` says that "the same paper arriving twice under different
  names is recognised" [`Filing`: two rows of one hash; `watch`: two equal files in one
  `cand`. `NoKnownContentIsFiled` speaks of what the library held before the pass
  wrote, and excepts an orphan that somebody adopts, for which nobody asks what the
  library has].
* A file overwritten between the hash of phase 1 and the copy of phase 5 is
  recorded with the old hash beside the new size and mtime, and `rescan` never looks
  behind a matching size and mtime again (`library.py:168`) [`filing_bytes` with
  `MayReplace = TRUE` violates `HashesAreCurrent`, `FilesOnlyWhatIsNew` (such a
  document is no match for its own bytes) and `NothingIsLost` (whoever overwrites
  having lost the bytes); the runs set it `FALSE` for that reason].
* `_place_link` replaces any link at the wanted name as "ours, and pointing at a
  previous answer" (`library.py:668-679`), and `taken` is empty for a retag, an adoption
  and at the start of a pass (`library.py:240`, `library.py:613`, `ingest.py:230`), so
  each takes the link of a document with the same author, year, title and tags,
  which then has none [`filing_links`: a row whose link is another's. `LinksAreTrue`
  speaks only of the links there are; a rebuild gives each its own, which is
  `RebuildLinksAll`].
* A snapshot is sizes by path and `last_run` is never reset, so a PDF replaced by
  one of the same size is not tried (`watch.py:112`, `discovery.py:14-16`)
  [`watch` with one `Size` for both contents violates `EveryArrivalIsTried`; the
  run gives each its own].
* The idle loop releases the database, then a served op opens it again and nothing
  closes it until the wait ends, up to 60 s later (`daemon.py:391`,
  `tests/test_watch.py:147`). A command that finds it locked is answered through
  the socket; another program is not [`Service`: `writer` is the watcher, which is
  why it assumes no fairness of `release`].
* A retag whose document the watcher looked up reads the categories itself
  (`cli.py:524`, `client.py:191-193`), not through the socket. It waits 30 s for the
  database (`db.py:32`, `db.py:401-424`) that the watcher's op has just opened and may keep
  for up to 60 s (`watch.py:38`), and then fails [`Service`: `Timeout` at `steering`].
* A pass that recorded documents and could link none of them, or raised while
  linking, asks for no index pass (`ingest.py:235-241`, `watch.py:170`, `watch.py:187`),
  where `watch.py:76-78` promises one after "a pass that filed something"; and one that
  fails before it has read the library is not repeated. What was filed waits for the
  next filing [`WatchLoop`: `Passed` with nothing linked, `Raised`, `GaveUp`;
  `FilingsAreIndexed` speaks of the rest].
* `bib add`, `bib build`, ranking and marking each load a file, change it and save it
  whole with nothing to keep another out (`bib.py:448`, `reading.py:287`), so of two
  that overlap one loses its citation, ranking or mark, after reporting it [`Bibs`:
  `KeysStand` without `clean`, `RankingsAndMarksStand` without `orderly`].
* Which document is meant is asked with the database open in `bib add`
  (`cli.py:925-926`), `remove` and `retag`, whereas `cli.py:921-923` says both
  questions are asked before it is opened [`Service`: the command state `asking`].
* `bib.toml` is written in place (`bib.py:258`), so a save cut short leaves neither
  the old truth nor the new, where the docstring (`bib.py:253-255`) promises the
  truth written and its projection stale [`Bibs`: `record = Torn`; `Mend` is the
  person].
* The loop finds the folder settled *before* it waits for `busy`, and what it
  hashes after the wait may still be arriving [`WatchLoop`: `Settled`, `Arrive`,
  `Hash`]; a reporter's probe can refuse a starting watcher for an instant
  (`RefusedOnlyByTheLiving` counts it as alive); a removal that dies between folder
  and row leaves a row without its folder (`RowsAreBacked` excepts it).

## 4. Proofs

`tlapm` checks every step of the eight proof modules, with no bound on the
constants. Every invariant and every action property of the passing runs is the
conclusion of a theorem; four of them have hypotheses, which are those of their
runs and without which they are false (`FilingProofs`, `WatchLockProofs`).

**`WatchLockProofs`**, from `ConstantsAssumption`: each watcher has an input claim
and a library claim, no claim is an input for one and a library for another (the
names carry the kind), the sentinels are nobody. The promise, `ExclusiveFolders`,
is not inductive: it says nothing of a watcher that has locked an inode and not yet
looked whether the name still leads to it. `Inductive` adds what each place of the
protocol has secured: `SecuredIsPublished` (a claim that was checked is linked
under its name, open and locked by its watcher), `DescriptorsInOrder`,
`LocksAreHeld` (a lock is held by a process with a descriptor for it, so it cannot
outlive it), `OneNamePerInode`, and `OpenedByItsName` (an open inode is found under
the name it was opened by or under none). One lemma per system call shows that it
is preserved. From it follow `TypeCorrect`, `InductiveHolds`, `Exclusion`,
`NothingLeft` (the action property: name before lock) and `Implementation`: every
step of `WatchLock` is a step of `FolderClaims` or changes nothing there.
`TheDeadRefuseNobody` (`RefusedOnlyByTheLiving`) adds `ReportersHold`: a reporter has
the lock of what it probes and of nothing else, so a lock that refuses is held by
somebody alive. `StartedTogetherOneGetsThrough` is `ContentionHasAWinner` for any
number of watchers, of any folders, with any number of attempts, assuming that each
starts at most once and nobody probes. With a reporter, or with second starts, TLC
finds it false: a probe turns a watcher away, and one that starts again can be
turned away by one that is still releasing. Its invariant `SomebodyHopes` says that
somebody has died, or somebody is `Through` (has its library's lock under the
current name, which no other process can then unlink), or no claim was given up
yet: then every name opened is still current, no attempt is wasted, and whoever is
refused is refused by one who is not.

**`FilingProofs`**, from `FilingAssumption` and `NoneIsNothing` (the sentinels are no
contents, titles, folders or rows). Nothing is inductive by itself: what a step may
do depends on what the operation has done before. `Inductive` is `TypeOK` and
`Phases` (which operation is at which step, and what it has in memory before it has
read or placed anything), `Owned` (an id has one store folder, of an id handed out),
`Scanning`, `Placed` (documents placed have their files and no rows yet, and at most
one is on its way), `Linking`, `Retagging`, `Removing` (what holds between the steps
of each), `RowsAreBacked` and `LinksAreTrue`. One lemma per step shows that it stays;
`Invariance`, `TypeCorrect`, `EveryRowIsBacked` and `EveryLinkIsTrue` follow.
`EveryDocumentIsLinkedOnce` adds `Rebuilding`: every link so far is of a document
that is done, under one of its two names, and every document with a file is to do,
linked, or out of names. `NoBytesAreLost`, `RescanFindsEveryEdit` and
`PassesFileOnlyWhatIsNew` assume `~MayReplace`: nobody overwrites a waiting file under
a running pass. Without that the code keeps none of them (§3). They rest on
`Faithful`: what a pass has read of a file twice is the same (`Unreplaced`); a row's
size and mtime are of no later version than its hash, and its hash of none later
than the file (`Ordered`), so a stat that did not move is a hash that did not;
`Reconciled` and `New` carry that through the rest of a pass.

**`WatchLoopProofs`**, from `WatchLoopAssumption`: sizes are positive, the loop,
the index task and the clients are different tasks, contents are numbers. `NoKnownContentIsFiled` says of a step that what it files
is new, though the pass found it long ago. `Inductive` is `TypeOK` with `LocksAgree` (a task
that is where only a holder of `busy` or `indexing` can be heads that queue),
`CandidatesAreNew` (nothing a running pass found has been filed meanwhile),
`OnlyIndexersHaveToDo` and `IndexHoldsOnlyDocuments`. Joining a queue leaves its head
alone and a queue is left only by its head, so at most one pass is between finding
and filing, and an adoption waits for it; what it files is then of no content the
library had. Equal files of one pass and adopted orphans are outside the statement,
as they are outside what the code does (§3). `InductiveHolds`, `TypeCorrect`,
`KnownContentIsNotFiled`, `NothingGoneIsIndexed` and `NeverEmbeddedTwice` follow, for
any number of files, contents, filings and clients.

**`LedgerProofs`**, from `LedgerAssumption` (the processes are finitely many, and an
answer can cost something but no more than a most): `TypesHold`, `SpendIsNotLost` and
`SpendingIsBounded`. That no count is lost needs `Accounted`: a process with the file
read holds the lock, hence only one has, and its copy covers what is owed of the
hours in the window, because nobody else writes before it does; a reset empties both
sides. That spending stops needs `InReach`: what the day has cost, with what each
process is counting and the costliest answers to what it has in flight, is within
reach of the ceilings. A check establishes it, since the file says no less than is
owed; counting only moves a sum from what is to come to what has come; failing,
crashing, resetting and the clock take away. Both sides are sums, over the hours of
the window and over the processes. The lemmas about sums over a finite set
(`SumIsFolded` to `SumIsBounded`) are proved by looking at a smallest set of which
one would be false, for which the library has a theorem (`WFMin`).

**`WatcherKeyProofs`**, from `KeyAssumption`: `TypesHold`; `OldKeysAreNotSpent`, from
`Standing` (what is cached fresh, and what the model client was freshly built on,
was in the keychain since the last login or logout, both of which turn every copy
stale); `TheKeychainIsSpared`, from `Sparing` (a second reading within a miss's
length means a refusal dropped the first's result, and no other can until then).

**`ServiceProofs`**, from `ServiceAssumption`: `ThePathIsTheWatchers`, from
`OneAtATime`: from claiming to letting go a watcher holds the claim, so of all that
start, serve and stop there is one, and binding and unlinking the path are its own.
`EverythingIsServedOnce` is the invariant `AllServed`: `TypeOK` (a queue holds nothing
twice) and `OnceAtMost` (what stands in a queue was asked of that one watcher by a
command that waits or was killed, and is done if the head has run and is it; a
command that was told no, or not told yet, has had nothing done). From it
`TypesHold` and `CommandsAreToldTheTruth`, with lemmas on how joining, leaving and
dropping the loop's turn change what a queue holds.

**`AnswersProofs`**, from `AnswersAssumption`: `TypesHold`; `AnswersLast`
(`AnswersLastAsTheirRows`) and `OldLabelsAreNotUsed`, from `RowAges` (a half that is there
has the age of its row, which is no younger than the half; a banked half that is
missing went with a row that was too old) and `PassKnows` (what the pass found and
missed in the bank when it looked, kept while it waits).

**`BibsProofs`**, from `BibsAssumption` (finitely many documents, a base for each) and
`NothingIsWritten` (no record and no list is the sentinel for a missing or a torn
file). `Inductive` is `TypeOK`, `InHand` (what a command has loaded, made or staged, by
how far it has come), `ListStands` (a list about to be renamed into place is a newer
ranking with the marks of the one in place, or that ranking with other marks,
unless saves overlapped), `AllDistinct` (no two keys are equal, in files and hands)
and `SavesStand` (while saves neither overlap nor are cut short a record is torn
only under its one writer, who adds to what it was and to what was told, and the
`.bib` is not ahead but for what the person took out since: `Explains`, with
`withdrawn`). That `_free_key` finds a key is a pigeonhole argument: a base
has one more suffix than there are documents. `Invariance`, `TypeCorrect`,
`TheListIsWhole`, `NothingUndoesAMark`, `KeysAreKept` and `TheBibIsNeverAhead` follow.

## 5. Only model-checked

Liveness: `EveryClaimSettles`, `EveryArrivalIsTried`, `FilingsAreIndexed`,
`RequestsAreAnswered`, `GoodKeyIsFound` and `EveryCommandEnds`. The proof system does
not reason about fairness and ENABLED. All invariants and action properties that the
passing runs check are proved; `NobodySpendsAnOldKey` and `NothingIsBoughtTwice` are
false (`key_logout`, `answers_again`).

## 6. Plan, and what is not modelled

In this order; each step gives the module, what it composes with, its statement,
and the theorem worth proving.

1. **A catalogue**: the abstract specification of `Filing`, a set of documents with
   filing, retagging and removal as single steps, which `Filing` implements but for
   operations that broke off; the refinement follows from `FilingProofs`' invariant.
2. **Queues in order**: the abstract `busy` as one lock, which `WatchLoop`'s and
   `Service`'s queues implement.
3. **Concurrent commands**: the operations of `Filing` as processes, for commands
   without a watcher, where only database bursts exclude each other; `backup`
   (`library.py:341`: database first, store second) beside retag and remove.
   Property: every row of the copy has its folder.
4. **The index in editions**: notes and fingerprints; an edited source is embedded
   again, a vanished one is dropped.
5. **Pure algorithms** against reference definitions: `naming.disambiguate`,
   `store_name`/`split_category`, `chunk_pages`, `registry`'s check for shared
   folders.

Not modelled, and not planned but for the steps above: migrations, queries and
attributes of the database; `migrate_store_layout`, `refresh_document_names` and
`tree_litter`; the frames of `protocol.py`; arguments, output and `doctor` of the
command line; settings other than the key; the end of a bounded run of the watcher
(tests use it).

Not planned: extraction and rendering (a PDF library's), the picker and the
command line (terminal output), notifications and the editor (nothing depends on
them).
