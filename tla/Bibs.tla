-------------------------------- MODULE Bibs --------------------------------
(***************************************************************************)
(* One bibliography of a library (bib.py, reading.py, and the commands of  *)
(* `sypy bib`): its record bib.toml, the references.bib generated from it, *)
(* and its reading list. No lock guards them and no watcher serves them: a *)
(* command loads a file, changes what it has loaded and saves it whole,    *)
(* and between loading and saving may wait for a person or an agent. The   *)
(* record and the .bib are written in place; the reading list is written   *)
(* beside and put in its place at once.                                    *)
(***************************************************************************)
EXTENDS Integers, FiniteSets, FiniteSetsExt, Functions

CONSTANTS Procs,        \* commands running at once
          Docs,         \* documents, and sources by hand, that may be cited
          Base,         \* [Docs -> ...]: the citation key each asks for
          MaxCommands,  \* bound: how many commands are run and edits made
          None,         \* no entry, no file
          Torn          \* a file cut off where a write has come to

ASSUME BibsAssumption == /\ MaxCommands \in Nat
                         /\ IsFiniteSet(Docs) /\ Docs = DOMAIN Base
                         /\ None # Torn

VARIABLES record,       \* bib.toml
          bib,          \* references.bib
          reading,      \* reading.toml
          staged,       \* what is written beside it
          commands,     \* how many commands were run and edits made
          at,           \* how far each command has come
          mem,          \* the bibliography each has loaded, and changed
          made,         \* the reading list each has made
          stale,        \* ghost: whether the record changed under it since
          late,         \* ghost: whether the reading list did
          clean,        \* ghost: no save of the record was lost or cut short
          orderly,      \* ghost: no save of the reading list was lost
          told,         \* ghost: the citations commands have reported, and the
                        \*   person has left alone
          withdrawn,    \* ghost: sources the person took out, or gave another key,
                        \*   since the .bib was written
          ranking,      \* ghost: which list an agent saved last, 0 for none
          marked        \* ghost: the entries on it the reader has marked

vars == <<record, bib, reading, staged, commands, at, mem, made, stale, late, clean,
          orderly, told, withdrawn, ranking, marked>>

bibliography == <<record, bib, mem, stale, clean, told, withdrawn>>

list == <<reading, staged, made, late, orderly, ranking, marked>>

-----------------------------------------------------------------------------
(* A citation key is the one asked for, or that with a letter or a number.   *)
Keys == Range(Base) \X (0 .. Cardinality(Docs))

Entry == [key : Keys, edited : BOOLEAN]

Records == [Docs -> Entry \cup {None}]

Cited(r) == {d \in Docs : r[d] # None}

(* Mutant: the key is used whether or not it is taken.                       *)
TakesAnyKey(base, taken) == <<base, 0>>

KeysOf(r) == {r[d].key : d \in Cited(r)}

_free_key(base, taken) ==
  <<base, Min({n \in 0 .. Cardinality(Docs) : <<base, n>> \notin taken})>>

(* A reading list: which one, what it ranks, and what of that is read.       *)
Lists == [number : 1 .. MaxCommands, entries : SUBSET Keys, read : SUBSET Keys]

(* None is no entry, and neither None nor Torn is what a file says.          *)
ASSUME NothingIsWritten == None \notin Entry /\ {None, Torn} \cap (Records \cup Lists) = {}

TypeOK ==
  /\ record \in Records \cup {Torn} /\ bib \in Records \cup {Torn}
  /\ reading \in Lists \cup {None, Torn}
  /\ staged \in [Procs -> Lists \cup {None, Torn}]
  /\ commands \in 0 .. MaxCommands
  /\ at \in [Procs -> {"idle", "loaded", "saving", "record", "saved", "bib",
                       "listed", "staging", "staged"}]
  /\ mem \in [Procs -> Records \cup {None}]
  /\ made \in [Procs -> Lists \cup {None}]
  /\ stale \in [Procs -> BOOLEAN] /\ late \in [Procs -> BOOLEAN]
  /\ clean \in BOOLEAN /\ orderly \in BOOLEAN
  /\ told \subseteq Docs \X Keys /\ withdrawn \subseteq Docs
  /\ ranking \in 0 .. MaxCommands
  /\ marked \subseteq Keys

Nothing == [d \in Docs |-> None]

Init == /\ record = Nothing /\ bib = Nothing /\ reading = None
        /\ staged = [p \in Procs |-> None]
        /\ commands = 0 /\ at = [p \in Procs |-> "idle"]
        /\ mem = [p \in Procs |-> None] /\ made = [p \in Procs |-> None]
        /\ stale = [p \in Procs |-> FALSE] /\ late = [p \in Procs |-> FALSE]
        /\ clean = TRUE /\ orderly = TRUE
        /\ told = {} /\ withdrawn = {} /\ ranking = 0 /\ marked = {}

Goes(p, from, to) == /\ at[p] = from /\ at' = [at EXCEPT ![p] = to]
                     /\ UNCHANGED commands

(* A command begins by loading what it will change.                          *)
Begins(p, to) == /\ at[p] = "idle" /\ at' = [at EXCEPT ![p] = to]
                 /\ commands < MaxCommands /\ commands' = commands + 1

-----------------------------------------------------------------------------
(* Mutant: a record that does not read is loaded all the same.               *)
LoadsAnything(p) == /\ Begins(p, "loaded")
                    /\ mem' = [mem EXCEPT ![p] = record]
                    /\ stale' = [stale EXCEPT ![p] = FALSE]
                    /\ UNCHANGED <<record, bib, clean, told, withdrawn, list>>

(* bib add, bib build. A record that does not read is an error.              *)
load(p) == /\ Begins(p, "loaded")
           /\ record # Torn
           /\ mem' = [mem EXCEPT ![p] = record]
           /\ stale' = [stale EXCEPT ![p] = FALSE]
           /\ UNCHANGED <<record, bib, clean, told, withdrawn, list>>

(* A document that is not cited yet, under a key nothing else has: that from *)
(* its author and year, or another one (`--key`), if nothing has it.         *)
add(p, d) ==
  /\ Goes(p, "loaded", "saving")
  /\ mem[p][d] = None
  /\ \E base \in Range(Base) :
       mem' = [mem EXCEPT ![p][d] = [key    |-> _free_key(base, KeysOf(mem[p])),
                                     edited |-> FALSE]]
  /\ UNCHANGED <<record, bib, stale, clean, told, withdrawn, list>>

bib_build(p) == /\ Goes(p, "loaded", "saving")
                /\ UNCHANGED <<bibliography, list>>

(* save: the record, then the .bib; each is emptied, then written.           *)
Saving(p) == at[p] \in {"record", "saved", "bib"}

(* Mutant: a save writes the .bib and not the record.                        *)
SkipsTheRecord(p) == /\ Goes(p, "saving", "saved")
                     /\ UNCHANGED <<bibliography, list>>

Changed(p) == stale' = [q \in Procs |-> stale[q] \/ (q # p /\ at[q] # "idle")]

EmptyRecord(p) ==
  /\ Goes(p, "saving", "record")
  /\ record' = Torn
  /\ Changed(p)
  /\ clean' = (clean /\ ~stale[p] /\ \A q \in Procs : ~Saving(q))
  /\ UNCHANGED <<bib, mem, told, withdrawn, list>>

(* Two writes that overlap leave one of them or a mixture.                   *)
Written(file, content) == {content} \cup (IF file = Torn THEN {} ELSE {Torn})

WriteRecord(p) == /\ Goes(p, "record", "saved")
                  /\ record' \in Written(record, mem[p])
                  /\ Changed(p)
                  /\ UNCHANGED <<bib, mem, clean, told, withdrawn, list>>

EmptyBib(p) == /\ Goes(p, "saved", "bib")
               /\ bib' = Torn
               /\ UNCHANGED <<record, mem, stale, clean, told, withdrawn, list>>

(* Then the command says what it has cited, and under which key.             *)
WriteBib(p) == /\ Goes(p, "bib", "idle")
               /\ bib' \in Written(bib, mem[p])
               /\ mem' = [mem EXCEPT ![p] = None]
               /\ stale' = [stale EXCEPT ![p] = FALSE]
               /\ told' = told \cup {<<d, mem[p][d].key>> : d \in Cited(mem[p])}
               /\ withdrawn' = {}
               /\ UNCHANGED <<record, clean, list>>

(* The person edits the record: says of a source what the library does not   *)
(* know, gives it another key, takes it out, or writes one in, with keys     *)
(* that nothing else has. What was reported of it, and what the .bib says,   *)
(* the person knows to be of before.                                         *)
Rewritten(d) ==
  LET taken == KeysOf([record EXCEPT ![d] = None])
  IN {None} \cup [key : Keys \ taken, edited : {TRUE}]

Edit ==
  /\ record # Torn
  /\ commands < MaxCommands /\ commands' = commands + 1
  /\ \E d \in Docs : \E entry \in Rewritten(d) \ {record[d]} :
       LET kept == record[d] = None \/ (entry # None /\ entry.key = record[d].key)
       IN /\ record' = [record EXCEPT ![d] = entry]
          /\ told' = IF kept THEN told ELSE {c \in told : c[1] # d}
          /\ withdrawn' = IF kept THEN withdrawn ELSE withdrawn \cup {d}
  /\ stale' = [p \in Procs |-> at[p] # "idle"]
  /\ clean' = (clean /\ \A p \in Procs : ~Saving(p))
  /\ UNCHANGED <<bib, mem, at, list>>

(* A record that was cut short stops every command of the bibliography until *)
(* the person mends it, from the .bib beside it or from nothing.             *)
Mend == /\ record = Torn
        /\ \A p \in Procs : at[p] # "record"
        /\ record' \in {Nothing} \cup ({bib} \ {Torn})
        /\ stale' = [p \in Procs |-> at[p] # "idle"]
        /\ UNCHANGED <<bib, mem, clean, told, withdrawn, commands, at, list>>

-----------------------------------------------------------------------------
(* bib reading. An agent's list, of sources the bibliography cites, takes    *)
(* the old one's place; what is marked read on the old one stays marked.     *)
Listed(p, l) == /\ made' = [made EXCEPT ![p] = l]
                /\ late' = [late EXCEPT ![p] = FALSE]
                /\ UNCHANGED <<bibliography, reading, staged, orderly, ranking, marked>>

(* Mutant: the list is replaced whole, its marks included.                   *)
ForgetsMarks(l) == {}

(* A list that does not read is replaced without its marks.                  *)
ReadOn(l) == IF l \in {None, Torn} THEN {} ELSE l.read

from_agent(p) ==
  /\ Begins(p, "listed")
  /\ record # Torn
  /\ \E entries \in SUBSET KeysOf(record) \ {{}} :
       Listed(p, [number  |-> commands + 1,
                  entries |-> entries,
                  read    |-> ReadOn(reading) \cap entries])

(* The reader marks an entry, or takes the mark back, in the list as it is   *)
(* on disk by then.                                                          *)
mark(p) ==
  /\ Begins(p, "listed")
  /\ reading \notin {None, Torn}
  /\ \E k \in reading.entries :
       Listed(p, [reading EXCEPT !.read = IF k \in @ THEN @ \ {k} ELSE @ \cup {k}])

(* Mutant: one name for whoever writes.                                      *)
SharedName(p) == CHOOSE q \in Procs : TRUE

(* save: beside it, under a name of the process's own, and then renamed.     *)
StagedAt(p) == p

Stage(p) == /\ Goes(p, "listed", "staging")
            /\ staged' = [staged EXCEPT ![StagedAt(p)] = Torn]
            /\ UNCHANGED <<bibliography, reading, made, late, orderly, ranking, marked>>

Staged(p) == /\ Goes(p, "staging", "staged")
             /\ staged' = [staged EXCEPT ![StagedAt(p)] = made[p]]
             /\ UNCHANGED <<bibliography, reading, made, late, orderly, ranking, marked>>

replace(p) ==
  /\ Goes(p, "staged", "idle")
  /\ staged[StagedAt(p)] # None
  /\ reading' = staged[StagedAt(p)]
  /\ staged' = [staged EXCEPT ![StagedAt(p)] = None]
  /\ made' = [made EXCEPT ![p] = None]
  /\ late' = [q \in Procs |-> q # p /\ at[q] # "idle"]
  /\ orderly' = (orderly /\ ~late[p])
  /\ ranking' = IF made[p].number > ranking THEN made[p].number ELSE ranking
  /\ LET old == IF reading = None THEN {} ELSE reading.read IN
       marked' = IF made[p].number > ranking
                   THEN marked \cap made[p].entries
                   ELSE (marked \cup (made[p].read \ old)) \ (old \ made[p].read)
  /\ UNCHANGED bibliography

-----------------------------------------------------------------------------
(* A command ends: it had nothing to do, was refused, failed or was killed.  *)
End(p) == /\ at[p] # "idle"
          /\ at' = [at EXCEPT ![p] = "idle"]
          /\ mem' = [mem EXCEPT ![p] = None]
          /\ made' = [made EXCEPT ![p] = None]
          /\ stale' = [stale EXCEPT ![p] = FALSE]
          /\ late' = [late EXCEPT ![p] = FALSE]
          /\ clean' = (clean /\ at[p] # "record")
          /\ staged' \in {staged, [staged EXCEPT ![StagedAt(p)] = None]}
          /\ UNCHANGED <<record, bib, reading, commands, orderly, told, withdrawn, ranking,
                         marked>>

Next == \/ \E p \in Procs :
             \/ load(p) \/ bib_build(p)
             \/ \E d \in Docs : add(p, d)
             \/ EmptyRecord(p) \/ WriteRecord(p) \/ EmptyBib(p) \/ WriteBib(p)
             \/ from_agent(p) \/ mark(p)
             \/ Stage(p) \/ Staged(p) \/ replace(p)
             \/ End(p)
        \/ Edit
        \/ Mend

Spec == Init /\ [][Next]_vars

-----------------------------------------------------------------------------
(* Whoever reads the reading list, at whatever moment and whoever else is    *)
(* writing or has died, finds a whole one (reading.py:155-167).              *)
NoHalfWrittenList == reading # Torn

(* It is the list an agent saved last, with the marks the reader left on it, *)
(* unless two saves of it overlapped: no mark undoes a ranking that was      *)
(* there, and no ranking a mark (reading.py:12-15, 284-299).                 *)
RankingsAndMarksStand ==
  orderly => IF reading \in {None, Torn}
               THEN ranking = 0
               ELSE reading.number = ranking /\ reading.read = marked

(* Two sources never share a key, whoever lost whose citation, as long as    *)
(* the person gives none a key that another has; and a key that was reported *)
(* for a document stays its until the person changes it, unless two saves    *)
(* overlapped or one was cut short (bib.py:167-177).                         *)
KeysStand ==
  record # Torn =>
    /\ \A d, e \in Cited(record) : record[d].key = record[e].key => d = e
    /\ clean => \A c \in told : c[1] \in Cited(record) /\ record[c[1]].key = c[2]

(* With the same exceptions, every entry of the .bib is one of the record's, *)
(* or was until the person took it out: a save that is cut short leaves the  *)
(* .bib behind and never ahead (bib.py:251-256).                             *)
TheRecordExplainsTheBib ==
  clean /\ record # Torn /\ bib # Torn =>
    \A d \in Cited(bib) \ withdrawn :
      d \in Cited(record) /\ record[d].key = bib[d].key
=============================================================================
