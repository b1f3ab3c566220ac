------------------------------ MODULE Answers -------------------------------
(***************************************************************************)
(* What is bought from the model, and the bank that keeps it: the requests *)
(* of an ingest pass (ingest.py, phases 2 to 4b) and the table             *)
(* model_answers (db.py). The text read off a scan's pages and a           *)
(* document's labels are bought one after the other and banked one after   *)
(* the other, each for all documents of the pass; the pass can fail or die *)
(* at any point, answers run out, and somebody can empty the bank.         *)
(*                                                                         *)
(* A document is what its bytes hash to. Which file holds it, and what     *)
(* becomes of that file, is Filing's.                                      *)
(***************************************************************************)
EXTENDS Integers

CONSTANTS Docs,       \* the documents in the input folder
          Scans,      \* those without a text layer
          MaxAge,     \* how old an answer may be (label_cache_max_age_ms)
          MaxTime,    \* the clock stops here
          Never       \* not a time

ASSUME AnswersAssumption == /\ Scans \subseteq Docs
                            /\ MaxAge \in Nat \ {0}
                            /\ MaxTime \in Nat
                            /\ Never \notin Nat

Halves == {"pages", "labels"}

VARIABLES now,
          bank,       \* the table: a row for each document, its halves and when
                      \*   it was created; no halves, no row
          held,       \* documents the library has a record of
          at,         \* how far the pass has come
          asof,       \* when the pass read the bank
          labels,     \* documents whose labels it found there
          ready,      \* documents it has the text of
          asking,     \* documents it is asking the model about
          got,        \* documents the model has answered for, not banked yet
          since,      \* ghost: when the row was begun that each half went into
          latest      \* ghost: when each half was last banked

vars == <<now, bank, held, at, asof, labels, ready, asking, got, since, latest>>

memory == <<asof, labels, ready>>

ghosts == <<since, latest>>

Times == 0 .. MaxTime

NoRow == [halves |-> {}, created |-> 0]

TypeOK == /\ now \in Times
          /\ bank \in [Docs -> [halves : SUBSET Halves, created : Times]]
          /\ \A d \in Docs : bank[d].halves = {} => bank[d] = NoRow
          /\ held \subseteq Docs
          /\ at \in {"idle", "reading", "bank pages", "labelling", "bank labels",
                     "filing"}
          /\ asof \in Times
          /\ labels \subseteq Docs /\ ready \subseteq Docs
          /\ asking \subseteq Docs /\ got \subseteq Docs
          /\ since \in [Docs -> [Halves -> Times \cup {Never}]]
          /\ latest \in [Docs -> [Halves -> Times \cup {Never}]]

Nothing == [d \in Docs |-> [h \in Halves |-> Never]]

Init == /\ now = 0
        /\ bank = [d \in Docs |-> NoRow]
        /\ held = {}
        /\ at = "idle" /\ asof = 0
        /\ labels = {} /\ ready = {} /\ asking = {} /\ got = {}
        /\ since = Nothing /\ latest = Nothing

-----------------------------------------------------------------------------
(* Mutant: an answer does not run out.                                       *)
AnyAge(d, h) == h \in bank[d].halves

(* The bank. What it has of a document that is not too old;                  *)
model_answers(d, h) == h \in bank[d].halves /\ bank[d].created >= now - MaxAge

(* Mutant: an answer takes the place of the row.                             *)
Replaced(answers, h) ==
  [d \in Docs |->
     IF d \notin answers THEN bank[d]
     ELSE [halves  |-> {h},
           created |-> IF bank[d] = NoRow THEN now ELSE bank[d].created]]

(* and what it is to have: each answer merged into the row there is, which   *)
(* stays as old as it was, and then every row that is too old deleted.       *)
Merged(answers, h) ==
  [d \in Docs |->
     IF d \notin answers THEN bank[d]
     ELSE [halves  |-> bank[d].halves \cup {h},
           created |-> IF bank[d] = NoRow THEN now ELSE bank[d].created]]

(* Mutant: a row that is too old is emptied and left.                        *)
Emptied(rows) ==
  [d \in Docs |-> IF rows[d].created < now - MaxAge
                    THEN [rows[d] EXCEPT !.halves = {}] ELSE rows[d]]

Pruned(rows) ==
  [d \in Docs |-> IF rows[d].created < now - MaxAge THEN NoRow ELSE rows[d]]

remember_model_answers(answers, h) ==
  IF answers = {}
    THEN UNCHANGED <<bank, ghosts>>
    ELSE /\ bank' = Pruned(Merged(answers, h))
         /\ since' = [d \in Docs |->
                        IF d \in answers
                          THEN [since[d] EXCEPT ![h] = IF bank[d] = NoRow THEN now
                                                       ELSE bank[d].created]
                          ELSE since[d]]
         /\ latest' = [d \in Docs |-> IF d \in answers
                                        THEN [latest[d] EXCEPT ![h] = now]
                                        ELSE latest[d]]

-----------------------------------------------------------------------------
(* Phases 2 and 3: what is held and what is banked is read in one visit;     *)
(* the rest is read from the files, and scans never read before are asked    *)
(* about.                                                                    *)
_extract_new ==
  /\ at = "idle" /\ Docs \ held # {}
  /\ at' = "reading"
  /\ asof' = now
  /\ labels' = {d \in Docs : model_answers(d, "labels")}
  /\ asking' = {d \in Scans \ held : ~model_answers(d, "pages")}
  /\ ready' = (Docs \ held) \ asking'
  /\ UNCHANGED <<now, bank, held, got, ghosts>>

(* The answers are awaited together; some requests fail.                     *)
_read_scanned == /\ at = "reading"
                 /\ at' = "bank pages"
                 /\ got' \in SUBSET asking
                 /\ asking' = {}
                 /\ UNCHANGED <<now, bank, held, memory, ghosts>>

(* Page text is banked on its own, before it is labelled.                    *)
BankPages == /\ at = "bank pages"
             /\ at' = "labelling"
             /\ remember_model_answers(got, "pages")
             /\ ready' = ready \cup got
             /\ asking' = ready' \ labels
             /\ got' = {}
             /\ UNCHANGED <<now, held, asof, labels>>

(* Phase 4: a batch that fails does not take the others with it.             *)
extract_keywords == /\ at = "labelling"
                    /\ at' = "bank labels"
                    /\ got' \in SUBSET asking
                    /\ asking' = {}
                    /\ UNCHANGED <<now, bank, held, memory, ghosts>>

(* Phase 4b: before a single file is touched.                                *)
BankLabels == /\ at = "bank labels"
              /\ at' = "filing"
              /\ remember_model_answers(got, "labels")
              /\ labels' = labels \cup got
              /\ got' = {}
              /\ UNCHANGED <<now, held, asof, ready, asking>>

(* A preview ends here; else what is labelled is placed, unless that fails,  *)
(* and recorded.                                                             *)
record == /\ at = "filing"
          /\ at' = "idle"
          /\ \E placed \in SUBSET (ready \cap labels) : held' = held \cup placed
          /\ asof' = 0 /\ labels' = {} /\ ready' = {}
          /\ UNCHANGED <<now, bank, asking, got, ghosts>>

(* The pass raises, or its process dies.                                     *)
Crash == /\ at # "idle"
         /\ at' = "idle"
         /\ asof' = 0 /\ labels' = {} /\ ready' = {} /\ asking' = {} /\ got' = {}
         /\ UNCHANGED <<now, bank, held, ghosts>>

(* A document is removed from the library while its file still lies in the   *)
(* input folder; its answers are not.                                        *)
remove(d) == /\ d \in held
             /\ held' = held \ {d}
             /\ UNCHANGED <<now, bank, at, memory, asking, got, ghosts>>

(* Somebody empties the bank.                                                *)
forget_model_answers == /\ bank' = [d \in Docs |-> NoRow]
                        /\ since' = Nothing /\ latest' = Nothing
                        /\ UNCHANGED <<now, held, at, memory, asking, got>>

Tick == /\ now < MaxTime
        /\ now' = now + 1
        /\ UNCHANGED <<bank, held, at, memory, asking, got, ghosts>>

Next == \/ _extract_new \/ _read_scanned \/ BankPages
        \/ extract_keywords \/ BankLabels \/ record \/ Crash
        \/ \E d \in Docs : remove(d)
        \/ forget_model_answers \/ Tick

Spec == Init /\ [][Next]_vars

-----------------------------------------------------------------------------
(* The half of an answer that is being asked for.                            *)
Wanted == IF at = "reading" THEN "pages" ELSE "labels"

Banked(d) == latest[d][Wanted] # Never /\ latest[d][Wanted] <= asof

(* What was banked is asked for again only when the row it went into is too  *)
(* old, however passes fail and whatever is banked, merged and deleted in    *)
(* between (ingest.py:133-136; db.py:636-641).                               *)
AnswersLastAsTheirRows ==
  \A d \in asking : Banked(d) => since[d][Wanted] < asof - MaxAge

(* Not so: that what was banked is asked for again only when it is too old   *)
(* itself, so that a pass that fails is run again "without paying for any of *)
(* it a second time" (ingest.py:195-197). An answer that is merged into a    *)
(* row has the age of the row: it runs out with it, and one that was bought  *)
(* because the row is too old is deleted by the write that brings it.        *)
NothingIsBoughtTwice ==
  \A d \in asking : Banked(d) => latest[d][Wanted] < asof - MaxAge

(* No document is labelled from an answer that was too old when the pass     *)
(* looked: labels are a decision made against the library as it was then     *)
(* (db.py:602-605).                                                          *)
NoOldLabelIsUsed ==
  at \in {"reading", "bank pages", "labelling", "bank labels"} =>
    \A d \in labels : \/ latest[d]["labels"] = Never
                      \/ latest[d]["labels"] >= asof - MaxAge
=============================================================================
