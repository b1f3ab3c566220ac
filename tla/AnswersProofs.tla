----------------------------- MODULE AnswersProofs ----------------------------
(***************************************************************************)
(* What Answers promises of the bank, proved for every set of documents    *)
(* and every age an answer may have.                                       *)
(***************************************************************************)
EXTENDS Answers, TLAPS

-----------------------------------------------------------------------------
LEMMA TheHalves == "pages" \in Halves /\ "labels" \in Halves
BY DEF Halves

LEMMA TimesAre == /\ Times \subseteq Nat /\ 0 \in Times
                  /\ \A t \in Times : t < MaxTime => t + 1 \in Times
                  /\ MaxAge \in Nat /\ Never \notin Times
BY AnswersAssumption DEF Times

LEMMA NoRowType == NoRow \in [halves : SUBSET Halves, created : Times]
BY TimesAre DEF NoRow

(* The rows of the table, and those that are there but empty.                *)
Row == [halves : SUBSET Halves, created : Times]

Rows(b) == b \in [Docs -> Row] /\ \A d \in Docs : b[d].halves = {} => b[d] = NoRow

Moments(s, l) == /\ s \in [Docs -> [Halves -> Times \cup {Never}]]
                 /\ l \in [Docs -> [Halves -> Times \cup {Never}]]

Parts == /\ now \in Times /\ Rows(bank) /\ held \subseteq Docs
         /\ at \in {"idle", "reading", "bank pages", "labelling", "bank labels",
                    "filing"}
         /\ asof \in Times
         /\ labels \subseteq Docs /\ ready \subseteq Docs
         /\ asking \subseteq Docs /\ got \subseteq Docs
         /\ Moments(since, latest)

LEMMA TypeParts == (TypeOK <=> Parts) /\ (TypeOK' <=> Parts')
BY DEF TypeOK, Parts, Rows, Row, Moments

LEMMA MergedRows ==
  ASSUME NEW answers, NEW h \in Halves, Rows(bank), now \in Times
  PROVE  Rows(Merged(answers, h))
<1> DEFINE M == Merged(answers, h)
<1>1. M = [d \in Docs |-> M[d]]
  BY DEF Merged
<1>2. ASSUME NEW d \in Docs PROVE M[d] \in Row /\ (M[d].halves = {} => M[d] = NoRow)
  <2>1. CASE d \in answers
    <3>1. M[d] = [halves  |-> bank[d].halves \cup {h},
                  created |-> IF bank[d] = NoRow THEN now ELSE bank[d].created]
      BY <2>1 DEF Merged
    <3>2. bank[d].halves \cup {h} \in SUBSET Halves /\ bank[d].created \in Times
      BY DEF Rows, Row
    <3> HIDE DEF M
    <3> QED BY <3>1, <3>2 DEF Row
  <2>2. CASE d \notin answers
    <3>1. M[d] = bank[d]
      BY <2>2 DEF Merged
    <3> HIDE DEF M
    <3> QED BY <3>1 DEF Rows
  <2> QED BY <2>1, <2>2
<1> HIDE DEF M
<1> QED BY <1>1, <1>2 DEF Rows, M

LEMMA PrunedRows ==
  ASSUME NEW b, Rows(b) PROVE Rows(Pruned(b))
<1>1. NoRow \in Row
  BY NoRowType DEF Row
<1> QED BY <1>1 DEF Rows, Pruned

LEMMA RememberTypes ==
  ASSUME Rows(bank), Moments(since, latest), now \in Times,
         NEW answers \in SUBSET Docs, NEW h \in Halves,
         remember_model_answers(answers, h)
  PROVE  Rows(bank)' /\ Moments(since, latest)'
<1>1. CASE answers = {}
  BY <1>1 DEF remember_model_answers, ghosts, Rows, Moments
<1>2. CASE answers # {}
  <2>1. bank' = Pruned(Merged(answers, h))
    BY <1>2 DEF remember_model_answers
  <2>2. since' \in [Docs -> [Halves -> Times \cup {Never}]]
    <3> DEFINE begun(d) == IF bank[d] = NoRow THEN now ELSE bank[d].created
    <3>1. since' = [d \in Docs |-> IF d \in answers
                                     THEN [since[d] EXCEPT ![h] = begun(d)]
                                     ELSE since[d]]
      BY <1>2 DEF remember_model_answers
    <3>2. \A d \in Docs : begun(d) \in Times
      BY DEF Rows, Row
    <3> HIDE DEF begun
    <3>3. \A d \in Docs : [since[d] EXCEPT ![h] = begun(d)]
                              \in [Halves -> Times \cup {Never}]
      BY <3>2 DEF Moments
    <3> QED BY <3>1, <3>3 DEF Moments
  <2>3. latest' = [d \in Docs |-> IF d \in answers THEN [latest[d] EXCEPT ![h] = now]
                                                 ELSE latest[d]]
    BY <1>2 DEF remember_model_answers
  <2>4. \A d \in Docs : [latest[d] EXCEPT ![h] = now] \in [Halves -> Times \cup {Never}]
    BY DEF Moments
  <2>5. latest' \in [Docs -> [Halves -> Times \cup {Never}]]
    BY <2>3, <2>4 DEF Moments
  <2>6. Rows(bank')
    BY <2>1, MergedRows, PrunedRows
  <2> QED BY <2>2, <2>5, <2>6 DEF Rows, Moments
<1> QED BY <1>1, <1>2

(* Every variable stays in its type (the whole module).                      *)
THEOREM TypesHold == Spec => []TypeOK
<1>1. Init => TypeOK
  BY TimesAre, NoRowType DEF Init, TypeOK, Nothing
<1>2. TypeOK /\ [Next]_vars => TypeOK'
  <2> SUFFICES ASSUME TypeOK, [Next]_vars PROVE TypeOK'
    OBVIOUS
  <2> USE TimesAre, TypeParts DEF Parts
  <2>1. CASE UNCHANGED <<bank, since, latest>>
    <3> USE <2>1
    <3>1. Rows(bank)' /\ Moments(since, latest)'
      BY DEF Rows, Moments
    <3>2. CASE _extract_new
      BY <3>1, <3>2, AnswersAssumption DEF _extract_new
    <3>3. CASE _read_scanned
      BY <3>1, <3>3 DEF _read_scanned, memory
    <3>4. CASE extract_keywords
      BY <3>1, <3>4 DEF extract_keywords, memory
    <3>5. CASE record
      BY <3>1, <3>5 DEF record
    <3>6. CASE Crash
      BY <3>1, <3>6 DEF Crash
    <3>7. ASSUME NEW d \in Docs, remove(d) PROVE TypeOK'
      BY <3>1, <3>7 DEF remove, memory
    <3>8. CASE Tick
      BY <3>1, <3>8 DEF Tick, memory
    <3>9. CASE BankPages
      BY <3>1, <3>9 DEF BankPages
    <3>10. CASE BankLabels
      BY <3>1, <3>10 DEF BankLabels
    <3>11. CASE forget_model_answers
      BY <3>1, <3>11 DEF forget_model_answers, memory
    <3>12. CASE UNCHANGED vars
      BY <3>1, <3>12 DEF vars
    <3> QED BY <3>2, <3>3, <3>4, <3>5, <3>6, <3>7, <3>8, <3>9, <3>10, <3>11, <3>12
            DEF Next
  <2>2. CASE BankPages
    <3>1. Rows(bank)' /\ Moments(since, latest)'
      BY <2>2, RememberTypes, TheHalves DEF BankPages
    <3> QED BY <2>2, <3>1 DEF BankPages
  <2>3. CASE BankLabels
    <3>1. Rows(bank)' /\ Moments(since, latest)'
      BY <2>3, RememberTypes, TheHalves DEF BankLabels
    <3> QED BY <2>3, <3>1 DEF BankLabels
  <2>4. CASE forget_model_answers
    <3>1. Rows(bank)'
      BY <2>4, NoRowType DEF forget_model_answers, Rows, Row
    <3>2. Moments(since, latest)'
      BY <2>4 DEF forget_model_answers, Moments, Nothing
    <3> QED BY <2>4, <3>1, <3>2 DEF forget_model_answers, memory
  <2> QED BY <2>1, <2>2, <2>3, <2>4
          DEF Next, vars, _extract_new, _read_scanned, extract_keywords, record, Crash,
              remove, Tick, ghosts
<1> QED BY <1>1, <1>2, PTL DEF Spec

-----------------------------------------------------------------------------
(* How old a row can be. It is as old as the row its halves went into, which *)
(* is it, and no younger than the latest of either; and a half that was      *)
(* banked and is not there went with a row that was too old.                 *)
RowAges ==
  \A d \in Docs, h \in Halves :
    /\ bank[d].created <= now
    /\ h \in bank[d].halves =>
         /\ since[d][h] = bank[d].created
         /\ latest[d][h] # Never /\ bank[d].created <= latest[d][h]
    /\ latest[d][h] # Never /\ h \notin bank[d].halves
         => since[d][h] # Never /\ since[d][h] < now - MaxAge

(* What the pass took from the bank, and what it did not find there.         *)
Missed(d, h) ==
  latest[d][h] # Never /\ latest[d][h] <= asof => since[d][h] < asof - MaxAge

Quiet == at \notin {"reading", "labelling"} => asking = {}

PagesMissed == at = "reading" => \A d \in asking : Missed(d, "pages")

LabelsMissed ==
  at \in {"reading", "bank pages", "labelling"} => \A d \in Docs \ labels : Missed(d, "labels")

PassKnows == /\ Quiet /\ asof <= now /\ PagesMissed /\ LabelsMissed
             /\ at = "labelling" => asking \cap labels = {}
             /\ NoOldLabelIsUsed

(* The times kept are numbers, or Never.                                     *)
LEMMA Numbers ==
  ASSUME Parts
  PROVE  /\ now \in Nat /\ asof \in Nat /\ MaxAge \in Nat
         /\ \A d \in Docs : bank[d].created \in Nat
         /\ \A d \in Docs, h \in Halves :
              /\ since[d][h] # Never => since[d][h] \in Nat
              /\ latest[d][h] # Never => latest[d][h] \in Nat
<1>1. /\ now \in Nat /\ asof \in Nat /\ MaxAge \in Nat
      /\ \A d \in Docs : bank[d].created \in Nat
  BY TimesAre DEF Parts, Rows, Row
<1>2. \A d \in Docs, h \in Halves : since[d][h] # Never => since[d][h] \in Nat
  BY TimesAre DEF Parts, Moments
<1>3. \A d \in Docs, h \in Halves : latest[d][h] # Never => latest[d][h] \in Nat
  BY TimesAre DEF Parts, Moments
<1> QED BY <1>1, <1>2, <1>3

LEMMA NeverIsNoNumber == Never \notin Nat
BY AnswersAssumption

(* What banking does to the two times kept of each document.                 *)
LEMMA RememberedAt ==
  ASSUME Moments(since, latest), NEW answers \in SUBSET Docs, NEW h \in Halves,
         remember_model_answers(answers, h)
  PROVE  \A d \in Docs, g \in Halves :
           /\ since'[d][g] = IF d \in answers /\ g = h
                               THEN IF bank[d] = NoRow THEN now ELSE bank[d].created
                               ELSE since[d][g]
           /\ latest'[d][g] = IF d \in answers /\ g = h THEN now ELSE latest[d][g]
<1>1. CASE answers = {}
  BY <1>1 DEF remember_model_answers, ghosts
<1>2. CASE answers # {}
  <2> DEFINE begun(d) == IF bank[d] = NoRow THEN now ELSE bank[d].created
  <2>1. /\ latest' = [d \in Docs |-> IF d \in answers
                                        THEN [latest[d] EXCEPT ![h] = now]
                                        ELSE latest[d]]
        /\ since' = [d \in Docs |-> IF d \in answers
                                       THEN [since[d] EXCEPT ![h] = begun(d)]
                                       ELSE since[d]]
    BY <1>2 DEF remember_model_answers
  <2>2. \A d \in Docs : begun(d) = IF bank[d] = NoRow THEN now ELSE bank[d].created
    OBVIOUS
  <2> HIDE DEF begun
  <2>3. \A d \in Docs, g \in Halves :
          /\ [latest[d] EXCEPT ![h] = now][g] = IF g = h THEN now ELSE latest[d][g]
          /\ [since[d] EXCEPT ![h] = begun(d)][g] = IF g = h THEN begun(d)
                                                    ELSE since[d][g]
    BY DEF Moments
  <2>4. \A d \in Docs, g \in Halves :
           /\ since'[d][g] = IF d \in answers /\ g = h THEN begun(d) ELSE since[d][g]
           /\ latest'[d][g] = IF d \in answers /\ g = h THEN now ELSE latest[d][g]
    BY <2>1, <2>3
  <2> QED BY <2>2, <2>4
<1> QED BY <1>1, <1>2

LEMMA RememberAges ==
  ASSUME Parts, now' = now, RowAges,
         NEW answers \in SUBSET Docs, NEW h \in Halves,
         remember_model_answers(answers, h)
  PROVE  RowAges'
<1>0. Moments(since, latest) /\ Rows(bank)
  BY DEF Parts
<1>1. CASE answers = {}
  BY <1>1 DEF remember_model_answers, ghosts, RowAges
<1>2. CASE answers # {}
  <2> SUFFICES ASSUME NEW d \in Docs, NEW g \in Halves
               PROVE  /\ bank'[d].created <= now
                      /\ g \in bank'[d].halves =>
                           /\ since'[d][g] = bank'[d].created
                           /\ latest'[d][g] # Never /\ bank'[d].created <= latest'[d][g]
                      /\ latest'[d][g] # Never /\ g \notin bank'[d].halves
                           => since'[d][g] # Never /\ since'[d][g] < now - MaxAge
    BY DEF RowAges
  <2> DEFINE row == Merged(answers, h)[d]
  <2>1. bank'[d] = IF row.created < now - MaxAge THEN NoRow ELSE row
    BY <1>2 DEF remember_model_answers, Pruned
  <2>2. NoRow.halves = {} /\ NoRow.created = 0
    BY DEF NoRow
  <2>3. /\ now \in Nat /\ MaxAge \in Nat /\ bank[d].created \in Nat
        /\ since[d][g] # Never => since[d][g] \in Nat
        /\ latest[d][g] # Never => latest[d][g] \in Nat
    BY Numbers
  <2>4. /\ since'[d][g] = IF d \in answers /\ g = h
                            THEN IF bank[d] = NoRow THEN now ELSE bank[d].created
                            ELSE since[d][g]
        /\ latest'[d][g] = IF d \in answers /\ g = h THEN now ELSE latest[d][g]
    BY <1>0, RememberedAt
  <2>5. /\ row.halves = bank[d].halves \cup (IF d \in answers THEN {h} ELSE {})
        /\ row.created = IF d \in answers /\ bank[d] = NoRow THEN now ELSE bank[d].created
    BY DEF Merged
  <2>6. bank[d].halves = {} => bank[d] = NoRow
    BY <1>0 DEF Rows
  <2>7. /\ bank[d].created <= now
        /\ g \in bank[d].halves =>
             /\ since[d][g] = bank[d].created
             /\ latest[d][g] # Never /\ bank[d].created <= latest[d][g]
        /\ latest[d][g] # Never /\ g \notin bank[d].halves
             => since[d][g] # Never /\ since[d][g] < now - MaxAge
    BY DEF RowAges
  <2> HIDE DEF row
  <2>8. CASE d \in answers /\ g = h
    BY <2>1, <2>2, <2>3, <2>4, <2>5, <2>7, <2>8, NeverIsNoNumber
  <2>9. CASE ~(d \in answers /\ g = h)
    BY <2>1, <2>2, <2>3, <2>4, <2>5, <2>6, <2>7, <2>9, NeverIsNoNumber
  <2> QED BY <2>8, <2>9
<1> QED BY <1>1, <1>2

(* Rows age as they should in every step.                                    *)
LEMMA RowAgesInvariant == Spec => []RowAges
<1>1. Init => RowAges
  BY TimesAre DEF Init, RowAges, NoRow, Nothing
<1>2. ASSUME TypeOK, RowAges, [Next]_vars PROVE RowAges'
  <2> USE <1>2
  <2>0. Parts
    BY TypeParts
  <2>1. CASE UNCHANGED <<bank, since, latest, now>>
    BY <2>1 DEF RowAges
  <2>2. CASE BankPages
    BY <2>0, <2>2, RememberAges, TheHalves DEF Parts, BankPages
  <2>3. CASE BankLabels
    BY <2>0, <2>3, RememberAges, TheHalves DEF Parts, BankLabels
  <2>4. CASE forget_model_answers
    <3>1. \A d \in Docs : bank'[d] = NoRow
      BY <2>4 DEF forget_model_answers
    <3>2. \A d \in Docs, h \in Halves : latest'[d][h] = Never
      BY <2>4 DEF forget_model_answers, Nothing
    <3>3. NoRow.halves = {} /\ NoRow.created = 0
      BY DEF NoRow
    <3>4. now' = now /\ now \in Nat
      BY <2>0, <2>4, Numbers DEF forget_model_answers
    <3> QED BY <3>1, <3>2, <3>3, <3>4 DEF RowAges
  <2>5. CASE Tick
    <3>1. now' = now + 1 /\ UNCHANGED <<bank, since, latest>>
      BY <2>5 DEF Tick, ghosts
    <3> QED BY <2>0, <3>1, Numbers, NeverIsNoNumber DEF RowAges
  <2> QED BY <2>1, <2>2, <2>3, <2>4, <2>5
          DEF Next, vars, _extract_new, _read_scanned, extract_keywords, record, Crash,
              remove, ghosts
<1> QED BY <1>1, <1>2, TypesHold, PTL DEF Spec

(* Neither changes while the clock, the two times and what was read stay.    *)
LEMMA NothingRead ==
  ASSUME UNCHANGED <<asof, labels, since, latest>>
  PROVE  \A d \in Docs, h \in Halves : Missed(d, h)' <=> Missed(d, h)
BY DEF Missed

(* The pass knows what it took from the bank and what it missed there.       *)
LEMMA PassKnowsInvariant == Spec => []PassKnows
<1>1. Init => PassKnows
  BY TimesAre DEF Init, PassKnows, Quiet, PagesMissed, LabelsMissed, NoOldLabelIsUsed
<1>2. ASSUME TypeOK, RowAges, PassKnows, [Next]_vars PROVE PassKnows'
  <2> USE <1>2
  <2>1. Parts
    BY TypeParts
  <2>2. /\ now \in Nat /\ asof \in Nat /\ MaxAge \in Nat /\ Never \notin Nat
        /\ \A d \in Docs : /\ bank[d].created \in Nat
                           /\ latest[d]["pages"] # Never => latest[d]["pages"] \in Nat
                           /\ latest[d]["labels"] # Never => latest[d]["labels"] \in Nat
    BY <2>1, Numbers, NeverIsNoNumber, TheHalves
  <2>3. labels \subseteq Docs /\ asking \subseteq Docs
    BY <2>1 DEF Parts
  <2>4. CASE _extract_new
    <3>1. asof' = now /\ at' = "reading" /\ UNCHANGED <<now, bank, since, latest>>
      BY <2>4 DEF _extract_new, ghosts
    <3>2. \A d \in asking' : d \in Docs /\ ~model_answers(d, "pages")
      BY <2>4, AnswersAssumption DEF _extract_new
    <3>3. \A d \in Docs : d \in labels' <=> model_answers(d, "labels")
      BY <2>4 DEF _extract_new
    <3>4. labels' \subseteq Docs
      BY <2>4 DEF _extract_new
    <3>5. \A d \in asking' :
            latest[d]["pages"] # Never => since[d]["pages"] < now - MaxAge
      BY <2>2, <3>2, TheHalves DEF model_answers, RowAges
    <3>6. \A d \in Docs \ labels' :
            latest[d]["labels"] # Never => since[d]["labels"] < now - MaxAge
      BY <2>2, <3>3, TheHalves DEF model_answers, RowAges
    <3>7. \A d \in labels' : latest[d]["labels"] # Never /\ latest[d]["labels"] >= now - MaxAge
      BY <2>2, <3>3, <3>4, TheHalves DEF model_answers, RowAges
    <3>8. PagesMissed' /\ LabelsMissed'
      BY <3>1, <3>5, <3>6 DEF PagesMissed, LabelsMissed, Missed
    <3>9. NoOldLabelIsUsed'
      BY <3>1, <3>7 DEF NoOldLabelIsUsed
    <3> QED BY <2>2, <3>1, <3>8, <3>9 DEF PassKnows, Quiet
  <2>5. CASE BankPages
    <3> DEFINE half == "labels"
    <3>1. \A d \in Docs : /\ latest'[d][half] = latest[d][half]
                          /\ since'[d][half] = since[d][half]
      <4>1. \A d \in Docs, g \in Halves :
              /\ since'[d][g] = IF d \in got /\ g = "pages"
                                  THEN IF bank[d] = NoRow THEN now ELSE bank[d].created
                                  ELSE since[d][g]
              /\ latest'[d][g] = IF d \in got /\ g = "pages" THEN now ELSE latest[d][g]
        <5>1. Moments(since, latest) /\ got \in SUBSET Docs
          BY <2>1 DEF Parts
        <5>2. "pages" \in Halves /\ remember_model_answers(got, "pages")
          BY <2>5, TheHalves DEF BankPages
        <5> QED BY <5>1, <5>2, RememberedAt
      <4>2. half \in Halves /\ half # "pages"
        BY TheHalves
      <4> HIDE DEF half
      <4> QED BY <4>1, <4>2
    <3>3. /\ at = "bank pages" /\ at' = "labelling" /\ asking' = ready' \ labels
          /\ UNCHANGED <<now, asof, labels>>
      BY <2>5 DEF BankPages
    <3>4. \A d \in Docs \ labels : Missed(d, half)
      BY <3>3 DEF PassKnows, LabelsMissed
    <3>5. \A d \in labels : latest[d][half] = Never \/ latest[d][half] >= asof - MaxAge
      BY <3>3 DEF PassKnows, NoOldLabelIsUsed
    <3>6. /\ \A d \in Docs \ labels' : Missed(d, half)'
          /\ \A d \in labels' : latest'[d][half] = Never \/ latest'[d][half] >= asof' - MaxAge
      <4> HIDE DEF half
      <4> QED BY <2>3, <3>1, <3>3, <3>4, <3>5 DEF Missed
    <3>7. LabelsMissed' /\ NoOldLabelIsUsed'
      BY <3>6 DEF LabelsMissed, NoOldLabelIsUsed
    <3> QED BY <2>2, <3>3, <3>7 DEF PassKnows, Quiet, PagesMissed
  <2>6. CASE _read_scanned \/ extract_keywords \/ (\E d \in Docs : remove(d)) \/ UNCHANGED vars
    <3>1. UNCHANGED <<now, asof, labels, since, latest>>
      BY <2>6 DEF _read_scanned, extract_keywords, remove, memory, ghosts, vars
    <3>2. \/ at = "reading" /\ at' = "bank pages" /\ asking' = {}
          \/ at = "labelling" /\ at' = "bank labels" /\ asking' = {}
          \/ at' = at /\ asking' = asking
      BY <2>6 DEF _read_scanned, extract_keywords, remove, vars
    <3>3. \A d \in Docs, h \in Halves : Missed(d, h)' <=> Missed(d, h)
      BY <3>1, NothingRead
    <3>4. NoOldLabelIsUsed'
      BY <3>1, <3>2 DEF PassKnows, NoOldLabelIsUsed
    <3>5. PagesMissed' /\ LabelsMissed'
      BY <2>3, <3>1, <3>2, <3>3, TheHalves DEF PassKnows, PagesMissed, LabelsMissed
    <3> QED BY <3>1, <3>2, <3>4, <3>5 DEF PassKnows, Quiet
  <2>7. CASE BankLabels
    <3>1. /\ at = "bank labels" /\ at' = "filing" /\ UNCHANGED <<now, asof, asking>>
      BY <2>7 DEF BankLabels
    <3> QED BY <3>1 DEF PassKnows, Quiet, PagesMissed, LabelsMissed, NoOldLabelIsUsed
  <2>8. CASE record \/ Crash
    <3>1. at' = "idle" /\ asof' = 0 /\ now' = now
      BY <2>8 DEF record, Crash
    <3>2. asking' = {}
      BY <2>8 DEF record, Crash, PassKnows, Quiet
    <3>3. PagesMissed' /\ LabelsMissed' /\ NoOldLabelIsUsed'
      BY <3>1 DEF PagesMissed, LabelsMissed, NoOldLabelIsUsed
    <3> QED BY <2>2, <3>1, <3>2, <3>3 DEF PassKnows, Quiet
  <2>9. CASE forget_model_answers
    <3>1. \A d \in Docs : latest'[d]["pages"] = Never /\ latest'[d]["labels"] = Never
      BY <2>9, TheHalves DEF forget_model_answers, Nothing
    <3>2. UNCHANGED <<now, at, asof, labels, asking>>
      BY <2>9 DEF forget_model_answers, memory
    <3>3. PagesMissed' /\ LabelsMissed'
      BY <2>3, <3>1, <3>2 DEF PagesMissed, LabelsMissed, Missed
    <3>4. NoOldLabelIsUsed'
      BY <2>3, <3>1, <3>2 DEF NoOldLabelIsUsed
    <3> QED BY <3>2, <3>3, <3>4 DEF PassKnows, Quiet
  <2>10. CASE Tick
    <3>1. now' = now + 1 /\ UNCHANGED <<at, asof, labels, asking, since, latest>>
      BY <2>10 DEF Tick, memory, ghosts
    <3>2. \A d \in Docs, h \in Halves : Missed(d, h)' <=> Missed(d, h)
      BY <3>1, NothingRead
    <3>3. PagesMissed' /\ LabelsMissed'
      BY <2>3, <3>1, <3>2, TheHalves DEF PassKnows, PagesMissed, LabelsMissed
    <3>4. NoOldLabelIsUsed'
      BY <3>1 DEF PassKnows, NoOldLabelIsUsed
    <3> QED BY <2>2, <3>1, <3>3, <3>4 DEF PassKnows, Quiet
  <2> QED BY <2>4, <2>5, <2>6, <2>7, <2>8, <2>9, <2>10 DEF Next
<1> QED BY <1>1, <1>2, TypesHold, RowAgesInvariant, PTL DEF Spec

(* What was paid for is not paid for again while the row it went into is not *)
(* too old (ingest.py:133-136; db.py:636-641).                               *)
THEOREM AnswersLast == Spec => []AnswersLastAsTheirRows
<1>1. TypeOK /\ PassKnows => AnswersLastAsTheirRows
  <2> SUFFICES ASSUME TypeOK, PassKnows PROVE AnswersLastAsTheirRows
    OBVIOUS
  <2>1. asking \subseteq Docs
    BY DEF TypeOK
  <2>2. CASE at = "reading"
    BY <2>2 DEF PassKnows, PagesMissed, Missed, AnswersLastAsTheirRows, Banked, Wanted
  <2>3. CASE at = "labelling"
    <3>1. \A d \in asking : Missed(d, "labels")
      BY <2>1, <2>3 DEF PassKnows, LabelsMissed
    <3> QED BY <2>3, <3>1 DEF Missed, AnswersLastAsTheirRows, Banked, Wanted
  <2>4. CASE at \notin {"reading", "labelling"}
    BY <2>4 DEF PassKnows, Quiet, AnswersLastAsTheirRows
  <2> QED BY <2>2, <2>3, <2>4
<1> QED BY <1>1, TypesHold, PassKnowsInvariant, PTL

(* Nor is a document labelled as was right once (db.py:602-605).             *)
THEOREM OldLabelsAreNotUsed == Spec => []NoOldLabelIsUsed
<1>1. PassKnows => NoOldLabelIsUsed
  BY DEF PassKnows
<1> QED BY <1>1, PassKnowsInvariant, PTL
=============================================================================
