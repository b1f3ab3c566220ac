------------------------------- MODULE Ledger -------------------------------
(***************************************************************************)
(* The spend limit, budget.py, and the requests that pass through it       *)
(* (llm.py, and semantic.py's embedder, which has a ledger of its own).    *)
(* The ledger is one file for every process of the machine; what is spent  *)
(* is counted by the hour. A request is checked against the ceilings and   *)
(* counted before it is sent, and its tokens are counted when its answer   *)
(* comes. Checking reads the file as it is; counting takes the lock beside *)
(* it, reads the file, and puts a new one in its place.                    *)
(*                                                                         *)
(* A process has one thread: while it is in the ledger none of its other   *)
(* requests moves. Processes interleave at every step, and crash anywhere. *)
(***************************************************************************)
EXTENDS Integers, FiniteSets, FiniteSetsExt, Functions

CONSTANTS Procs,            \* the processes that spend: watcher and commands
          Nobody,           \* not a process
          MaxConcurrent,    \* requests a process has in flight at once
          RequestsPerDay,   \* the ceilings, 0 for none
          TokensPerDay,
          Costs,            \* tokens an answer can cost
          Hour,             \* length of a bucket
          Day,              \* length of the window
          MaxTime,          \* the clock stops here
          MaxResets         \* bound: how often the window is started over

ASSUME LedgerAssumption ==
  /\ IsFiniteSet(Procs) /\ Nobody \notin Procs
  /\ MaxConcurrent \in Nat /\ RequestsPerDay \in Nat /\ TokensPerDay \in Nat
  /\ Costs \subseteq Nat /\ \E most \in Costs : \A cost \in Costs : cost <= most
  /\ Hour \in Nat \ {0} /\ Day \in Nat /\ MaxTime \in Nat
  /\ MaxResets \in Nat

VARIABLES now,       \* the time
          ledger,    \* the file: what each hour has cost, 0 for an hour not in it
          lock,      \* who has flocked the lock file
          turn,      \* what each process is doing in the ledger
          calls,     \* how many requests each process has in flight
          owed,      \* ghost: what was counted since the last reset, by the hour
          resets     \* how often the window was started over

vars == <<now, ledger, lock, turn, calls, owed, resets>>

Spend == [requests : Nat, tokens : Nat]

Hours == 0 .. MaxTime \div Hour

Ledgers == [Hours -> Spend]

Empty == [h \in Hours |-> [requests |-> 0, tokens |-> 0]]

Plus(a, b) == [requests |-> a.requests + b.requests, tokens |-> a.tokens + b.tokens]

(* A turn in the ledger: nothing, about to count `spend`, or holding the lock *)
(* with the file read into `copy` and the hour to count under decided.       *)
Free == [at |-> "free"]

Counting(spend) == [at |-> "counting", spend |-> spend]

Turns == {Free} \cup [at : {"counting"}, spend : Spend]
                \cup [at : {"locked"}, spend : Spend, copy : Ledgers, hour : Hours]

TypeOK == /\ now \in 0 .. MaxTime
          /\ ledger \in Ledgers
          /\ lock \in Procs \cup {Nobody}
          /\ turn \in [Procs -> Turns]
          /\ calls \in [Procs -> Nat]
          /\ owed \in Ledgers
          /\ resets \in 0 .. MaxResets

Init == /\ now = 0
        /\ ledger = Empty
        /\ lock = Nobody
        /\ turn = [p \in Procs |-> Free]
        /\ calls = [p \in Procs |-> 0]
        /\ owed = Empty
        /\ resets = 0

-----------------------------------------------------------------------------
(* The window. A bucket is dropped once its end is a day ago.                *)
InWindow(h, time) == h * Hour + Hour > time - Day

_prune(buckets, time) ==
  [h \in Hours |-> IF InWindow(h, time) THEN buckets[h] ELSE Empty[h]]

(* Mutant: the ceiling may still be reached.                                 *)
Passed(ceiling, used) == 0 < ceiling /\ ceiling < used

usage(buckets, time) ==
  LET Kept == {h \in Hours : InWindow(h, time)} IN
  [requests |-> SumFunctionOnSet([h \in Hours |-> buckets[h].requests], Kept),
   tokens   |-> SumFunctionOnSet([h \in Hours |-> buckets[h].tokens], Kept)]

Reached(ceiling, used) == 0 < ceiling /\ ceiling <= used

-----------------------------------------------------------------------------
(* A request: refused when the file, read without the lock, has reached a    *)
(* ceiling (the process then does nothing), else about to be counted.        *)
_spend(p) ==
  /\ turn[p] = Free /\ calls[p] < MaxConcurrent
  /\ LET used == usage(ledger, now) IN
       /\ ~Reached(RequestsPerDay, used.requests)
       /\ ~Reached(TokensPerDay, used.tokens)
  /\ turn' = [turn EXCEPT ![p] = Counting([requests |-> 1, tokens |-> 0])]
  /\ UNCHANGED <<now, ledger, lock, calls, owed, resets>>

(* Mutant: the file is read before the lock is asked for.                    *)
ReadsUnlocked(p) ==
  /\ turn[p].at = "counting"
  /\ lock' = p
  /\ turn' = [turn EXCEPT ![p] = [at    |-> "locked",
                                  spend |-> turn[p].spend,
                                  copy  |-> _prune(ledger, now),
                                  hour  |-> now \div Hour]]
  /\ UNCHANGED <<now, ledger, calls, owed, resets>>

(* The lock is had, the clock read, the file read and its old hours dropped. *)
_exclusively(p) ==
  /\ turn[p].at = "counting" /\ lock = Nobody
  /\ lock' = p
  /\ turn' = [turn EXCEPT ![p] = [at    |-> "locked",
                                  spend |-> turn[p].spend,
                                  copy  |-> _prune(ledger, now),
                                  hour  |-> now \div Hour]]
  /\ UNCHANGED <<now, ledger, calls, owed, resets>>

(* Having counted it, a process sends its request.                           *)
Sent(p) == calls' = [calls EXCEPT ![p] = @ + turn[p].spend.requests]

(* The new file takes the old one's place, and the lock is let go.           *)
_update(p) ==
  /\ turn[p].at = "locked"
  /\ ledger' = [turn[p].copy EXCEPT ![turn[p].hour] = Plus(@, turn[p].spend)]
  /\ owed' = [owed EXCEPT ![turn[p].hour] = Plus(@, turn[p].spend)]
  /\ lock' = Nobody
  /\ turn' = [turn EXCEPT ![p] = Free]
  /\ Sent(p)
  /\ UNCHANGED <<now, resets>>

(* Or the lock file cannot be opened or the new file not be written: the     *)
(* request goes out all the same, uncounted.                                 *)
RecordFails(p) ==
  /\ turn[p].at \in {"counting", "locked"}
  /\ lock' = IF lock = p THEN Nobody ELSE lock
  /\ turn' = [turn EXCEPT ![p] = Free]
  /\ Sent(p)
  /\ UNCHANGED <<now, ledger, owed, resets>>

(* An answer comes; what it cost is counted before it is looked at.          *)
_record_tokens(p) ==
  /\ turn[p] = Free /\ calls[p] > 0
  /\ calls' = [calls EXCEPT ![p] = @ - 1]
  /\ \E cost \in Costs :
       turn' = [turn EXCEPT ![p] =
                  IF cost > 0 THEN Counting([requests |-> 0, tokens |-> cost])
                              ELSE Free]
  /\ UNCHANGED <<now, ledger, lock, owed, resets>>

(* Mutant: a request that was refused is given back like one that failed.    *)
GivesBackAnyway(p) ==
  /\ turn[p] = Free
  /\ calls' = [calls EXCEPT ![p] = @ - 1]
  /\ UNCHANGED <<now, ledger, lock, turn, owed, resets>>

(* Or none comes: an error, or a timeout, after the client's own retries.    *)
CallFails(p) ==
  /\ turn[p] = Free /\ calls[p] > 0
  /\ calls' = [calls EXCEPT ![p] = @ - 1]
  /\ UNCHANGED <<now, ledger, lock, turn, owed, resets>>

(* Somebody starts the window over. The lock is not asked for.               *)
reset ==
  /\ resets < MaxResets
  /\ resets' = resets + 1
  /\ ledger' = Empty
  /\ owed' = Empty
  /\ UNCHANGED <<now, lock, turn, calls>>

(* A process dies, and comes back when it likes.                             *)
Crash(p) ==
  /\ lock' = IF lock = p THEN Nobody ELSE lock
  /\ turn' = [turn EXCEPT ![p] = Free]
  /\ calls' = [calls EXCEPT ![p] = 0]
  /\ UNCHANGED <<now, ledger, owed, resets>>

Tick ==
  /\ now < MaxTime
  /\ now' = now + 1
  /\ UNCHANGED <<ledger, lock, turn, calls, owed, resets>>

Next == \/ \E p \in Procs : \/ _spend(p)
                            \/ _exclusively(p)
                            \/ _update(p)
                            \/ RecordFails(p)
                            \/ _record_tokens(p)
                            \/ CallFails(p)
                            \/ Crash(p)
        \/ reset
        \/ Tick

Spec == Init /\ [][Next]_vars

-----------------------------------------------------------------------------
(* No count is lost: not to another process counting at the same time, not   *)
(* to the window moving, not to a crash. What the file says of an hour of    *)
(* the last day is at least what was counted under it (budget.py:16-19).     *)
NothingIsUncounted ==
  \A h \in Hours : InWindow(h, now) =>
    /\ ledger[h].requests >= owed[h].requests
    /\ ledger[h].tokens >= owed[h].tokens

(* Spending stops at the ceilings, or shortly after. The processes check     *)
(* before any of them counts, so what was counted of the day's requests can  *)
(* pass its ceiling, by fewer than there are processes; and of the day's     *)
(* tokens, by less than what can be in flight, which still comes in.         *)
SpendingStopsAtTheCeilings ==
  /\ RequestsPerDay > 0 =>
       usage(owed, now).requests < RequestsPerDay + Cardinality(Procs)
  /\ TokensPerDay > 0 =>
       usage(owed, now).tokens
         < TokensPerDay + Cardinality(Procs) * MaxConcurrent * Max(Costs)
=============================================================================
