------------------------------ MODULE Service -------------------------------
(***************************************************************************)
(* Commands and the watcher: client.py, daemon.py's Server, the life of    *)
(* watch(), and the lock DuckDB keeps on the database.                     *)
(*                                                                         *)
(* A command asks the watcher of its library when one answers at the       *)
(* library's socket, and opens the database itself when none does. A       *)
(* command that only reads tries the file first. Looking whether a watcher *)
(* answers, dialling it, being served and being answered are four steps,   *)
(* and watchers start, stop and crash between any two of them.             *)
(*                                                                         *)
(* An op here is one that is served under `busy`; `index` and `search`     *)
(* have locks of their own (WatchLoop has them).                           *)
(***************************************************************************)
EXTENDS Integers, Sequences, SequencesExt

CONSTANTS Watchers,     \* processes running `sypy watch`, over one library
          Commands,     \* processes running one other command each
          Nobody,       \* none of them
          Pass          \* the watch loop's own turn at `busy`

ASSUME ServiceAssumption == /\ Watchers \cap Commands = {}
                            /\ {Nobody, Pass} \cap (Watchers \cup Commands) = {}
                            /\ Nobody # Pass

VARIABLES claim,        \* the watcher holding the claim on the library
          path,         \* the watcher that bound what is at the socket path
          watcher,      \* how far each watcher has come
          busy,         \* what waits for `busy` in each watcher; the head has it
          ran,          \* whether the head has done its work
          writer,       \* who has the database open to write
          readers,      \* who has it open to read
          command,      \* how far each command has come
          kind,         \* what each command does
          effects       \* ghost: how often each command's work was done

vars == <<claim, path, watcher, busy, ran, writer, readers, command, kind, effects>>

served == <<claim, path, watcher>>

locks == <<writer, readers>>

Ends == {"done", "failed", "refused", "lost", "killed"}

Ended(c) == command[c] \in Ends

TypeOK ==
  /\ claim \in Watchers \cup {Nobody}
  /\ path \in Watchers \cup {Nobody}
  /\ watcher \in [Watchers -> {"off", "claimed", "serving", "closing", "closed", "exiting"}]
  /\ busy \in [Watchers -> Seq(Commands \cup {Pass})]
  /\ \A w \in Watchers : IsInjective(busy[w])
  /\ ran \in [Watchers -> BOOLEAN]
  /\ writer \in Watchers \cup Commands \cup {Nobody}
  /\ readers \subseteq Commands
  /\ writer # Nobody => readers = {}
  /\ command \in [Commands -> Ends \cup {"idle", "opening", "probing", "dialling",
                                         "asked", "waiting", "inside", "asking",
                                         "sure", "steering", "thinking"}]
  /\ kind \in [Commands -> {"read", "write", "retag"}]
  /\ effects \in [Commands -> Nat]

Init == /\ claim = Nobody /\ path = Nobody
        /\ watcher = [w \in Watchers |-> "off"]
        /\ busy = [w \in Watchers |-> <<>>]
        /\ ran = [w \in Watchers |-> FALSE]
        /\ writer = Nobody /\ readers = {}
        /\ command = [c \in Commands |-> "idle"]
        /\ kind \in [Commands -> {"read", "write", "retag"}]
        /\ effects = [c \in Commands |-> 0]

-----------------------------------------------------------------------------
(* DuckDB: one process that writes, or any number that read.                 *)
Free(p) == writer \in {Nobody, p} /\ readers \subseteq {p}

Letgo(p) == /\ writer' = IF writer = p THEN Nobody ELSE writer
            /\ readers' = readers \ {p}

(* The work of a command: a retag that asks first only looks the document up. *)
Worked(c) == effects' = IF c \in Commands /\ kind[c] # "retag"
                          THEN [effects EXCEPT ![c] = @ + 1] ELSE effects

(* Then it is over, or the model is asked, and what is left is a write. The  *)
(* categories in use are read in the same visit by a command that has the    *)
(* database, and in one of its own by one that was served.                   *)
Told(c) == IF kind[c] = "retag" THEN "thinking" ELSE "done"

Answered(c) == IF kind[c] = "retag" THEN "steering" ELSE "done"

Then(c) == IF kind[c] = "retag" THEN "write" ELSE kind[c]

-----------------------------------------------------------------------------
(* The watcher starts: the claim, then the socket, over whatever is there.   *)
claim_folders(w) == /\ watcher[w] = "off" /\ claim = Nobody
                    /\ claim' = w
                    /\ watcher' = [watcher EXCEPT ![w] = "claimed"]
                    /\ UNCHANGED <<path, busy, ran, locks, command, kind, effects>>

start(w) == /\ watcher[w] = "claimed"
            /\ path' = w
            /\ watcher' = [watcher EXCEPT ![w] = "serving"]
            /\ UNCHANGED <<claim, busy, ran, locks, command, kind, effects>>

(* A pass of the loop queues for `busy` like any op.                         *)
PassDue(w) == /\ watcher[w] = "serving" /\ Pass \notin ToSet(busy[w])
              /\ busy' = [busy EXCEPT ![w] = Append(@, Pass)]
              /\ UNCHANGED <<served, ran, locks, command, kind, effects>>

Waits(w) == watcher[w] \in {"serving", "closing"} /\ busy[w] # <<>> /\ ~ran[w]

(* The head of the queue opens the database, unless it is open, and works.   *)
Serve(w) == /\ Waits(w) /\ Free(w)
            /\ writer' = w
            /\ ran' = [ran EXCEPT ![w] = TRUE]
            /\ Worked(Head(busy[w]))
            /\ UNCHANGED <<served, busy, readers, command, kind>>

(* The head leaves with what became of it, unless nobody waits for that.     *)
Leave(w, how) ==
  LET c == Head(busy[w]) IN
  /\ busy' = [busy EXCEPT ![w] = Tail(@)]
  /\ ran' = [ran EXCEPT ![w] = FALSE]
  /\ command' = IF c \in Commands /\ ~Ended(c)
                  THEN [command EXCEPT ![c] = how] ELSE command

Reply(w) == /\ watcher[w] \in {"serving", "closing"} /\ ran[w]
            /\ LET c == Head(busy[w]) IN
                 /\ Leave(w, IF c = Pass THEN "done" ELSE Answered(c))
                 /\ kind' = IF c = Pass THEN kind ELSE [kind EXCEPT ![c] = Then(c)]
            /\ UNCHANGED <<served, locks, effects>>

(* The database was held by others for as long as a connection waits.        *)
Fail(w) == /\ Waits(w) /\ ~Free(w)
           /\ Leave(w, "failed")
           /\ UNCHANGED <<served, locks, kind, effects>>

(* The loop, with nothing to do, lets go of the database.                    *)
release(w) == /\ watcher[w] = "serving" /\ writer = w
              /\ Letgo(w)
              /\ UNCHANGED <<served, busy, ran, command, kind, effects>>

(* Mutant: the claim is let go before the server has stopped.                *)
ReleasesFirst(w) ==
  /\ watcher[w] = "serving"
  /\ watcher' = [watcher EXCEPT ![w] = "closing"]
  /\ claim' = Nobody
  /\ busy' = [busy EXCEPT ![w] = RemoveFirst(@, Pass)]
  /\ ran' = [ran EXCEPT ![w] = @ /\ Head(busy[w]) # Pass]
  /\ UNCHANGED <<path, locks, command, kind, effects>>

(* The loop ends, in the middle of a pass or not, and the server stops       *)
(* listening. Ops go on being served while it waits for connections to end,  *)
(* which it does or does not, by the version of Python.                      *)
stop(w) == /\ watcher[w] = "serving"
           /\ watcher' = [watcher EXCEPT ![w] = "closing"]
           /\ busy' = [busy EXCEPT ![w] = RemoveFirst(@, Pass)]
           /\ ran' = [ran EXCEPT ![w] = @ /\ Head(busy[w]) # Pass]
           /\ UNCHANGED <<claim, path, locks, command, kind, effects>>

unlink(w) == /\ watcher[w] = "closing"
             /\ watcher' = [watcher EXCEPT ![w] = "closed"]
             /\ path' = Nobody
             /\ UNCHANGED <<claim, busy, ran, locks, command, kind, effects>>

release_claim(w) == /\ watcher[w] = "closed"
                    /\ watcher' = [watcher EXCEPT ![w] = "exiting"]
                    /\ claim' = Nobody
                    /\ UNCHANGED <<path, busy, ran, locks, command, kind, effects>>

(* Mutant: a command whose watcher goes away does the work itself.           *)
DoesItHere(w) ==
  /\ watcher' = [watcher EXCEPT ![w] = "off"]
  /\ Letgo(w)
  /\ busy' = [busy EXCEPT ![w] = <<>>]
  /\ ran' = [ran EXCEPT ![w] = FALSE]
  /\ command' = [c \in Commands |->
                   IF command[c] = "asked" /\ c \in ToSet(busy[w])
                     THEN "waiting" ELSE command[c]]
  /\ UNCHANGED <<path, kind, effects>>

(* The process ends: its connections and its database close with it.         *)
Gone(w) == /\ watcher' = [watcher EXCEPT ![w] = "off"]
           /\ Letgo(w)
           /\ busy' = [busy EXCEPT ![w] = <<>>]
           /\ ran' = [ran EXCEPT ![w] = FALSE]
           /\ command' = [c \in Commands |->
                            IF command[c] = "asked" /\ c \in ToSet(busy[w])
                              THEN "lost" ELSE command[c]]
           /\ UNCHANGED <<path, kind, effects>>

Exit(w) == watcher[w] = "exiting" /\ Gone(w) /\ UNCHANGED claim

(* Killed: what is at the path stays there.                                  *)
Crash(w) == /\ watcher[w] # "off"
            /\ Gone(w)
            /\ claim' = IF claim = w THEN Nobody ELSE claim

-----------------------------------------------------------------------------
(* A command. Going from one step to the next:                               *)
Goes(c, from, to) == /\ command[c] = from
                     /\ command' = [command EXCEPT ![c] = to]

(* A watcher answers when the path is one's that listens.                    *)
serving == \E w \in Watchers : path = w /\ watcher[w] = "serving"

Begin(c) == /\ Goes(c, "idle", IF kind[c] = "read" THEN "opening" ELSE "probing")
            /\ UNCHANGED <<served, busy, ran, locks, kind, effects>>

(* Mutant: a read does not notice that the file is locked.                   *)
ReadsAnyway(c) == /\ Goes(c, "opening", "inside")
                  /\ readers' = readers \cup {c}
                  /\ UNCHANGED <<served, busy, ran, writer, kind, effects>>

(* A read tries the file, and does not wait for it.                          *)
reading(c) ==
  /\ IF writer = Nobody
       THEN Goes(c, "opening", "inside") /\ readers' = readers \cup {c}
       ELSE Goes(c, "opening", "probing") /\ UNCHANGED readers
  /\ UNCHANGED <<served, busy, ran, writer, kind, effects>>

writing(c) == /\ Goes(c, "probing", IF serving THEN "dialling" ELSE "waiting")
              /\ UNCHANGED <<served, busy, ran, locks, kind, effects>>

(* A second connection carries the request.                                  *)
call(c) ==
  /\ IF serving
       THEN Goes(c, "dialling", "asked") /\ busy' = [busy EXCEPT ![path] = Append(@, c)]
       ELSE Goes(c, "dialling", "refused") /\ UNCHANGED busy
  /\ UNCHANGED <<served, ran, locks, kind, effects>>

(* Mutant: a connection waits for the database without a deadline.           *)
WaitsOn(c) == FALSE /\ UNCHANGED vars

(* The command's own connection, or the end of waiting for it.               *)
_connect(c) == /\ Free(c) /\ Goes(c, "waiting", "inside")
               /\ writer' = c
               /\ UNCHANGED <<served, busy, ran, readers, kind, effects>>

Timeout(c) == /\ \/ Goes(c, "waiting", "failed") /\ ~Free(c)
                 \/ Goes(c, "steering", "failed") /\ writer # Nobody
              /\ UNCHANGED <<served, busy, ran, locks, kind, effects>>

(* With the database open: the person may be asked which document is meant,  *)
(* or whether to go on, and then the work is done.                           *)
Ask(c) == /\ Goes(c, "inside", "asking")
          /\ UNCHANGED <<served, busy, ran, locks, kind, effects>>

Yes(c) == /\ Goes(c, "asking", "sure")
          /\ UNCHANGED <<served, busy, ran, locks, kind, effects>>

No(c) == /\ Goes(c, "asking", "failed") /\ Letgo(c)
         /\ UNCHANGED <<served, busy, ran, kind, effects>>

Work(c) == /\ Goes(c, "inside", Told(c)) \/ Goes(c, "sure", Told(c))
           /\ kind' = [kind EXCEPT ![c] = Then(c)]
           /\ Worked(c) /\ Letgo(c)
           /\ UNCHANGED <<served, busy, ran>>

(* existing_categories is none of the methods a watcher runs: the file is    *)
(* opened for it here, to read, and closed, if nobody has it to write.       *)
existing_categories(c) ==
  /\ writer = Nobody /\ Goes(c, "steering", "thinking")
  /\ UNCHANGED <<served, busy, ran, locks, kind, effects>>

(* The model and the person are asked, with the database let go. Then it is  *)
(* asked for again, by whichever way is there by now; or the model fails, or *)
(* the person does not want it.                                              *)
_retag_by_asking(c) == /\ \/ Goes(c, "thinking", "probing")
                          \/ Goes(c, "thinking", "failed")
                       /\ UNCHANGED <<served, busy, ran, locks, kind, effects>>

(* Somebody stops the command. What was asked of the watcher is served.      *)
Kill(c) == /\ command[c] # "idle" /\ ~Ended(c)
           /\ command' = [command EXCEPT ![c] = "killed"]
           /\ Letgo(c)
           /\ UNCHANGED <<served, busy, ran, kind, effects>>

Steps(c) == \/ reading(c) \/ writing(c) \/ call(c) \/ _connect(c) \/ Timeout(c)
            \/ Yes(c) \/ No(c) \/ Work(c) \/ existing_categories(c)
            \/ _retag_by_asking(c)

Next == \/ \E w \in Watchers :
             \/ claim_folders(w) \/ start(w)
             \/ PassDue(w) \/ Serve(w) \/ Reply(w) \/ Fail(w) \/ release(w)
             \/ stop(w) \/ unlink(w) \/ release_claim(w) \/ Exit(w)
             \/ Crash(w)
        \/ \E c \in Commands : Begin(c) \/ Ask(c) \/ Steps(c) \/ Kill(c)

(* A command goes on, a person who is asked answers, and a watcher serves    *)
(* what it was asked and, once stopping, stops. Nothing need ever start,     *)
(* and a watcher need not let the database go.                               *)
Fairness == /\ \A c \in Commands : WF_vars(Steps(c))
            /\ \A w \in Watchers :
                 /\ WF_vars(Serve(w) \/ Reply(w) \/ Fail(w))
                 /\ WF_vars(unlink(w) \/ release_claim(w) \/ Exit(w))

Spec == Init /\ [][Next]_vars /\ Fairness

-----------------------------------------------------------------------------
(* A watcher that serves is the only one, and the path leads to it: neither  *)
(* one that starts nor one that stops takes it away (daemon.py:326-346,      *)
(* watch.py:202-205).                                                        *)
ThePathLeadsToTheWatcher ==
  \A w \in Watchers : watcher[w] = "serving" => path = w /\ claim = w

(* What a command asks for is done once at most, and it is told the truth:   *)
(* done when it is, and nothing done when no watcher took it, the database   *)
(* was not to be had, or it was called off. A command whose watcher went     *)
(* away is told neither. This speaks of one method of the library, which     *)
(* has the database throughout; an ingest lets it go between its phases      *)
(* and, refused it then, leaves behind what it had placed (Filing).          *)
ToldTheTruth ==
  \A c \in Commands :
    /\ effects[c] <= 1
    /\ command[c] = "done" => effects[c] = 1
    /\ command[c] \in {"failed", "refused"} => effects[c] = 0

(* Every command that begins comes to an end, whoever holds the database and *)
(* whatever becomes of the watcher it asked (client.py:29-32, db.py:404-424).*)
EveryCommandEnds == \A c \in Commands : command[c] # "idle" ~> Ended(c)
=============================================================================
