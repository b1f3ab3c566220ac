----------------------------- MODULE ServiceProofs ----------------------------
(***************************************************************************)
(* The socket path leads to the watcher that serves, and every command is  *)
(* done once at most and told the truth, proved for any number of watchers *)
(* and commands. That commands end stays with TLC.                         *)
(***************************************************************************)
EXTENDS Service, SequenceTheorems, TLAPS

-----------------------------------------------------------------------------
(* From claiming the library to letting it go a watcher holds the claim, so  *)
(* that of all that start, serve and stop there is one; the path is that     *)
(* one's alone to bind and to unlink.                                        *)
OneAtATime ==
  /\ DOMAIN watcher = Watchers /\ watcher = [w \in Watchers |-> watcher[w]]
  /\ \A w \in Watchers : watcher[w] \in {"claimed", "serving", "closing", "closed"} => claim = w
  /\ ThePathLeadsToTheWatcher

(* A step of one watcher that keeps its claim and the path, or gives both up *)
(* in order.                                                                 *)
LEMMA OneStep ==
  ASSUME OneAtATime, NEW w \in Watchers, NEW state,
         watcher' = [watcher EXCEPT ![w] = state],
         \/ /\ claim' = claim
            /\ state = "serving" => path' = w
            /\ path' # path => claim = w
            /\ state \in {"claimed", "serving", "closing", "closed"} => claim = w
         \/ claim = Nobody /\ claim' = w /\ path' = path /\ state = "claimed"
         \/ /\ claim = w /\ path' = path /\ state \in {"exiting", "off"}
  PROVE  OneAtATime'
<1>1. \A v \in Watchers : watcher'[v] = IF v = w THEN state ELSE watcher[v]
  BY DEF OneAtATime
<1>2. watcher' = [v \in Watchers |-> watcher'[v]] /\ DOMAIN watcher' = Watchers
  BY DEF OneAtATime
<1> QED BY <1>1, <1>2, ServiceAssumption DEF OneAtATime, ThePathLeadsToTheWatcher

(* The path leads to the watcher that serves, and to no other                *)
(* (daemon.py:326-368, watch.py:188-207).                                    *)
THEOREM ThePathIsTheWatchers == Spec => []ThePathLeadsToTheWatcher
<1>1. Init => OneAtATime
  BY DEF Init, OneAtATime, ThePathLeadsToTheWatcher
<1>2. ASSUME OneAtATime, [Next]_vars PROVE OneAtATime'
  <2> USE <1>2
  <2>1. CASE UNCHANGED served
    BY <2>1 DEF served, OneAtATime, ThePathLeadsToTheWatcher
  <2>2. ASSUME NEW w \in Watchers,
               \/ claim_folders(w) \/ start(w) \/ stop(w) \/ unlink(w)
               \/ release_claim(w) \/ Exit(w) \/ Crash(w)
        PROVE  OneAtATime'
    <3>1. CASE claim_folders(w)
      BY <3>1, OneStep DEF claim_folders
    <3>2. CASE start(w)
      <4>1. claim = w
        BY <3>2 DEF start, OneAtATime
      <4> QED BY <3>2, <4>1, OneStep DEF start
    <3>3. CASE stop(w)
      <4>1. claim = w
        BY <3>3 DEF stop, OneAtATime
      <4> QED BY <3>3, <4>1, OneStep DEF stop
    <3>4. CASE unlink(w)
      <4>1. claim = w
        BY <3>4 DEF unlink, OneAtATime
      <4> QED BY <3>4, <4>1, OneStep DEF unlink
    <3>5. CASE release_claim(w)
      <4>1. claim = w
        BY <3>5 DEF release_claim, OneAtATime
      <4> QED BY <3>5, <4>1, OneStep DEF release_claim
    <3>6. CASE Exit(w)
      BY <3>6, OneStep DEF Exit, Gone
    <3>7. CASE Crash(w)
      BY <3>7, OneStep DEF Crash, Gone
    <3> QED BY <2>2, <3>1, <3>2, <3>3, <3>4, <3>5, <3>6, <3>7
  <2>3. ASSUME NEW w \in Watchers,
               PassDue(w) \/ Serve(w) \/ Reply(w) \/ Fail(w) \/ release(w)
        PROVE  UNCHANGED served
    BY <2>3 DEF PassDue, Serve, Reply, Fail, release
  <2>4. ASSUME NEW c \in Commands, Begin(c) \/ Ask(c) \/ Steps(c) \/ Kill(c)
        PROVE  UNCHANGED served
    BY <2>4 DEF Begin, Ask, Kill, Steps, reading, writing, call, _connect, Timeout,
                Yes, No, Work, existing_categories, _retag_by_asking
  <2>5. CASE UNCHANGED vars
    BY <2>1, <2>5 DEF vars, served
  <2> QED BY <2>1, <2>2, <2>3, <2>4, <2>5 DEF Next
<1>3. OneAtATime => ThePathLeadsToTheWatcher
  BY DEF OneAtATime
<1> QED BY <1>1, <1>2, <1>3, PTL DEF Spec

-----------------------------------------------------------------------------
(* Queues for `busy`, in which nobody stands twice.                          *)

LEMMA Joining ==
  ASSUME NEW S, NEW q \in Seq(S), IsInjective(q), NEW x \in S, x \notin ToSet(q)
  PROVE  /\ Append(q, x) \in Seq(S) /\ IsInjective(Append(q, x))
         /\ ToSet(Append(q, x)) = ToSet(q) \cup {x}
         /\ Append(q, x) # <<>>
         /\ q # <<>> => Head(Append(q, x)) = Head(q)
<1>1. /\ Append(q, x) \in Seq(S) /\ Len(Append(q, x)) = Len(q) + 1
      /\ \A i \in 1 .. Len(q) : Append(q, x)[i] = q[i]
      /\ Append(q, x)[Len(q) + 1] = x
      /\ DOMAIN q = 1 .. Len(q) /\ DOMAIN Append(q, x) = 1 .. Len(q) + 1
      /\ Len(q) \in Nat
  OBVIOUS
<1>5. Append(q, x) # <<>>
  BY <1>1
<1>6. ASSUME q # <<>> PROVE Head(Append(q, x)) = Head(q)
  <2>1. Len(q) >= 1 /\ Head(q) = q[1]
    BY <1>6
  <2>2. Head(Append(q, x)) = Append(q, x)[1]
    BY <1>1, <1>5
  <2> QED BY <1>1, <2>1, <2>2
<1>2. \A i \in 1 .. Len(q) : q[i] # x
  BY DEF ToSet
<1>3. IsInjective(Append(q, x))
  BY <1>1, <1>2 DEF IsInjective
<1>4. ToSet(Append(q, x)) = ToSet(q) \cup {x}
  BY <1>1 DEF ToSet
<1> QED BY <1>1, <1>3, <1>4, <1>5, <1>6

LEMMA Leaving ==
  ASSUME NEW S, NEW q \in Seq(S), IsInjective(q), q # <<>>
  PROVE  /\ Tail(q) \in Seq(S) /\ IsInjective(Tail(q))
         /\ ToSet(Tail(q)) = ToSet(q) \ {Head(q)}
         /\ Head(q) \in ToSet(q) /\ Head(q) \in S
<1>1. /\ Tail(q) \in Seq(S) /\ Len(q) \in Nat /\ Len(q) >= 1 /\ Len(Tail(q)) = Len(q) - 1
      /\ \A i \in 1 .. Len(q) - 1 : Tail(q)[i] = q[i + 1]
      /\ Head(q) = q[1] /\ Head(q) \in S
      /\ DOMAIN q = 1 .. Len(q) /\ DOMAIN Tail(q) = 1 .. Len(q) - 1
  OBVIOUS
<1>2. IsInjective(Tail(q))
  BY <1>1 DEF IsInjective
<1>3. ASSUME NEW i \in 1 .. Len(q), i # 1
      PROVE  i - 1 \in 1 .. Len(q) - 1 /\ Tail(q)[i - 1] = q[i] /\ q[i] # q[1]
  BY <1>1, <1>3 DEF IsInjective
<1>4. ToSet(Tail(q)) = ToSet(q) \ {Head(q)}
  <2>1. ASSUME NEW x \in ToSet(Tail(q)) PROVE x \in ToSet(q) \ {Head(q)}
    <3>1. PICK i \in 1 .. Len(q) - 1 : x = q[i + 1]
      BY <1>1 DEF ToSet
    <3>2. i + 1 \in 1 .. Len(q) /\ i + 1 # 1
      BY <1>1
    <3> QED BY <1>1, <1>3, <3>1, <3>2 DEF ToSet
  <2>2. ASSUME NEW x \in ToSet(q) \ {Head(q)} PROVE x \in ToSet(Tail(q))
    <3>1. PICK i \in 1 .. Len(q) : x = q[i]
      BY <1>1 DEF ToSet
    <3>2. i # 1
      BY <1>1, <3>1
    <3> QED BY <1>1, <1>3, <3>1, <3>2 DEF ToSet
  <2> QED BY <2>1, <2>2
<1>5. Head(q) \in ToSet(q)
  BY <1>1 DEF ToSet
<1> QED BY <1>1, <1>2, <1>4, <1>5

LEMMA Dropping ==
  ASSUME NEW S, NEW q \in Seq(S), IsInjective(q), NEW x
  PROVE  /\ RemoveFirst(q, x) \in Seq(S) /\ IsInjective(RemoveFirst(q, x))
         /\ ToSet(RemoveFirst(q, x)) = ToSet(q) \ {x}
         /\ q # <<>> /\ Head(q) # x =>
              RemoveFirst(q, x) # <<>> /\ Head(RemoveFirst(q, x)) = Head(q)
<1>1. CASE \A i \in 1 .. Len(q) : q[i] # x
  <2>1. RemoveFirst(q, x) = q /\ x \notin ToSet(q)
    BY <1>1 DEF RemoveFirst, ToSet
  <2> QED BY <2>1
<1>2. ASSUME NEW k \in 1 .. Len(q), q[k] = x
      PROVE  /\ RemoveFirst(q, x) \in Seq(S) /\ IsInjective(RemoveFirst(q, x))
             /\ ToSet(RemoveFirst(q, x)) = ToSet(q) \ {x}
             /\ q # <<>> /\ Head(q) # x =>
                  RemoveFirst(q, x) # <<>> /\ Head(RemoveFirst(q, x)) = Head(q)
  <2> DEFINE r == RemoveFirst(q, x)
  <2>1. /\ Len(q) \in Nat /\ DOMAIN q = 1 .. Len(q)
        /\ \A i \in 1 .. Len(q) : q[i] = x <=> i = k
    BY <1>2 DEF IsInjective
  <2>2. {i \in 1 .. Len(q) : q[i] = x} = {k}
    BY <2>1
  <2>3. Min({k}) = k
    BY DEF Min
  <2>4. r = SubSeq(q, 1, k - 1) \o SubSeq(q, k + 1, Len(q))
    BY <1>2, <2>2, <2>3 DEF RemoveFirst, RemoveAt, SelectInSeq
  <2>5. /\ r \in Seq(S) /\ Len(r) = Len(q) - 1
        /\ \A i \in 1 .. Len(q) - 1 : r[i] = IF i < k THEN q[i] ELSE q[i + 1]
    <3> DEFINE a == SubSeq(q, 1, k - 1)
               b == SubSeq(q, k + 1, Len(q))
    <3>1. /\ a \in Seq(S) /\ Len(a) = k - 1
          /\ \A i \in 1 .. k - 1 : a[i] = q[i]
      <4>1. \A i \in 1 .. k - 1 : q[i] \in S
        BY <2>1
      <4>2. a \in Seq(S) /\ Len(a) = IF 1 <= k - 1 THEN (k - 1) - 1 + 1 ELSE 0
        BY <2>1, <4>1, SubSeqProperties
      <4>3. \A i \in 1 .. (k - 1) - 1 + 1 : a[i] = q[1 + i - 1]
        BY <2>1, <4>1, SubSeqProperties
      <4> HIDE DEF a
      <4> QED BY <2>1, <4>2, <4>3
    <3>2. /\ b \in Seq(S) /\ Len(b) = Len(q) - k
          /\ \A i \in 1 .. Len(q) - k : b[i] = q[i + k]
      <4>1. \A i \in k + 1 .. Len(q) : q[i] \in S
        BY <2>1
      <4>2. k + 1 \in Int /\ Len(q) \in Int
        BY <2>1
      <4> HIDE DEF b
      <4>3. /\ b \in Seq(S)
            /\ Len(b) = IF k + 1 <= Len(q) THEN Len(q) - (k + 1) + 1 ELSE 0
            /\ \A i \in 1 .. Len(q) - (k + 1) + 1 : b[i] = q[(k + 1) + i - 1]
        BY <4>1, <4>2, SubSeqProperties DEF b
      <4>4. Len(b) = Len(q) - k
        <5>1. CASE k + 1 <= Len(q)
          <6>1. Len(b) = Len(q) - (k + 1) + 1
            BY <4>3, <5>1
          <6> HIDE DEF b
          <6> QED BY <2>1, <6>1
        <5>2. CASE ~(k + 1 <= Len(q))
          <6>1. Len(b) = 0
            BY <4>3, <5>2
          <6>2. Len(q) \in Nat /\ k \in Nat /\ k <= Len(q)
            BY <2>1
          <6> DEFINE n == Len(q)
          <6>3. n \in Nat /\ k \in Nat /\ k <= n /\ ~(k + 1 <= n)
            BY <5>2, <6>2
          <6> HIDE DEF n
          <6>4. n - k = 0
            BY <6>3
          <6> QED BY <6>1, <6>4 DEF n
        <5> QED BY <5>1, <5>2
      <4>5. ASSUME NEW i \in 1 .. Len(q) - k PROVE b[i] = q[i + k]
        <5>1. i \in 1 .. Len(q) - (k + 1) + 1 /\ (k + 1) + i - 1 = i + k
          BY <2>1
        <5> QED BY <4>3, <5>1
      <4> QED BY <4>3, <4>4, <4>5
    <3>3. r = a \o b
      BY <2>4
    <3> HIDE DEF a, b, r
    <3>4. /\ r \in Seq(S) /\ Len(r) = Len(q) - 1
          /\ \A i \in 1 .. Len(q) - 1 : r[i] = IF i <= k - 1 THEN a[i] ELSE b[i - (k - 1)]
      <4>1. /\ r \in Seq(S) /\ Len(r) = Len(a) + Len(b)
            /\ \A i \in 1 .. Len(a) + Len(b) :
                 r[i] = IF i <= Len(a) THEN a[i] ELSE b[i - Len(a)]
        BY <3>1, <3>2, <3>3, ConcatProperties
      <4>2. Len(a) + Len(b) = Len(q) - 1
        BY <2>1, <3>1, <3>2
      <4> QED BY <3>1, <4>1, <4>2
    <3>5. ASSUME NEW i \in 1 .. Len(q) - 1 PROVE r[i] = IF i < k THEN q[i] ELSE q[i + 1]
      <4>1. CASE i < k
        BY <2>1, <3>1, <3>4, <4>1
      <4>2. CASE ~(i < k)
        <5>1. i - (k - 1) \in 1 .. Len(q) - k /\ (i - (k - 1)) + k = i + 1 /\ ~(i <= k - 1)
          BY <2>1, <4>2
        <5> QED BY <3>2, <3>4, <4>2, <5>1
      <4> QED BY <4>1, <4>2
    <3> QED BY <3>4, <3>5
  <2> HIDE DEF r
  <2>6. \A i \in 1 .. Len(q) - 1 : \E j \in 1 .. Len(q) : j # k /\ r[i] = q[j]
                                      /\ j = IF i < k THEN i ELSE i + 1
    BY <2>1, <2>5
  <2>11. DOMAIN r = 1 .. Len(q) - 1
    BY <2>1, <2>5
  <2>12. IsInjective(r)
    <3> SUFFICES ASSUME NEW i \in 1 .. Len(q) - 1, NEW j \in 1 .. Len(q) - 1, r[i] = r[j]
                 PROVE  i = j
      BY <2>11 DEF IsInjective
    <3>1. PICK m \in 1 .. Len(q) : r[i] = q[m] /\ m = IF i < k THEN i ELSE i + 1
      BY <2>6
    <3>2. PICK n \in 1 .. Len(q) : r[j] = q[n] /\ n = IF j < k THEN j ELSE j + 1
      BY <2>6
    <3>3. m = n
      BY <2>1, <3>1, <3>2 DEF IsInjective
    <3> QED BY <2>1, <3>1, <3>2, <3>3
  <2>8. \A j \in 1 .. Len(q) : j # k => \E i \in 1 .. Len(q) - 1 : r[i] = q[j]
    <3> TAKE j \in 1 .. Len(q)
    <3>1. CASE j < k
      BY <2>1, <2>5, <3>1
    <3>2. CASE j > k
      <4>1. j - 1 \in 1 .. Len(q) - 1 /\ ~(j - 1 < k) /\ (j - 1) + 1 = j
        BY <2>1, <3>2
      <4> QED BY <2>5, <4>1
    <3> QED BY <2>1, <3>1, <3>2
  <2>9. ToSet(r) = ToSet(q) \ {x}
    <3>1. ASSUME NEW y \in ToSet(r) PROVE y \in ToSet(q) \ {x}
      BY <2>1, <2>6, <2>11, <3>1 DEF ToSet
    <3>2. ASSUME NEW y \in ToSet(q), y # x PROVE y \in ToSet(r)
      <4>1. PICK j \in 1 .. Len(q) : y = q[j]
        BY <2>1 DEF ToSet
      <4> QED BY <2>1, <2>8, <2>11, <3>2, <4>1 DEF ToSet
    <3> QED BY <3>1, <3>2
  <2>10. ASSUME q # <<>>, Head(q) # x PROVE r # <<>> /\ Head(r) = Head(q)
    <3>1. Head(q) = q[1] /\ k # 1 /\ Len(q) >= 2
      BY <2>1, <2>10
    <3> QED BY <2>1, <2>5, <3>1
  <2> QED BY <2>5, <2>12, <2>9, <2>10 DEF r
<1> QED BY <1>1, <1>2

-----------------------------------------------------------------------------
(* What a command asked of a watcher.                                        *)

(* So far a command has had nothing done, or has been told that it has not.  *)
Undone == {"idle", "opening", "probing", "dialling", "waiting", "inside", "asking", "sure",
           "steering", "thinking", "failed", "refused"}

(* What stands in a queue was asked by a command that waits for it or was    *)
(* killed since, of that one watcher; and it has been done when the head of  *)
(* the queue has run, which a retag that still has to ask does not count.    *)
Queued(w) == ToSet(busy[w])

Served(w, c) == ran[w] /\ Head(busy[w]) = c /\ kind[c] # "retag"

OnceAtMost ==
  /\ \A w \in Watchers : ran[w] => busy[w] # <<>>
  /\ \A w \in Watchers : \A c \in Queued(w) \ {Pass} :
       /\ command[c] \in {"asked", "killed"}
       /\ effects[c] = IF Served(w, c) THEN 1 ELSE 0
       /\ \A v \in Watchers : c \in Queued(v) => v = w
  /\ \A c \in Commands : command[c] \in Undone => effects[c] = 0
  /\ \A c \in readers : command[c] \in {"inside", "asking", "sure"}
  /\ ToldTheTruth

AllServed == TypeOK /\ OnceAtMost

LEMMA Apart ==
  /\ \A c \in Commands : c # Pass /\ c # Nobody /\ c \notin Watchers
  /\ \A w \in Watchers : w # Nobody /\ w \notin Commands
  /\ Nobody # Pass
  BY ServiceAssumption

(* What a queue holds: commands, and the loop's own turn.                    *)
LEMMA Waiting ==
  ASSUME AllServed, NEW w \in Watchers
  PROVE  /\ busy[w] \in Seq(Commands \cup {Pass}) /\ IsInjective(busy[w])
         /\ Queued(w) \subseteq Commands \cup {Pass}
         /\ \A c \in Commands : command[c] \in Undone => c \notin Queued(w)
<1>1. busy[w] \in Seq(Commands \cup {Pass}) /\ IsInjective(busy[w])
  BY DEF AllServed, TypeOK
<1>2. DOMAIN busy[w] = 1 .. Len(busy[w]) /\ \A i \in 1 .. Len(busy[w]) : busy[w][i] \in Commands \cup {Pass}
  BY <1>1
<1>3. Queued(w) \subseteq Commands \cup {Pass}
  BY <1>2 DEF Queued, ToSet
<1>4. ASSUME NEW c \in Commands, command[c] \in Undone PROVE c \notin Queued(w)
  BY <1>4, Apart DEF AllServed, OnceAtMost, Undone
<1> QED BY <1>1, <1>3, <1>4

(* A step that nobody in a queue and no command takes notice of.             *)
LEMMA NobodyNotices ==
  ASSUME AllServed, UNCHANGED <<busy, ran, command, kind, effects>>, readers' \subseteq readers
  PROVE  OnceAtMost'
  BY DEF AllServed, OnceAtMost, ToldTheTruth, Queued, Served

(* A watcher starts, unlinks its socket, lets go.                            *)
LEMMA WatcherSteps ==
  ASSUME AllServed, NEW w \in Watchers,
         claim_folders(w) \/ start(w) \/ unlink(w) \/ release_claim(w) \/ release(w)
  PROVE  AllServed'
<1>1. UNCHANGED <<busy, ran, command, kind, effects>> /\ readers' \subseteq readers
  BY DEF claim_folders, start, unlink, release_claim, release, locks, Letgo
<1>2. TypeOK'
  BY DEF AllServed, TypeOK, claim_folders, start, unlink, release_claim, release, locks, Letgo,
         served
<1> QED BY <1>1, <1>2, NobodyNotices DEF AllServed

(* A command that nothing was done for moves on to where nothing was done.   *)
LEMMA GoesOn ==
  ASSUME AllServed, NEW c \in Commands, command[c] \in Undone,
         NEW to \in Undone, command' = [command EXCEPT ![c] = to],
         UNCHANGED <<served, busy, ran, kind, effects>>,
         readers' \subseteq readers \cup {c},
         c \in readers' => to \in {"inside", "asking", "sure"},
         writer' \in Watchers \cup Commands \cup {Nobody},
         writer' # Nobody => readers' = {}
  PROVE  AllServed'
<1>1. TypeOK /\ OnceAtMost
  BY DEF AllServed
<1>2. command'[c] = to /\ \A d \in Commands : d # c => command'[d] = command[d]
  BY <1>1 DEF TypeOK
<1>3. \A w \in Watchers : c \notin Queued(w)
  BY Waiting
<1>4. TypeOK'
  <2>1. command' \in [Commands -> Ends \cup {"idle", "opening", "probing", "dialling",
                                         "asked", "waiting", "inside", "asking",
                                         "sure", "steering", "thinking"}]
    BY <1>1 DEF TypeOK, Undone, Ends
  <2> QED BY <1>1, <2>1 DEF TypeOK, served
<1>5. \A w \in Watchers : \A d \in Queued(w) \ {Pass} : d \in Commands /\ d # c
  BY <1>3, Waiting
<1>6. ToldTheTruth'
  BY <1>1, <1>2 DEF OnceAtMost, ToldTheTruth, Undone
<1>7. \A d \in readers' : command'[d] \in {"inside", "asking", "sure"}
  BY <1>1, <1>2 DEF OnceAtMost, TypeOK
<1>8. \A d \in Commands : command'[d] \in Undone => effects'[d] = 0
  BY <1>1, <1>2 DEF OnceAtMost
<1>9. \A w \in Watchers : \A d \in Queued(w)' \ {Pass} :
       /\ command'[d] \in {"asked", "killed"}
       /\ effects'[d] = IF Served(w, d)' THEN 1 ELSE 0
       /\ \A v \in Watchers : d \in Queued(v)' => v = w
  BY <1>1, <1>2, <1>5 DEF OnceAtMost, Queued, Served
<1>10. OnceAtMost'
  BY <1>1, <1>6, <1>7, <1>8, <1>9 DEF OnceAtMost
<1> QED BY <1>4, <1>10 DEF AllServed

LEMMA CommandSteps ==
  ASSUME AllServed, NEW c \in Commands,
         \/ Begin(c) \/ Ask(c) \/ reading(c) \/ writing(c) \/ _connect(c) \/ Timeout(c)
         \/ Yes(c) \/ No(c) \/ existing_categories(c) \/ _retag_by_asking(c)
  PROVE  AllServed'
<1>1. TypeOK /\ OnceAtMost
  BY DEF AllServed
<1>2. command[c] \in {"inside", "asking", "sure"} \/ c \notin readers
  BY <1>1 DEF OnceAtMost
<1>3. CASE Begin(c)
  BY <1>1, <1>2, <1>3, GoesOn DEF Begin, Goes, Undone, locks, TypeOK
<1>4. CASE Ask(c)
  BY <1>1, <1>4, GoesOn DEF Ask, Goes, Undone, locks, TypeOK
<1>5. CASE reading(c)
  BY <1>1, <1>2, <1>5, GoesOn DEF reading, Goes, Undone, TypeOK
<1>6. CASE writing(c)
  BY <1>1, <1>2, <1>6, GoesOn DEF writing, Goes, Undone, locks, TypeOK
<1>7. CASE _connect(c)
  <2>1. c \notin readers /\ readers = {}
    BY <1>2, <1>7 DEF _connect, Goes, Free
  <2> QED BY <1>1, <1>7, <2>1, GoesOn DEF _connect, Goes, Undone, TypeOK
<1>8. CASE Timeout(c)
  BY <1>1, <1>2, <1>8, GoesOn DEF Timeout, Goes, Undone, locks, TypeOK
<1>9. CASE Yes(c)
  BY <1>1, <1>9, GoesOn DEF Yes, Goes, Undone, locks, TypeOK
<1>10. CASE No(c)
  BY <1>1, <1>10, GoesOn DEF No, Goes, Undone, Letgo, TypeOK
<1>11. CASE _retag_by_asking(c)
  BY <1>1, <1>2, <1>11, GoesOn DEF _retag_by_asking, Goes, Undone, locks, TypeOK
<1>12. CASE existing_categories(c)
  BY <1>1, <1>2, <1>12, GoesOn DEF existing_categories, Goes, Undone, locks, TypeOK
<1> QED BY <1>3, <1>4, <1>5, <1>6, <1>7, <1>8, <1>9, <1>10, <1>11, <1>12

(* What is asked of a watcher joins the queue there, with nothing done yet.  *)
LEMMA CallStep ==
  ASSUME AllServed, NEW c \in Commands, call(c)
  PROVE  AllServed'
<1>1. TypeOK /\ OnceAtMost /\ command[c] = "dialling"
  BY DEF AllServed, call, Goes
<1>2. c \notin readers
  BY <1>1 DEF OnceAtMost
<1>3. CASE ~serving
  BY <1>1, <1>2, <1>3, GoesOn DEF call, Goes, Undone, locks, TypeOK
<1>4. CASE serving
  <2> PICK w \in Watchers : path = w
    BY <1>4 DEF serving
  <2>1. /\ command' = [command EXCEPT ![c] = "asked"]
        /\ busy' = [busy EXCEPT ![w] = Append(@, c)]
        /\ UNCHANGED <<claim, path, watcher, ran, writer, readers, kind, effects>>
    BY <1>4 DEF call, Goes, served, locks
  <2>2. \A v \in Watchers : c \notin Queued(v)
    BY <1>1, Waiting DEF Undone
  <2>3. /\ busy[w] \in Seq(Commands \cup {Pass}) /\ IsInjective(busy[w])
        /\ c \notin ToSet(busy[w])
    BY <2>2, Waiting DEF Queued
  <2>4. /\ Append(busy[w], c) \in Seq(Commands \cup {Pass})
        /\ IsInjective(Append(busy[w], c))
        /\ ToSet(Append(busy[w], c)) = ToSet(busy[w]) \cup {c}
        /\ Append(busy[w], c) # <<>>
        /\ busy[w] # <<>> => Head(Append(busy[w], c)) = Head(busy[w])
    BY <2>3, Joining
  <2>5. /\ busy'[w] = Append(busy[w], c)
        /\ \A v \in Watchers : v # w => busy'[v] = busy[v]
    BY <1>1, <2>1 DEF TypeOK
  <2>6. command'[c] = "asked" /\ \A d \in Commands : d # c => command'[d] = command[d]
    BY <1>1, <2>1 DEF TypeOK
  <2>7. TypeOK'
    <3>1. busy' \in [Watchers -> Seq(Commands \cup {Pass})]
      BY <1>1, <2>1, <2>4 DEF TypeOK
    <3>2. \A v \in Watchers : IsInjective(busy'[v])
      BY <1>1, <2>4, <2>5 DEF TypeOK
    <3>3. command' \in [Commands -> Ends \cup {"idle", "opening", "probing", "dialling",
                                           "asked", "waiting", "inside", "asking",
                                           "sure", "steering", "thinking"}]
      BY <1>1, <2>1 DEF TypeOK
    <3> QED BY <1>1, <2>1, <3>1, <3>2, <3>3 DEF TypeOK
  <2>8. /\ Queued(w)' = Queued(w) \cup {c}
        /\ \A v \in Watchers : v # w => Queued(v)' = Queued(v)
    BY <2>4, <2>5 DEF Queued
  <2>9. \A v \in Watchers : ran'[v] => busy'[v] # <<>> /\ Head(busy'[v]) = Head(busy[v])
    BY <1>1, <2>1, <2>4, <2>5 DEF OnceAtMost
  <2>10. ASSUME NEW v \in Watchers, NEW d \in Queued(v)' \ {Pass}
         PROVE  /\ command'[d] \in {"asked", "killed"}
                /\ effects'[d] = IF Served(v, d)' THEN 1 ELSE 0
                /\ \A u \in Watchers : d \in Queued(u)' => u = v
    <3>1. CASE d = c
      <4>1. v = w /\ \A u \in Watchers : d \in Queued(u)' => u = v
        BY <2>2, <2>8, <2>10, <3>1
      <4>2. effects'[c] = 0
        BY <1>1, <2>1 DEF OnceAtMost, Undone
      <4>3. ~Served(v, c)'
        <5> SUFFICES ASSUME ran'[w], Head(busy'[w]) = c PROVE FALSE
          BY <4>1 DEF Served
        <5>1. busy[w] # <<>> /\ Head(busy[w]) = c
          BY <1>1, <2>1, <2>9 DEF OnceAtMost
        <5>2. Head(busy[w]) \in ToSet(busy[w])
          BY <2>3, <5>1, Leaving
        <5> QED BY <2>3, <5>1, <5>2
      <4> QED BY <2>6, <3>1, <4>1, <4>2, <4>3
    <3>2. CASE d # c
      <4>1. d \in Queued(v) \ {Pass} /\ d \in Commands
        BY <2>8, <2>10, <3>2, Waiting
      <4>2. Served(v, d)' <=> Served(v, d)
        BY <2>1, <2>9 DEF Served
      <4> QED BY <1>1, <2>1, <2>6, <2>8, <3>2, <4>1, <4>2 DEF OnceAtMost
    <3> QED BY <3>1, <3>2
  <2>11. ToldTheTruth'
    BY <1>1, <2>1, <2>6 DEF OnceAtMost, ToldTheTruth
  <2>12. /\ \A d \in Commands : command'[d] \in Undone => effects'[d] = 0
         /\ \A d \in readers' : command'[d] \in {"inside", "asking", "sure"}
    BY <1>1, <1>2, <2>1, <2>6 DEF OnceAtMost, Undone, TypeOK
  <2>13. OnceAtMost'
    BY <2>9, <2>10, <2>11, <2>12 DEF OnceAtMost
  <2> QED BY <2>7, <2>13 DEF AllServed
<1> QED BY <1>3, <1>4

(* The command does its work itself, or what of it comes before asking.      *)
LEMMA WorkStep ==
  ASSUME AllServed, NEW c \in Commands, Work(c)
  PROVE  AllServed'
<1>1. /\ TypeOK /\ OnceAtMost /\ command[c] \in {"inside", "sure"}
      /\ command' = [command EXCEPT ![c] = Told(c)]
      /\ kind' = [kind EXCEPT ![c] = Then(c)]
      /\ effects' = IF kind[c] # "retag" THEN [effects EXCEPT ![c] = @ + 1] ELSE effects
      /\ writer' = (IF writer = c THEN Nobody ELSE writer) /\ readers' = readers \ {c}
      /\ UNCHANGED <<claim, path, watcher, busy, ran>>
  BY DEF AllServed, Work, Goes, Worked, Letgo, served
<1>2. effects[c] = 0 /\ \A w \in Watchers : c \notin Queued(w)
  BY <1>1, Waiting DEF OnceAtMost, Undone
<1>3. /\ command'[c] = Told(c) /\ \A d \in Commands : d # c => command'[d] = command[d]
      /\ \A d \in Commands : d # c => effects'[d] = effects[d] /\ kind'[d] = kind[d]
      /\ effects'[c] = IF kind[c] # "retag" THEN 1 ELSE 0
  BY <1>1, <1>2 DEF TypeOK
<1>4. TypeOK'
  <2>1. effects' \in [Commands -> Nat]
    BY <1>1 DEF TypeOK
  <2>2. kind' \in [Commands -> {"read", "write", "retag"}]
    BY <1>1 DEF TypeOK, Then
  <2>3. command' \in [Commands -> Ends \cup {"idle", "opening", "probing", "dialling",
                                         "asked", "waiting", "inside", "asking",
                                         "sure", "steering", "thinking"}]
    BY <1>1 DEF TypeOK, Told, Ends
  <2> QED BY <1>1, <2>1, <2>2, <2>3 DEF TypeOK
<1>5. \A w \in Watchers : \A d \in Queued(w) \ {Pass} : d \in Commands /\ d # c
  BY <1>2, Waiting
<1>6. \A w \in Watchers : \A d \in Queued(w)' \ {Pass} :
       /\ command'[d] \in {"asked", "killed"}
       /\ effects'[d] = IF Served(w, d)' THEN 1 ELSE 0
       /\ \A v \in Watchers : d \in Queued(v)' => v = w
  BY <1>1, <1>3, <1>5 DEF OnceAtMost, Queued, Served
<1>7. ToldTheTruth'
  BY <1>1, <1>3 DEF OnceAtMost, ToldTheTruth, Told
<1>8. \A d \in Commands : command'[d] \in Undone => effects'[d] = 0
  BY <1>1, <1>3 DEF OnceAtMost, Told, Undone
<1>9. \A d \in readers' : command'[d] \in {"inside", "asking", "sure"}
  BY <1>1, <1>3 DEF OnceAtMost, TypeOK
<1>10. OnceAtMost'
  BY <1>1, <1>6, <1>7, <1>8, <1>9 DEF OnceAtMost
<1> QED BY <1>4, <1>10 DEF AllServed

(* A command that is killed leaves in the queue what it asked for.           *)
LEMMA KillStep ==
  ASSUME AllServed, NEW c \in Commands, Kill(c)
  PROVE  AllServed'
<1>1. /\ TypeOK /\ OnceAtMost
      /\ command' = [command EXCEPT ![c] = "killed"]
      /\ writer' = (IF writer = c THEN Nobody ELSE writer) /\ readers' = readers \ {c}
      /\ UNCHANGED <<claim, path, watcher, busy, ran, kind, effects>>
  BY DEF AllServed, Kill, Letgo, served
<1>2. command'[c] = "killed" /\ \A d \in Commands : d # c => command'[d] = command[d]
  BY <1>1 DEF TypeOK
<1>3. TypeOK'
  <2>1. command' \in [Commands -> Ends \cup {"idle", "opening", "probing", "dialling",
                                         "asked", "waiting", "inside", "asking",
                                         "sure", "steering", "thinking"}]
    BY <1>1 DEF TypeOK, Ends
  <2> QED BY <1>1, <2>1 DEF TypeOK
<1>4. \A w \in Watchers : Queued(w) \ {Pass} \subseteq Commands
  BY Waiting
<1>5. \A w \in Watchers : \A d \in Queued(w)' \ {Pass} :
       /\ command'[d] \in {"asked", "killed"}
       /\ effects'[d] = IF Served(w, d)' THEN 1 ELSE 0
       /\ \A v \in Watchers : d \in Queued(v)' => v = w
  BY <1>1, <1>2, <1>4 DEF OnceAtMost, Queued, Served
<1>6. ToldTheTruth'
  BY <1>1, <1>2 DEF OnceAtMost, ToldTheTruth
<1>7. /\ \A d \in Commands : command'[d] \in Undone => effects'[d] = 0
      /\ \A d \in readers' : command'[d] \in {"inside", "asking", "sure"}
  BY <1>1, <1>2 DEF OnceAtMost, Undone, TypeOK
<1>8. OnceAtMost'
  BY <1>1, <1>5, <1>6, <1>7 DEF OnceAtMost
<1> QED BY <1>3, <1>8 DEF AllServed

(* The loop's own turn joins the queue.                                      *)
LEMMA PassDueStep ==
  ASSUME AllServed, NEW w \in Watchers, PassDue(w)
  PROVE  AllServed'
<1>1. /\ TypeOK /\ OnceAtMost /\ Pass \notin ToSet(busy[w])
      /\ busy' = [busy EXCEPT ![w] = Append(@, Pass)]
      /\ UNCHANGED <<claim, path, watcher, ran, writer, readers, command, kind, effects>>
  BY DEF AllServed, PassDue, served, locks
<1>2. busy[w] \in Seq(Commands \cup {Pass}) /\ IsInjective(busy[w])
  BY Waiting
<1>3. /\ Append(busy[w], Pass) \in Seq(Commands \cup {Pass})
      /\ IsInjective(Append(busy[w], Pass))
      /\ ToSet(Append(busy[w], Pass)) = ToSet(busy[w]) \cup {Pass}
      /\ Append(busy[w], Pass) # <<>>
      /\ busy[w] # <<>> => Head(Append(busy[w], Pass)) = Head(busy[w])
  BY <1>1, <1>2, Joining
<1>4. /\ busy'[w] = Append(busy[w], Pass)
      /\ \A v \in Watchers : v # w => busy'[v] = busy[v]
  BY <1>1 DEF TypeOK
<1>5. TypeOK'
  <2>1. busy' \in [Watchers -> Seq(Commands \cup {Pass})]
    BY <1>1, <1>3 DEF TypeOK
  <2>2. \A v \in Watchers : IsInjective(busy'[v])
    BY <1>1, <1>3, <1>4 DEF TypeOK
  <2> QED BY <1>1, <2>1, <2>2 DEF TypeOK
<1>6. \A v \in Watchers : Queued(v)' \ {Pass} = Queued(v) \ {Pass}
  BY <1>3, <1>4 DEF Queued
<1>7. \A v \in Watchers : ran'[v] => busy'[v] # <<>> /\ Head(busy'[v]) = Head(busy[v])
  BY <1>1, <1>3, <1>4 DEF OnceAtMost
<1>8. \A v \in Watchers : \A d : Served(v, d)' <=> Served(v, d)
  BY <1>1, <1>7 DEF Served
<1>9. OnceAtMost'
  BY <1>1, <1>6, <1>7, <1>8 DEF OnceAtMost, ToldTheTruth
<1> QED BY <1>5, <1>9 DEF AllServed

(* The head of the queue has its turn: what it asked for is done now.        *)
LEMMA ServeStep ==
  ASSUME AllServed, NEW w \in Watchers, Serve(w)
  PROVE  AllServed'
<1>1. /\ TypeOK /\ OnceAtMost /\ busy[w] # <<>> /\ ~ran[w]
      /\ writer' = w
      /\ ran' = [ran EXCEPT ![w] = TRUE]
      /\ UNCHANGED <<claim, path, watcher, busy, readers, command, kind>>
  BY DEF AllServed, Serve, Waits, served
<1>2. readers = {}
  BY <1>1, Apart DEF Serve, Free, TypeOK
<1> DEFINE h == Head(busy[w])
<1>3. /\ busy[w] \in Seq(Commands \cup {Pass}) /\ IsInjective(busy[w])
      /\ h \in Queued(w) /\ h \in Commands \cup {Pass}
  BY <1>1, Waiting, Leaving DEF Queued
<1>4. h \in Commands => /\ effects[h] = 0 /\ command[h] \in {"asked", "killed"}
                        /\ \A v \in Watchers : h \in Queued(v) => v = w
  BY <1>1, <1>3, Apart DEF OnceAtMost, Served
<1>5. effects' = IF h \in Commands /\ kind[h] # "retag"
                   THEN [effects EXCEPT ![h] = @ + 1] ELSE effects
  BY DEF Serve, Worked
<1> HIDE DEF h
<1>6. /\ \A d \in Commands : d # h => effects'[d] = effects[d]
      /\ h \in Commands => effects'[h] = IF kind[h] # "retag" THEN 1 ELSE 0
  BY <1>1, <1>4, <1>5 DEF TypeOK
<1>7. ran'[w] = TRUE /\ \A v \in Watchers : v # w => ran'[v] = ran[v]
  BY <1>1 DEF TypeOK
<1>8. TypeOK'
  <2>1. effects' \in [Commands -> Nat]
    BY <1>1, <1>5 DEF TypeOK
  <2> QED BY <1>1, <1>2, <2>1 DEF TypeOK
<1>9. ASSUME NEW v \in Watchers, NEW d \in Queued(v)' \ {Pass}
      PROVE  /\ command'[d] \in {"asked", "killed"}
             /\ effects'[d] = IF Served(v, d)' THEN 1 ELSE 0
             /\ \A u \in Watchers : d \in Queued(u)' => u = v
  <2>1. d \in Queued(v) \ {Pass} /\ d \in Commands
    BY <1>1, <1>9, Waiting DEF Queued
  <2>2. /\ command[d] \in {"asked", "killed"}
        /\ effects[d] = IF Served(v, d) THEN 1 ELSE 0
        /\ \A u \in Watchers : d \in Queued(u) => u = v
    BY <1>1, <2>1 DEF OnceAtMost
  <2>3. effects'[d] = IF Served(v, d)' THEN 1 ELSE 0
    <3>1. CASE d = h
      <4>1. v = w
        BY <1>3, <2>2, <3>1
      <4>2. Served(w, d)' <=> kind[h] # "retag"
        BY <1>1, <1>7, <3>1 DEF Served, h
      <4>3. effects'[d] = IF kind[h] # "retag" THEN 1 ELSE 0
        BY <1>6, <2>1, <3>1
      <4> QED BY <4>1, <4>2, <4>3
    <3>2. CASE d # h
      <4>1. Served(v, d)' <=> Served(v, d)
        BY <1>1, <1>7, <3>2 DEF Served, h
      <4> QED BY <1>6, <2>1, <2>2, <3>2, <4>1
    <3> QED BY <3>1, <3>2
  <2> QED BY <1>1, <2>2, <2>3 DEF Queued
<1>10. ToldTheTruth'
  BY <1>1, <1>3, <1>4, <1>6 DEF OnceAtMost, ToldTheTruth
<1>11. \A d \in Commands : command'[d] \in Undone => effects'[d] = 0
  BY <1>1, <1>4, <1>6 DEF OnceAtMost, Undone
<1>12. OnceAtMost'
  BY <1>1, <1>2, <1>7, <1>9, <1>10, <1>11 DEF OnceAtMost
<1> QED BY <1>8, <1>12 DEF AllServed

(* The head of the queue leaves it, told the truth if anybody listens.       *)
LEMMA LeaveStep ==
  ASSUME AllServed, NEW w \in Watchers, busy[w] # <<>>,
         NEW how \in {"done", "failed", "steering"}, Leave(w, how),
         UNCHANGED <<claim, path, watcher, writer, readers, effects>>,
         kind' \in [Commands -> {"read", "write", "retag"}],
         \A d \in Commands : d # Head(busy[w]) => kind'[d] = kind[d],
         Head(busy[w]) \in Commands =>
           effects[Head(busy[w])] = IF how = "done" THEN 1 ELSE 0
  PROVE  AllServed'
<1> DEFINE h == Head(busy[w])
<1>1. /\ TypeOK /\ OnceAtMost
      /\ busy' = [busy EXCEPT ![w] = Tail(@)]
      /\ ran' = [ran EXCEPT ![w] = FALSE]
      /\ command' = IF h \in Commands /\ ~Ended(h) THEN [command EXCEPT ![h] = how] ELSE command
  BY DEF AllServed, Leave
<1>2. /\ busy[w] \in Seq(Commands \cup {Pass}) /\ IsInjective(busy[w])
      /\ Tail(busy[w]) \in Seq(Commands \cup {Pass}) /\ IsInjective(Tail(busy[w]))
      /\ ToSet(Tail(busy[w])) = Queued(w) \ {h}
      /\ h \in Queued(w) /\ h \in Commands \cup {Pass}
  BY Waiting, Leaving DEF Queued
<1>3. h \in Commands => effects[h] = IF how = "done" THEN 1 ELSE 0
  OBVIOUS
<1>4. \A d \in Commands : d # h => kind'[d] = kind[d]
  OBVIOUS
<1> HIDE DEF h
<1>5. /\ busy'[w] = Tail(busy[w]) /\ ran'[w] = FALSE
      /\ \A v \in Watchers : v # w => busy'[v] = busy[v] /\ ran'[v] = ran[v]
      /\ \A d \in Commands : d # h => command'[d] = command[d]
      /\ h \in Commands => command'[h] = IF ~Ended(h) THEN how ELSE command[h]
  BY <1>1 DEF TypeOK
<1>6. /\ Queued(w)' = Queued(w) \ {h}
      /\ \A v \in Watchers : v # w => Queued(v)' = Queued(v)
  BY <1>2, <1>5 DEF Queued
<1>7. TypeOK'
  <2>1. busy' \in [Watchers -> Seq(Commands \cup {Pass})]
    BY <1>1, <1>2 DEF TypeOK
  <2>2. \A v \in Watchers : IsInjective(busy'[v])
    BY <1>1, <1>2, <1>5 DEF TypeOK
  <2>3. command' \in [Commands -> Ends \cup {"idle", "opening", "probing", "dialling",
                                         "asked", "waiting", "inside", "asking",
                                         "sure", "steering", "thinking"}]
    BY <1>1 DEF TypeOK, Ends
  <2> QED BY <1>1, <2>1, <2>2, <2>3 DEF TypeOK
<1>8. h \in Commands => /\ command[h] \in {"asked", "killed"}
                        /\ \A v \in Watchers : h \in Queued(v) => v = w
  BY <1>1, <1>2, Apart DEF OnceAtMost
<1>9. ASSUME NEW v \in Watchers, NEW d \in Queued(v)' \ {Pass}
      PROVE  /\ command'[d] \in {"asked", "killed"}
             /\ effects'[d] = IF Served(v, d)' THEN 1 ELSE 0
             /\ \A u \in Watchers : d \in Queued(u)' => u = v
  <2>1. d \in Queued(v) \ {Pass}
    BY <1>6, <1>9
  <2>2. /\ command[d] \in {"asked", "killed"}
        /\ effects[d] = IF Served(v, d) THEN 1 ELSE 0
        /\ \A u \in Watchers : d \in Queued(u) => u = v
    BY <1>1, <2>1 DEF OnceAtMost
  <2>3. d # h /\ d \in Commands
    <3>1. d \in Commands
      BY <2>1, Waiting
    <3>2. d # h
      BY <1>6, <1>8, <1>9, <2>1, <3>1
    <3> QED BY <3>1, <3>2
  <2>4. Served(v, d)' <=> Served(v, d)
    BY <1>4, <1>5, <2>3 DEF Served, h
  <2>5. \A u \in Watchers : d \in Queued(u)' => d \in Queued(u)
    BY <1>6
  <2> QED BY <1>5, <2>2, <2>3, <2>4, <2>5
<1>10. ToldTheTruth'
  BY <1>1, <1>2, <1>3, <1>5, <1>8 DEF OnceAtMost, ToldTheTruth
<1>11. \A d \in Commands : command'[d] \in Undone => effects'[d] = 0
  BY <1>1, <1>3, <1>5, <1>8 DEF OnceAtMost, Undone
<1>12. \A d \in readers' : command'[d] \in {"inside", "asking", "sure"}
  BY <1>1, <1>5, <1>8 DEF OnceAtMost, TypeOK
<1>13. \A v \in Watchers : ran'[v] => busy'[v] # <<>>
  BY <1>1, <1>5 DEF OnceAtMost
<1>14. OnceAtMost'
  BY <1>9, <1>10, <1>11, <1>12, <1>13 DEF OnceAtMost
<1> QED BY <1>7, <1>14 DEF AllServed

LEMMA AnswerSteps ==
  ASSUME AllServed, NEW w \in Watchers, Reply(w) \/ Fail(w)
  PROVE  AllServed'
<1>1. TypeOK /\ OnceAtMost /\ busy[w] # <<>>
  BY DEF AllServed, Reply, Fail, Waits, OnceAtMost
<1> DEFINE h == Head(busy[w])
<1>2. h \in Queued(w) /\ h \in Commands \cup {Pass} /\ (h \in Commands => h # Pass)
  BY <1>1, Waiting, Leaving, Apart DEF Queued
<1>3. h \in Commands => effects[h] = IF Served(w, h) THEN 1 ELSE 0
  BY <1>1, <1>2 DEF OnceAtMost
<1>4. CASE Reply(w)
  <2>1. /\ ran[w] /\ Leave(w, IF h = Pass THEN "done" ELSE Answered(h))
        /\ kind' = IF h = Pass THEN kind ELSE [kind EXCEPT ![h] = Then(h)]
        /\ UNCHANGED <<claim, path, watcher, writer, readers, effects>>
    BY <1>4 DEF Reply, served, locks
  <2>2. PICK how \in {"done", "failed", "steering"} :
          how = IF h = Pass THEN "done" ELSE Answered(h)
    BY DEF Answered
  <2>3. h \in Commands => effects[h] = IF how = "done" THEN 1 ELSE 0
    BY <1>2, <1>3, <2>1, <2>2 DEF Served, Answered
  <2>4. kind' \in [Commands -> {"read", "write", "retag"}]
    BY <1>1, <2>1 DEF TypeOK, Then
  <2>5. \A d \in Commands : d # h => kind'[d] = kind[d]
    BY <1>1, <2>1 DEF TypeOK
  <2>6. Leave(w, how)
    BY <2>1, <2>2
  <2> QED BY <1>1, <2>1, <2>3, <2>4, <2>5, <2>6, LeaveStep
<1>5. CASE Fail(w)
  <2>1. /\ ~ran[w] /\ Leave(w, "failed")
        /\ UNCHANGED <<claim, path, watcher, writer, readers, effects, kind>>
    BY <1>5 DEF Fail, Waits, served, locks
  <2>2. h \in Commands => effects[h] = 0
    BY <1>3, <2>1 DEF Served
  <2> QED BY <1>1, <2>1, <2>2, LeaveStep DEF TypeOK
<1> QED BY <1>4, <1>5

(* Stopping, the loop gives up its turn, or its place in the queue.          *)
LEMMA StopStep ==
  ASSUME AllServed, NEW w \in Watchers, stop(w)
  PROVE  AllServed'
<1> DEFINE r == RemoveFirst(busy[w], Pass)
<1>1. /\ TypeOK /\ OnceAtMost
      /\ watcher' = [watcher EXCEPT ![w] = "closing"]
      /\ busy' = [busy EXCEPT ![w] = r]
      /\ ran' = [ran EXCEPT ![w] = @ /\ Head(busy[w]) # Pass]
      /\ UNCHANGED <<claim, path, writer, readers, command, kind, effects>>
  BY DEF AllServed, stop, locks
<1>2. busy[w] \in Seq(Commands \cup {Pass}) /\ IsInjective(busy[w])
  BY Waiting
<1>3. /\ r \in Seq(Commands \cup {Pass}) /\ IsInjective(r)
      /\ ToSet(r) = Queued(w) \ {Pass}
      /\ busy[w] # <<>> /\ Head(busy[w]) # Pass => r # <<>> /\ Head(r) = Head(busy[w])
  BY <1>2, Dropping DEF Queued
<1> HIDE DEF r
<1>4. /\ busy'[w] = r /\ (ran'[w] <=> ran[w] /\ Head(busy[w]) # Pass)
      /\ \A v \in Watchers : v # w => busy'[v] = busy[v] /\ ran'[v] = ran[v]
  BY <1>1 DEF TypeOK
<1>5. TypeOK'
  <2>1. busy' \in [Watchers -> Seq(Commands \cup {Pass})]
    BY <1>1, <1>3 DEF TypeOK
  <2>2. \A v \in Watchers : IsInjective(busy'[v])
    BY <1>1, <1>3, <1>4 DEF TypeOK
  <2>3. ran' \in [Watchers -> BOOLEAN]
    <3>1. (ran[w] /\ Head(busy[w]) # Pass) \in BOOLEAN
      OBVIOUS
    <3> QED BY <1>1, <3>1 DEF TypeOK
  <2> QED BY <1>1, <2>1, <2>2, <2>3 DEF TypeOK
<1>6. \A v \in Watchers : Queued(v)' \ {Pass} = Queued(v) \ {Pass}
  BY <1>3, <1>4 DEF Queued
<1>7. \A v \in Watchers : ran'[v] => busy'[v] # <<>> /\ Head(busy'[v]) = Head(busy[v])
  BY <1>1, <1>3, <1>4 DEF OnceAtMost
<1>8. \A v \in Watchers : \A d \in Queued(v) \ {Pass} : Served(v, d)' <=> Served(v, d)
  BY <1>1, <1>4, <1>7 DEF Served
<1>9. OnceAtMost'
  BY <1>1, <1>6, <1>7, <1>8 DEF OnceAtMost, ToldTheTruth
<1> QED BY <1>5, <1>9 DEF AllServed

(* The process ends, and with it the queue: what waited in it is lost, and   *)
(* nobody says whether it was done.                                          *)
LEMMA GoneStep ==
  ASSUME AllServed, NEW w \in Watchers, Exit(w) \/ Crash(w)
  PROVE  AllServed'
<1>1. /\ TypeOK /\ OnceAtMost
      /\ watcher' = [watcher EXCEPT ![w] = "off"]
      /\ claim' \in {claim, Nobody}
      /\ writer' = (IF writer = w THEN Nobody ELSE writer) /\ readers' = readers \ {w}
      /\ busy' = [busy EXCEPT ![w] = <<>>]
      /\ ran' = [ran EXCEPT ![w] = FALSE]
      /\ command' = [c \in Commands |->
                       IF command[c] = "asked" /\ c \in ToSet(busy[w])
                         THEN "lost" ELSE command[c]]
      /\ UNCHANGED <<path, kind, effects>>
  BY DEF AllServed, Exit, Crash, Gone, Letgo
<1>2. /\ <<>> \in Seq(Commands \cup {Pass}) /\ IsInjective(<<>>) /\ ToSet(<<>>) = {}
  BY DEF IsInjective, ToSet
<1>3. /\ busy'[w] = <<>> /\ ran'[w] = FALSE
      /\ \A v \in Watchers : v # w => busy'[v] = busy[v] /\ ran'[v] = ran[v]
  BY <1>1 DEF TypeOK
<1>4. Queued(w)' = {} /\ \A v \in Watchers : v # w => Queued(v)' = Queued(v)
  BY <1>2, <1>3 DEF Queued
<1>5. \A c \in Commands : /\ command'[c] # "lost" => command'[c] = command[c]
                          /\ c \notin Queued(w) => command'[c] = command[c]
                          /\ command[c] # "asked" => command'[c] = command[c]
  BY <1>1 DEF Queued
<1>6. TypeOK'
  <2>1. busy' \in [Watchers -> Seq(Commands \cup {Pass})]
    BY <1>1, <1>2 DEF TypeOK
  <2>2. \A v \in Watchers : IsInjective(busy'[v])
    BY <1>1, <1>2, <1>3 DEF TypeOK
  <2>3. command' \in [Commands -> Ends \cup {"idle", "opening", "probing", "dialling",
                                         "asked", "waiting", "inside", "asking",
                                         "sure", "steering", "thinking"}]
    BY <1>1 DEF TypeOK, Ends
  <2> QED BY <1>1, <2>1, <2>2, <2>3 DEF TypeOK
<1>7. ASSUME NEW v \in Watchers, NEW d \in Queued(v)' \ {Pass}
      PROVE  /\ command'[d] \in {"asked", "killed"}
             /\ effects'[d] = IF Served(v, d)' THEN 1 ELSE 0
             /\ \A u \in Watchers : d \in Queued(u)' => u = v
  <2>1. v # w /\ d \in Queued(v) \ {Pass} /\ d \in Commands
    BY <1>4, <1>7, Waiting
  <2>2. d \notin Queued(w)
    BY <1>1, <2>1 DEF OnceAtMost
  <2>3. Served(v, d)' <=> Served(v, d)
    BY <1>1, <1>3, <2>1 DEF Served
  <2>4. \A u \in Watchers : d \in Queued(u)' => d \in Queued(u)
    BY <1>4
  <2> QED BY <1>1, <1>5, <2>1, <2>2, <2>3, <2>4 DEF OnceAtMost
<1>8. ToldTheTruth'
  BY <1>1, <1>5 DEF OnceAtMost, ToldTheTruth
<1>9. /\ \A d \in Commands : command'[d] \in Undone => effects'[d] = 0
      /\ \A d \in readers' : command'[d] \in {"inside", "asking", "sure"}
  BY <1>1, <1>5 DEF OnceAtMost, Undone, TypeOK
<1>10. \A v \in Watchers : ran'[v] => busy'[v] # <<>>
  BY <1>1, <1>3 DEF OnceAtMost
<1>11. OnceAtMost'
  BY <1>7, <1>8, <1>9, <1>10 DEF OnceAtMost
<1> QED BY <1>6, <1>11 DEF AllServed

LEMMA AllServedAtFirst == Init => AllServed
<1> SUFFICES ASSUME Init PROVE AllServed
  OBVIOUS
<1>1. <<>> \in Seq(Commands \cup {Pass}) /\ IsInjective(<<>>) /\ ToSet(<<>>) = {}
  BY DEF IsInjective, ToSet
<1>2. TypeOK
  BY <1>1 DEF Init, TypeOK
<1>3. OnceAtMost
  BY <1>1 DEF Init, OnceAtMost, ToldTheTruth, Queued
<1> QED BY <1>2, <1>3 DEF AllServed

LEMMA AllServedSteps == AllServed /\ [Next]_vars => AllServed'
<1> SUFFICES ASSUME AllServed, [Next]_vars PROVE AllServed'
  OBVIOUS
<1>1. CASE UNCHANGED vars
  <2>1. TypeOK'
    BY <1>1 DEF vars, AllServed, TypeOK
  <2>2. OnceAtMost'
    BY <1>1, NobodyNotices DEF vars
  <2> QED BY <2>1, <2>2 DEF AllServed
<1>2. ASSUME NEW w \in Watchers,
             \/ claim_folders(w) \/ start(w) \/ PassDue(w) \/ Serve(w) \/ Reply(w) \/ Fail(w)
             \/ release(w) \/ stop(w) \/ unlink(w) \/ release_claim(w) \/ Exit(w) \/ Crash(w)
      PROVE  AllServed'
  BY <1>2, WatcherSteps, PassDueStep, ServeStep, AnswerSteps, StopStep, GoneStep
<1>3. ASSUME NEW c \in Commands, Begin(c) \/ Ask(c) \/ Steps(c) \/ Kill(c)
      PROVE  AllServed'
  BY <1>3, CommandSteps, CallStep, WorkStep, KillStep DEF Steps
<1> QED BY <1>1, <1>2, <1>3 DEF Next

(* A command waits at one watcher at a time and once, what it asked for is   *)
(* undone until it reaches the head of the queue there, and a pass stands at *)
(* most once in it (client.py:58-126, daemon.py:370-424).                    *)
THEOREM EverythingIsServedOnce == Spec => []AllServed
<1> QED BY AllServedAtFirst, AllServedSteps, PTL DEF Spec

(* Whoever holds the database, in whatever queue a command stands            *)
(* (client.py:58-243, daemon.py:370-424, db.py:401-424).                     *)
THEOREM TypesHold == Spec => []TypeOK
<1>1. AllServed => TypeOK
  BY DEF AllServed
<1> QED BY <1>1, EverythingIsServedOnce, PTL

(* What a command asks for is done once at most and it is told the truth of  *)
(* it, however many watchers start, stop and crash meanwhile                 *)
(* (client.py:58-126, daemon.py:370-424).                                    *)
THEOREM CommandsAreToldTheTruth == Spec => []ToldTheTruth
<1>1. AllServed => ToldTheTruth
  BY DEF AllServed, OnceAtMost
<1> QED BY <1>1, EverythingIsServedOnce, PTL

=============================================================================
