-------------------------- MODULE WatchLockProofs --------------------------
(* Machine-checked theorems about the claim protocol of WatchLock, for every *)
(* set of watchers, reporters, claims and inodes.                            *)
EXTENDS WatchLock, TLAPS

(* The constants' assumption, in the shape the proofs use it: a watcher's    *)
(* two claims are claims, and no input claim is a library claim.             *)
LEMMA ClaimsApart ==
  /\ \A w \in Watchers, k \in Kinds : ClaimAt(w, k) \in Claims
  /\ \A w \in Watchers : ClaimAt(w, 1) # ClaimAt(w, 2)
  /\ \A w \in Watchers : w # NoOne /\ w \notin Reporters
  BY ConstantsAssumption DEF ClaimAt, Kinds

(* Nothing is claimed, open or locked before the first watcher starts.      *)
LEMMA InitInductive == Init => Inductive
  BY ConstantsAssumption DEF Init, Inductive, TypeOK, SecuredIsPublished,
     Secured, DescriptorsInOrder, LocksAreHeld, OneNamePerInode, OpenedByItsName,
     Entries, Opened, IsCurrent, Ended, Places, Kinds

(* The helpers of the claim protocol keep the types of what they change.     *)
LEMMA CloseFdType ==
  ASSUME TypeOK, NEW w \in Watchers, NEW k \in Kinds, CloseFd(w, k)
  PROVE  /\ fd' \in [Watchers -> [Kinds -> Inodes \cup {NoInode}]]
         /\ lock' \in [Inodes -> Watchers \cup Reporters \cup {NoOne}]
  BY DEF TypeOK, CloseFd

(* The same of a refusal (claim, watchlock.py:108-110).                     *)
LEMMA RefuseType ==
  ASSUME TypeOK, NEW w \in Watchers, Refuse(w)
  PROVE  /\ tries' \in [Watchers -> 1..Attempts]
         /\ pc' \in [Watchers -> Places]
         /\ refused' \in [Watchers -> BOOLEAN]
  <1>1. pc' = [pc EXCEPT ![w] = "ended"] \/ pc' = [pc EXCEPT ![w] = "current"]
    BY DEF Refuse
  <1>2. pc' \in [Watchers -> Places]
    BY <1>1 DEF TypeOK, Places, Ended
  <1>3. QED
    BY <1>2 DEF TypeOK, Refuse

(* The same of another attempt, which there is not without end.             *)
LEMMA AgainType ==
  ASSUME TypeOK, NEW w \in Watchers, Again(w)
  PROVE  /\ tries' \in [Watchers -> 1..Attempts]
         /\ pc' \in [Watchers -> Places]
         /\ refused' \in [Watchers -> BOOLEAN]
  <1>1. CASE Refuse(w)
    BY <1>1, RefuseType
  <1>2. CASE ~Refuse(w)
    <2>1. tries[w] + 1 \in 1..Attempts
      BY <1>2, ConstantsAssumption DEF Again, TypeOK
    <2>2. QED
      BY ZenonT(40), <1>2, <2>1 DEF Again, TypeOK, Places
  <1>3. QED
    BY <1>1, <1>2

(* The same of an _acquire that returned.                                   *)
LEMMA AcquiredType ==
  ASSUME TypeOK, NEW w \in Watchers, Acquired(w)
  PROVE  /\ kind' \in [Watchers -> Kinds]
         /\ tries' \in [Watchers -> 1..Attempts]
         /\ pc' \in [Watchers -> Places]
  <1>1. 1 \in 1..Attempts /\ 2 \in Kinds
    BY ConstantsAssumption DEF Kinds
  <1>2. pc' = [pc EXCEPT ![w] = "create"] \/ pc' = [pc EXCEPT ![w] = "watching"]
    BY DEF Acquired
  <1>3. pc' \in [Watchers -> Places]
    BY <1>2 DEF TypeOK, Places
  <1>4. QED
    BY <1>1, <1>3 DEF Acquired, TypeOK

(* What a watcher runs into, whichever action it takes next: every variable  *)
(* keeps its type (all of watchlock.py).                                     *)
LEMMA TypeStep == TypeOK /\ [Next]_vars => TypeOK'
  <1> SUFFICES ASSUME TypeOK, [Next]_vars PROVE TypeOK'
    OBVIOUS
  <1> USE ConstantsAssumption
  <1> USE DEF TypeOK, Kinds, Places, Ended, probeVars
  <1>1. CASE UNCHANGED vars
    BY <1>1 DEF vars
  <1>2. ASSUME NEW w \in Watchers, Start(w) PROVE TypeOK'
    BY <1>2 DEF Start
  <1>3. ASSUME NEW w \in Watchers, Create(w) PROVE TypeOK'
    <2> USE <1>3 DEF Create
    <2>1. pc' \in [Watchers -> Places] /\ created' \in [Watchers -> BOOLEAN]
      OBVIOUS
    <2>2. /\ dir' \in [Claims -> Inodes \cup {NoInode}]
          /\ named' \in [Inodes -> Watchers \cup {NoOne}]
      <3>1. CASE UNCHANGED <<dir, named>>
        BY <3>1
      <3>2. ASSUME NEW i \in Inodes,
                   dir' = [dir EXCEPT ![Target(w)] = i],
                   named' = [named EXCEPT ![i] = w]
            PROVE  /\ dir' \in [Claims -> Inodes \cup {NoInode}]
                   /\ named' \in [Inodes -> Watchers \cup {NoOne}]
        BY <3>2
      <3>3. QED
        BY <3>1, <3>2
    <2>3. QED
      BY <2>1, <2>2
  <1>4. ASSUME NEW w \in Watchers, Open(w) PROVE TypeOK'
    <2> USE <1>4 DEF Open
    <2>1. fd' \in [Watchers -> [Kinds -> Inodes \cup {NoInode}]]
      <3>1. Target(w) \in Claims /\ kind[w] \in Kinds
        BY ClaimsApart DEF Target
      <3>2. dir[Target(w)] \in Inodes \cup {NoInode}
        BY <3>1
      <3>3. CASE fd' = [fd EXCEPT ![w][kind[w]] = dir[Target(w)]]
        <4> HIDE DEF Open
        <4> QED
          BY <3>1, <3>2, <3>3
      <3> QED
        BY <3>3
    <2>2. /\ tries' \in [Watchers -> 1..Attempts]
          /\ pc' \in [Watchers -> Places]
          /\ refused' \in [Watchers -> BOOLEAN]
      BY AgainType
    <2>3. QED
      BY <2>1, <2>2
  <1>5. ASSUME NEW w \in Watchers, Flock(w) PROVE TypeOK'
    <2>1. CASE lock[Opened(w)] = NoOne
      <3>1. lock' = [lock EXCEPT ![Opened(w)] = w]
        BY <1>5, <2>1 DEF Flock
      <3>2. lock' \in [Inodes -> Watchers \cup Reporters \cup {NoOne}]
        BY <3>1
      <3>3. QED
        BY <1>5, <2>1, <3>2 DEF Flock
    <2>2. CASE lock[Opened(w)] # NoOne
      BY <1>5, <2>2, CloseFdType, RefuseType DEF Flock
    <2>3. QED
      BY <2>1, <2>2
  <1>6. ASSUME NEW w \in Watchers, Check(w) PROVE TypeOK'
    <2>1. CASE ~IsCurrent(w, kind[w])
      BY <1>6, <2>1, CloseFdType, AgainType DEF Check
    <2>2. CASE IsCurrent(w, kind[w]) /\ created[w]
      BY <1>6, <2>2, AcquiredType DEF Check
    <2>3. CASE IsCurrent(w, kind[w]) /\ ~created[w]
      BY <1>6, <2>3 DEF Check
    <2>4. QED
      BY <2>1, <2>2, <2>3
  <1>7. ASSUME NEW w \in Watchers, Truncate(w) PROVE TypeOK'
    BY <1>7 DEF Truncate
  <1>8. ASSUME NEW w \in Watchers, Write(w) PROVE TypeOK'
    <2>1. named' \in [Inodes -> Watchers \cup {NoOne}]
      BY <1>8 DEF Write
    <2>2. QED
      BY <1>8, <2>1, AcquiredType DEF Write
  <1>9. ASSUME NEW w \in Watchers, Stop(w) PROVE TypeOK'
    BY <1>9 DEF Stop
  <1>10. ASSUME NEW w \in Watchers, ReleaseIsCurrent(w) PROVE TypeOK'
    BY <1>10 DEF ReleaseIsCurrent
  <1>11. ASSUME NEW w \in Watchers, ReleaseUnlink(w) PROVE TypeOK'
    BY <1>11, ClaimsApart DEF ReleaseUnlink, Entry
  <1>12. ASSUME NEW w \in Watchers, ReleaseClose(w) PROVE TypeOK'
    <2>1. Entry(w) \in Kinds
      BY DEF Entry
    <2>2. QED
      BY <1>12, <2>1 DEF ReleaseClose, CloseFd
  <1>13. ASSUME NEW w \in Watchers, Crash(w) PROVE TypeOK'
    BY <1>13 DEF Crash
  <1>14. ASSUME NEW r \in Reporters, ProbeOpen(r) PROVE TypeOK'
    BY <1>14 DEF ProbeOpen
  <1>15. ASSUME NEW r \in Reporters, ProbeFlock(r) PROVE TypeOK'
    <2>1. /\ probe' \in [Reporters -> Inodes \cup {NoInode}]
          /\ lock' \in [Inodes -> Watchers \cup Reporters \cup {NoOne}]
      <3>1. CASE UNCHANGED lock
        BY <1>15, <3>1 DEF ProbeFlock
      <3>2. CASE lock' = [lock EXCEPT ![probe[r]] = r] /\ UNCHANGED probe
        BY <1>15, <3>2 DEF ProbeFlock
      <3>3. QED
        BY <1>15, <3>1, <3>2 DEF ProbeFlock
    <2>2. answer' \in [Reporters -> {"none", "live", "abandoned"}]
      BY <1>15 DEF ProbeFlock
    <2>3. QED
      BY <1>15, <2>1, <2>2 DEF ProbeFlock
  <1>16. ASSUME NEW r \in Reporters, ProbeClose(r) PROVE TypeOK'
    BY <1>16 DEF ProbeClose
  <1>17. QED
    BY <1>1, <1>2, <1>3, <1>4, <1>5, <1>6, <1>7, <1>8, <1>9, <1>10, <1>11,
       <1>12, <1>13, <1>14, <1>15, <1>16 DEF Next, Step, Probe

(* Every variable of the protocol keeps its type, whatever the constants.    *)
THEOREM TypeCorrect == Spec => []TypeOK
  <1>1. Init => TypeOK
    BY InitInductive DEF Inductive
  <1>2. QED
    BY <1>1, TypeStep, PTL DEF Spec
(* A watcher past Open has an inode open for the claim it is acquiring, one  *)
(* before Open has none.                                                     *)
LEMMA OpenedInode ==
  ASSUME TypeOK, DescriptorsInOrder, NEW w \in Watchers
  PROVE  /\ pc[w] \in {"flock", "check", "truncate", "write"} => Opened(w) \in Inodes
         /\ pc[w] \in {"create", "open"}
              => /\ fd[w][kind[w]] = NoInode
                 /\ [fd[w] EXCEPT ![kind[w]] = NoInode] = fd[w]
  <1>1. fd[w] \in [Kinds -> Inodes \cup {NoInode}] /\ kind[w] \in Kinds
    BY DEF TypeOK
  <1>2. pc[w] \in {"create", "open"} => fd[w][kind[w]] = NoInode
    BY <1>1 DEF DescriptorsInOrder, Entries, Kinds
  <1>3. QED
    BY <1>1, <1>2 DEF DescriptorsInOrder, Opened

(* Starting a watcher keeps the inductive invariant.                        *)
LEMMA StartKeeps ==
  ASSUME Inductive, TypeOK', NEW w \in Watchers, Start(w)
  PROVE  Inductive'
  <1> USE ConstantsAssumption, ClaimsApart
  <1> USE DEF Inductive, TypeOK, Kinds, Ended, Start, probeVars
  <1>1. DescriptorsInOrder'
    BY DEF DescriptorsInOrder, Opened, Entries, SecuredIsPublished, Secured, IsCurrent, OneNamePerInode, Entry
  <1>2. LocksAreHeld'
    BY DEF LocksAreHeld, Opened, DescriptorsInOrder, Entries
  <1>3. OneNamePerInode'
    BY DEF OneNamePerInode
  <1>4. SecuredIsPublished'
    BY DEF SecuredIsPublished, Secured, IsCurrent, Entry, DescriptorsInOrder, LocksAreHeld, Opened, Entries
  <1>5. OpenedByItsName'
    BY DEF OpenedByItsName, IsCurrent, Entry, DescriptorsInOrder, Entries, OneNamePerInode, Opened
  <1>6. QED
    BY <1>1, <1>2, <1>3, <1>4, <1>5

(* _create links a fresh inode to a free name, or nothing.                  *)
LEMMA CreateKeeps ==
  ASSUME Inductive, TypeOK', NEW w \in Watchers, Create(w)
  PROVE  Inductive'
  <1> USE ConstantsAssumption, ClaimsApart
  <1> USE DEF Inductive, TypeOK, Kinds, Ended, Create, probeVars, Target, Free
  <1>1. DescriptorsInOrder'
    BY DEF DescriptorsInOrder, Opened, Entries, SecuredIsPublished, Secured, IsCurrent, OneNamePerInode, Entry
  <1>2. LocksAreHeld'
    BY DEF LocksAreHeld, Opened, DescriptorsInOrder, Entries
  <1>3. OneNamePerInode'
    BY SMTT(20) DEF OneNamePerInode
  <1>4. SecuredIsPublished'
    BY DEF SecuredIsPublished, Secured, IsCurrent, Entry, DescriptorsInOrder, LocksAreHeld, Opened, Entries
  <1>5. OpenedByItsName'
    BY DEF OpenedByItsName, IsCurrent, Entry, DescriptorsInOrder, Entries, OneNamePerInode, Opened
  <1>6. QED
    BY <1>1, <1>2, <1>3, <1>4, <1>5

(* What is opened is what the name leads to at that moment.                 *)
LEMMA OpenKeeps ==
  ASSUME Inductive, TypeOK', NEW w \in Watchers, Open(w)
  PROVE  Inductive'
  <1> USE ConstantsAssumption, ClaimsApart
  <1> USE DEF Inductive, TypeOK, Kinds, Ended, Open, probeVars, Target, Again, Refuse
  <1>1. DescriptorsInOrder'
    <2>1. CASE dir[Target(w)] # NoInode
      <3>1. fd[w][2] = NoInode /\ (kind[w] = 1 => fd[w][1] = NoInode)
        BY DEF DescriptorsInOrder, Entries
      <3>2. kind[w] = 2 => IsCurrent(w, 1) /\ fd[w][1] # NoInode
        BY DEF SecuredIsPublished, Secured
      <3>3. kind[w] = 2 => fd[w][1] # dir[Target(w)]
        BY <2>1, <3>2 DEF OneNamePerInode, IsCurrent
      <3>4. QED
        BY <2>1, <3>1, <3>2, <3>3 DEF DescriptorsInOrder, Opened, Entries
    <2>2. CASE dir[Target(w)] = NoInode
      <3>1. /\ UNCHANGED <<fd, kind>>
            /\ \A v \in Watchers \ {w} : pc'[v] = pc[v]
            /\ pc'[w] \in {"create", "ended", "current"}
            /\ pc'[w] = "ended" => Entries([fd[w] EXCEPT ![kind[w]] = NoInode]) = {}
            /\ pc'[w] = "current" => Entries([fd[w] EXCEPT ![kind[w]] = NoInode]) # {}
        BY ZenonT(40), <2>2
      <3>2. [fd[w] EXCEPT ![kind[w]] = NoInode] = fd[w]
        BY OpenedInode
      <3>3. QED
        BY <3>1, <3>2 DEF DescriptorsInOrder, Opened, Entries
    <2>3. QED
      BY <2>1, <2>2
  <1>2. LocksAreHeld'
    <2>1. fd[w][kind[w]] = NoInode
      BY SMTT(30) DEF DescriptorsInOrder, Entries
    <2>2. ASSUME NEW v \in Watchers, NEW k \in Kinds, fd[v][k] # NoInode
          PROVE  fd'[v][k] = fd[v][k]
      <3>1. CASE UNCHANGED fd
        BY <3>1
      <3>2. CASE fd' = [fd EXCEPT ![w][kind[w]] = dir[Target(w)]]
        BY <2>1, <2>2, <3>2
      <3>3. QED
        BY <3>1, <3>2
    <2>3. ASSUME NEW i \in Inodes, lock[i] \in Watchers
          PROVE  \E k \in Kinds : fd'[lock[i]][k] = i
      <3>1. PICK k \in Kinds : fd[lock[i]][k] = i
        BY <2>3 DEF LocksAreHeld
      <3>2. QED
        BY <2>2, <2>3, <3>1
    <2>4. ASSUME NEW v \in Watchers, pc'[v] \in {"check", "truncate", "write"}
          PROVE  v # w /\ pc'[v] = pc[v]
      BY <2>4
    <2>5. \A v \in Watchers : v # w => fd'[v] = fd[v] /\ kind'[v] = kind[v]
      OBVIOUS
    <2>6. UNCHANGED <<lock, probe, answer>>
      OBVIOUS
    <2>7. ASSUME pc'[w] = "flock"
          PROVE  lock'[Opened(w)'] # w
      <3>1. Opened(w)' = dir[Target(w)] /\ dir[Target(w)] \in Inodes
        BY <2>7 DEF Opened
      <3>2. ASSUME NEW k \in Kinds, fd[w][k] = dir[Target(w)]
            PROVE  FALSE
        BY <2>1, <3>1, <3>2 DEF OpenedByItsName
      <3>3. QED
        BY <2>6, <3>1, <3>2 DEF LocksAreHeld
    <2>8. \A v \in Watchers : v # w => pc'[v] = pc[v]
      OBVIOUS
    <2>9. ASSUME NEW v \in Watchers
          PROVE  /\ pc'[v] = "flock" => lock'[Opened(v)'] # v
                 /\ pc'[v] \in {"check", "truncate", "write"}
                      => lock'[Opened(v)'] = v
      BY SMTT(30), <2>4, <2>5, <2>6, <2>7, <2>8 DEF LocksAreHeld, Opened
    <2>10. QED
      BY <2>3, <2>6, <2>9 DEF LocksAreHeld
  <1>3. OneNamePerInode'
    BY DEF OneNamePerInode
  <1>4. SecuredIsPublished'
    <2>1. ASSUME NEW v \in Watchers, NEW k \in Kinds, Secured(v, k)'
          PROVE  Secured(v, k) /\ fd'[v][k] = fd[v][k]
      <3>1. CASE v = w
        BY <2>1, <3>1 DEF Secured, DescriptorsInOrder, Entries
      <3>2. CASE v # w
        BY <2>1, <3>2 DEF Secured, Entry
      <3>3. QED
        BY <3>1, <3>2
    <2>2. UNCHANGED <<dir, lock>>
      OBVIOUS
    <2>3. QED
      BY <2>1, <2>2 DEF SecuredIsPublished, IsCurrent
  <1>5. OpenedByItsName'
    <2>1. ASSUME NEW v \in Watchers, NEW k \in Kinds, NEW c \in Claims,
                 fd'[v][k] # NoInode, dir[c] = fd'[v][k]
          PROVE  c = ClaimAt(v, k)
      <3>1. CASE fd'[v][k] = fd[v][k]
        BY <2>1, <3>1 DEF OpenedByItsName
      <3>2. CASE fd'[v][k] # fd[v][k]
        <4>1. v = w /\ k = kind[w] /\ fd'[v][k] = dir[Target(w)]
          BY <3>2
        <4>2. QED
          BY <2>1, <4>1 DEF OneNamePerInode
      <3>3. QED
        BY <3>1, <3>2
    <2>2. ASSUME NEW v \in Watchers, pc'[v] = "close"
          PROVE  v # w /\ pc[v] = "close" /\ fd'[v] = fd[v]
      BY <2>2
    <2>3. UNCHANGED dir
      OBVIOUS
    <2>4. QED
      BY <2>1, <2>2, <2>3 DEF OpenedByItsName, IsCurrent, Entry
  <1>6. QED
    BY <1>1, <1>2, <1>3, <1>4, <1>5

(* A lock is taken on the inode just opened, or the claim is refused.       *)
LEMMA FlockKeeps ==
  ASSUME Inductive, TypeOK', NEW w \in Watchers, Flock(w)
  PROVE  Inductive'
  <1> USE ConstantsAssumption, ClaimsApart
  <1> USE DEF Inductive, TypeOK, Kinds, Ended, Flock, probeVars, CloseFd, Refuse
  <1>1. DescriptorsInOrder'
    <2>1. ASSUME NEW v \in Watchers \ {w}
          PROVE  /\ pc'[v] = pc[v] /\ kind'[v] = kind[v] /\ fd'[v] = fd[v]
      OBVIOUS
    <2>2. QED
      BY SMTT(30), <2>1 DEF DescriptorsInOrder, Opened, Entries
  <1>2. LocksAreHeld'
    <2>1. ASSUME NEW v \in Watchers, pc'[v] \in {"check", "truncate", "write"}
          PROVE  lock'[Opened(v)'] = v
      <3>1. CASE lock[Opened(w)] = NoOne
        <4>1. /\ lock' = [lock EXCEPT ![Opened(w)] = w]
              /\ UNCHANGED <<fd, kind>>
              /\ pc' = [pc EXCEPT ![w] = "check"]
          BY <3>1
        <4>2. Opened(w) \in Inodes
          BY OpenedInode
        <4>3. QED
          BY <2>1, <3>1, <4>1, <4>2, ClaimsApart DEF LocksAreHeld, Opened
      <3>2. CASE lock[Opened(w)] # NoOne
        <4>1. v # w /\ pc'[v] = pc[v] /\ fd'[v] = fd[v] /\ kind'[v] = kind[v]
          BY <2>1, <3>2
        <4>2. lock[Opened(v)] = v
          BY <2>1, <4>1 DEF LocksAreHeld
        <4>3. \A i \in Inodes : lock[i] # w => lock'[i] = lock[i]
          BY <3>2
        <4>4. Opened(v) \in Inodes
          BY <2>1, <4>1 DEF DescriptorsInOrder, Opened
        <4>5. QED
          BY <4>1, <4>2, <4>3, <4>4 DEF Opened
      <3>3. QED
        BY <3>1, <3>2
    <2>2. ASSUME NEW i \in Inodes, lock'[i] \in Watchers
          PROVE  \E k \in Kinds : fd'[lock'[i]][k] = i
      <3>1. CASE lock[Opened(w)] = NoOne
        BY <2>2, <3>1 DEF LocksAreHeld, Opened
      <3>2. CASE lock[Opened(w)] # NoOne
        <4>1. lock'[i] = lock[i] /\ ~ (i = fd[w][kind[w]] /\ lock[i] = w)
          BY <2>2, <3>2, ClaimsApart
        <4>2. \A v \in Watchers, k \in Kinds :
                 fd'[v][k] = IF v = w /\ k = kind[w] THEN NoInode ELSE fd[v][k]
          BY <3>2
        <4>3. PICK k \in Kinds : fd[lock[i]][k] = i
          BY <2>2, <4>1 DEF LocksAreHeld
        <4>4. QED
          BY <2>2, <4>1, <4>2, <4>3
      <3>3. QED
        BY <3>1, <3>2
    <2>3. ASSUME NEW r \in Reporters, probe[r] # NoInode, answer[r] = "abandoned"
          PROVE  lock'[probe[r]] = r
      BY <2>3 DEF LocksAreHeld, Opened
    <2>4. ASSUME NEW v \in Watchers, pc'[v] = "flock"
          PROVE  lock'[Opened(v)'] # v
      <3>1. v # w /\ pc[v] = "flock" /\ Opened(v)' = Opened(v) /\ Opened(v) \in Inodes
        BY <2>4, OpenedInode DEF Opened
      <3>2. lock[Opened(v)] # v
        BY <3>1 DEF LocksAreHeld
      <3>3. \A i \in Inodes : lock'[i] \in {lock[i], w, NoOne}
        OBVIOUS
      <3>4. QED
        BY <3>1, <3>2, <3>3
    <2>5. UNCHANGED <<probe, answer>>
      OBVIOUS
    <2>6. QED
      BY <2>1, <2>2, <2>3, <2>4, <2>5 DEF LocksAreHeld
  <1>3. OneNamePerInode'
    BY DEF OneNamePerInode
  <1>4. SecuredIsPublished'
    BY DEF SecuredIsPublished, Secured, IsCurrent, Entry, DescriptorsInOrder, LocksAreHeld, Opened, Entries
  <1>5. OpenedByItsName'
    <2>1. ASSUME NEW v \in Watchers, NEW k \in Kinds
          PROVE  fd'[v][k] \in {fd[v][k], NoInode}
      BY SMTT(30)
    <2>2. ASSUME NEW v \in Watchers, pc'[v] = "close"
          PROVE  v # w /\ pc[v] = "close" /\ fd'[v] = fd[v]
      BY <2>2
    <2>3. UNCHANGED dir
      OBVIOUS
    <2>4. QED
      BY <2>1, <2>2, <2>3 DEF OpenedByItsName, IsCurrent, Entry
  <1>6. QED
    BY <1>1, <1>2, <1>3, <1>4, <1>5

(* The inode check is what turns a held lock into a secured claim.          *)
LEMMA CheckKeeps ==
  ASSUME Inductive, TypeOK', NEW w \in Watchers, Check(w)
  PROVE  Inductive'
  <1> USE ConstantsAssumption, ClaimsApart
  <1> USE DEF Inductive, TypeOK, Kinds, Ended, Check, probeVars, Target, CloseFd, Again, Refuse, Acquired
  <1>1. DescriptorsInOrder'
    <2>1. ASSUME NEW v \in Watchers \ {w}
          PROVE  /\ pc'[v] = pc[v] /\ kind'[v] = kind[v] /\ fd'[v] = fd[v]
      OBVIOUS
    <2>2. QED
      BY <2>1 DEF DescriptorsInOrder, Opened, Entries
  <1>2. LocksAreHeld'
    <2>1. ASSUME NEW v \in Watchers, pc'[v] \in {"check", "truncate", "write"}
          PROVE  lock'[Opened(v)'] = v
      <3>1. CASE ~IsCurrent(w, kind[w])
        <4>1. v # w /\ pc'[v] = pc[v] /\ fd'[v] = fd[v] /\ kind'[v] = kind[v]
          BY <2>1, <3>1
        <4>2. lock[Opened(v)] = v /\ Opened(v) \in Inodes
          BY <2>1, <4>1 DEF LocksAreHeld, DescriptorsInOrder, Opened
        <4>3. \A i \in Inodes : lock[i] # w => lock'[i] = lock[i]
          BY <3>1
        <4>4. QED
          BY <4>1, <4>2, <4>3 DEF Opened
      <3>2. CASE IsCurrent(w, kind[w])
        <4>1. /\ UNCHANGED <<lock, fd>>
              /\ \A u \in Watchers \ {w} : pc'[u] = pc[u] /\ kind'[u] = kind[u]
              /\ v = w => UNCHANGED kind
          BY <2>1, <3>2
        <4>2. QED
          BY <2>1, <4>1 DEF LocksAreHeld, Opened
      <3>3. QED
        BY <3>1, <3>2
    <2>2. ASSUME NEW i \in Inodes, lock'[i] \in Watchers
          PROVE  \E k \in Kinds : fd'[lock'[i]][k] = i
      BY <2>2 DEF LocksAreHeld, Opened
    <2>3. ASSUME NEW r \in Reporters, probe[r] # NoInode, answer[r] = "abandoned"
          PROVE  lock'[probe[r]] = r
      BY <2>3 DEF LocksAreHeld, Opened
    <2>4. ASSUME NEW v \in Watchers, pc'[v] = "flock"
          PROVE  lock'[Opened(v)'] # v
      <3>1. v # w /\ pc[v] = "flock" /\ Opened(v)' = Opened(v) /\ Opened(v) \in Inodes
        BY <2>4, OpenedInode DEF Opened
      <3>2. lock[Opened(v)] # v
        BY <3>1 DEF LocksAreHeld
      <3>3. \A i \in Inodes : lock'[i] \in {lock[i], w, NoOne}
        OBVIOUS
      <3>4. QED
        BY <3>1, <3>2, <3>3
    <2>5. UNCHANGED <<probe, answer>>
      OBVIOUS
    <2>6. QED
      BY <2>1, <2>2, <2>3, <2>4, <2>5 DEF LocksAreHeld
  <1>3. OneNamePerInode'
    BY DEF OneNamePerInode
  <1>4. SecuredIsPublished'
    BY DEF SecuredIsPublished, Secured, IsCurrent, Entry, DescriptorsInOrder, LocksAreHeld, Opened, Entries
  <1>5. OpenedByItsName'
    <2>1. ASSUME NEW v \in Watchers, NEW k \in Kinds
          PROVE  fd'[v][k] \in {fd[v][k], NoInode}
      <3>1. CASE UNCHANGED fd
        BY <3>1
      <3>2. CASE fd' = [fd EXCEPT ![w][kind[w]] = NoInode]
        BY <3>2
      <3>3. QED
        BY <3>1, <3>2
    <2>2. ASSUME NEW v \in Watchers, pc'[v] = "close"
          PROVE  v # w /\ pc[v] = "close" /\ fd'[v] = fd[v]
      BY <2>2
    <2>3. UNCHANGED dir
      OBVIOUS
    <2>4. QED
      BY <2>1, <2>2, <2>3 DEF OpenedByItsName, IsCurrent, Entry
  <1>6. QED
    BY <1>1, <1>2, <1>3, <1>4, <1>5

(* A takeover changes payloads, not claims ...                              *)
LEMMA TruncateKeeps ==
  ASSUME Inductive, TypeOK', NEW w \in Watchers, Truncate(w)
  PROVE  Inductive'
  <1> USE ConstantsAssumption, ClaimsApart
  <1> USE DEF Inductive, TypeOK, Kinds, Ended, Truncate, probeVars
  <1>1. DescriptorsInOrder'
    BY DEF DescriptorsInOrder, Opened, Entries, SecuredIsPublished, Secured, IsCurrent, OneNamePerInode, Entry
  <1>2. LocksAreHeld'
    BY DEF LocksAreHeld, Opened, DescriptorsInOrder, Entries
  <1>3. OneNamePerInode'
    BY DEF OneNamePerInode
  <1>4. SecuredIsPublished'
    BY DEF SecuredIsPublished, Secured, IsCurrent, Entry, DescriptorsInOrder, LocksAreHeld, Opened, Entries
  <1>5. OpenedByItsName'
    BY DEF OpenedByItsName, IsCurrent, Entry, DescriptorsInOrder, Entries, OneNamePerInode, Opened
  <1>6. QED
    BY <1>1, <1>2, <1>3, <1>4, <1>5

(* ... and secures the claim it took over.                                  *)
LEMMA WriteKeeps ==
  ASSUME Inductive, TypeOK', NEW w \in Watchers, Write(w)
  PROVE  Inductive'
  <1> USE ConstantsAssumption, ClaimsApart
  <1> USE DEF Inductive, TypeOK, Kinds, Ended, Write, probeVars, Acquired
  <1>1. DescriptorsInOrder'
    BY DEF DescriptorsInOrder, Opened, Entries, SecuredIsPublished, Secured, IsCurrent, OneNamePerInode, Entry
  <1>2. LocksAreHeld'
    BY DEF LocksAreHeld, Opened, DescriptorsInOrder, Entries
  <1>3. OneNamePerInode'
    BY DEF OneNamePerInode
  <1>4. SecuredIsPublished'
    BY DEF SecuredIsPublished, Secured, IsCurrent, Entry, DescriptorsInOrder, LocksAreHeld, Opened, Entries
  <1>5. OpenedByItsName'
    BY DEF OpenedByItsName, IsCurrent, Entry, DescriptorsInOrder, Entries, OneNamePerInode, Opened
  <1>6. QED
    BY <1>1, <1>2, <1>3, <1>4, <1>5

(* A watcher that leaves its loop still holds all it had.                   *)
LEMMA StopKeeps ==
  ASSUME Inductive, TypeOK', NEW w \in Watchers, Stop(w)
  PROVE  Inductive'
  <1> USE ConstantsAssumption, ClaimsApart
  <1> USE DEF Inductive, TypeOK, Kinds, Ended, Stop, probeVars
  <1>1. DescriptorsInOrder'
    BY DEF DescriptorsInOrder, Opened, Entries, SecuredIsPublished, Secured, IsCurrent, OneNamePerInode, Entry
  <1>2. LocksAreHeld'
    BY DEF LocksAreHeld, Opened, DescriptorsInOrder, Entries
  <1>3. OneNamePerInode'
    BY DEF OneNamePerInode
  <1>4. SecuredIsPublished'
    BY DEF SecuredIsPublished, Secured, IsCurrent, Entry, DescriptorsInOrder, LocksAreHeld, Opened, Entries
  <1>5. OpenedByItsName'
    BY DEF OpenedByItsName, IsCurrent, Entry, DescriptorsInOrder, Entries, OneNamePerInode, Opened
  <1>6. QED
    BY <1>1, <1>2, <1>3, <1>4, <1>5

(* Whether a name is still ours does not change between look and unlink.    *)
LEMMA ReleaseIsCurrentKeeps ==
  ASSUME Inductive, TypeOK', NEW w \in Watchers, ReleaseIsCurrent(w)
  PROVE  Inductive'
  <1> USE ConstantsAssumption, ClaimsApart
  <1> USE DEF Inductive, TypeOK, Kinds, Ended, ReleaseIsCurrent, probeVars, Entry
  <1>1. DescriptorsInOrder'
    BY DEF DescriptorsInOrder, Opened, Entries, SecuredIsPublished, Secured, IsCurrent, OneNamePerInode, Entry
  <1>2. LocksAreHeld'
    BY DEF LocksAreHeld, Opened, DescriptorsInOrder, Entries
  <1>3. OneNamePerInode'
    BY DEF OneNamePerInode
  <1>4. SecuredIsPublished'
    BY DEF SecuredIsPublished, Secured, IsCurrent, Entry, DescriptorsInOrder, LocksAreHeld, Opened, Entries
  <1>5. OpenedByItsName'
    BY DEF OpenedByItsName, IsCurrent, Entry, DescriptorsInOrder, Entries, OneNamePerInode, Opened
  <1>6. QED
    BY <1>1, <1>2, <1>3, <1>4, <1>5

(* Only a name that leads to our own inode is removed.                      *)
LEMMA ReleaseUnlinkKeeps ==
  ASSUME Inductive, TypeOK', NEW w \in Watchers, ReleaseUnlink(w)
  PROVE  Inductive'
  <1> USE ConstantsAssumption, ClaimsApart
  <1> USE DEF Inductive, TypeOK, Kinds, Ended, ReleaseUnlink, probeVars, Entry
  <1>1. DescriptorsInOrder'
    BY DEF DescriptorsInOrder, Opened, Entries, SecuredIsPublished, Secured, IsCurrent, OneNamePerInode, Entry
  <1>2. LocksAreHeld'
    BY DEF LocksAreHeld, Opened, DescriptorsInOrder, Entries
  <1>3. OneNamePerInode'
    BY DEF OneNamePerInode
  <1>4. SecuredIsPublished'
    <2>1. fd[w][Entry(w)] # NoInode /\ Entry(w) \in Kinds
      BY DEF DescriptorsInOrder, Entries
    <2>2. IsCurrent(w, Entry(w)) /\ lock[fd[w][Entry(w)]] = w
      BY <2>1 DEF SecuredIsPublished, Secured
    <2>3. ASSUME NEW v \in Watchers, NEW k \in Kinds, Secured(v, k)'
          PROVE  Secured(v, k) /\ ClaimAt(v, k) # ClaimAt(w, Entry(w))
      <3>1. Secured(v, k)
        BY <2>3 DEF Secured
      <3>2. CASE v = w
        BY <2>3, <3>1, <3>2 DEF Secured
      <3>3. CASE v # w
        BY <2>2, <3>1, <3>3 DEF SecuredIsPublished, IsCurrent
      <3>4. QED
        BY <3>1, <3>2, <3>3
    <2>4. QED
      BY <2>3 DEF SecuredIsPublished, IsCurrent
  <1>5. OpenedByItsName'
    BY DEF OpenedByItsName, IsCurrent, Entry, DescriptorsInOrder, Entries, OneNamePerInode, Opened
  <1>6. QED
    BY <1>1, <1>2, <1>3, <1>4, <1>5

(* A lock is dropped once no name leads to its inode.                       *)
LEMMA ReleaseCloseKeeps ==
  ASSUME Inductive, TypeOK', NEW w \in Watchers, ReleaseClose(w)
  PROVE  Inductive'
  <1> USE ConstantsAssumption, ClaimsApart
  <1> USE DEF Inductive, TypeOK, Kinds, Ended, ReleaseClose, probeVars, Entry, CloseFd
  <1>1. DescriptorsInOrder'
    BY DEF DescriptorsInOrder, Opened, Entries, SecuredIsPublished, Secured, IsCurrent, OneNamePerInode, Entry
  <1>a. \A v \in Watchers :
          v # w => fd'[v] = fd[v] /\ pc'[v] = pc[v] /\ Opened(v)' = Opened(v)
    BY DEF Opened
  <1>b. pc'[w] \in {"ended", "current"}
    OBVIOUS
  <1>c. \A i \in Inodes : lock'[i] = IF i = fd[w][Entry(w)] /\ lock[i] = w
                                   THEN NoOne ELSE lock[i]
    OBVIOUS
  <1>d. \A v \in Watchers :
          pc[v] \in {"flock", "check", "truncate", "write"} => Opened(v) \in Inodes
    BY DEF DescriptorsInOrder, Opened
  <1>2. LocksAreHeld'
    <2>1. \A v \in Watchers : pc'[v] = "flock" => lock'[Opened(v)'] # v
      <3> HIDE DEF ReleaseClose, TypeOK, Inductive
      <3> SUFFICES ASSUME NEW v \in Watchers, v # w, pc[v] = "flock"
                   PROVE  lock'[Opened(v)] # v
        BY <1>a, <1>b
      <3>1. lock[Opened(v)] # v
        BY DEF LocksAreHeld, Inductive
      <3>2. v # NoOne
        BY ConstantsAssumption
      <3> QED
        BY <1>c, <1>d, <3>1, <3>2
    <2>2. \A v \in Watchers :
            pc'[v] \in {"check", "truncate", "write"} => lock'[Opened(v)'] = v
      <3> HIDE DEF ReleaseClose, TypeOK, Inductive
      <3> SUFFICES ASSUME NEW v \in Watchers, v # w,
                          pc[v] \in {"check", "truncate", "write"}
                   PROVE  lock'[Opened(v)] = v
        BY <1>a, <1>b
      <3>1. lock[Opened(v)] = v
        BY DEF LocksAreHeld, Inductive
      <3> QED
        BY <1>c, <1>d, <3>1
    <2>3. \A i \in Inodes :
            lock'[i] \in Watchers => \E k \in Kinds : fd'[lock'[i]][k] = i
      <3> SUFFICES ASSUME NEW i \in Inodes, lock'[i] \in Watchers
                   PROVE  \E k \in Kinds : fd'[lock'[i]][k] = i
        OBVIOUS
      <3>1. lock'[i] = lock[i] /\ (lock[i] = w => i # fd[w][Entry(w)])
        BY <1>c
      <3>2. PICK k \in Kinds : fd[lock[i]][k] = i
        BY <3>1 DEF LocksAreHeld
      <3>3. CASE lock[i] # w
        BY <1>a, <3>1, <3>2, <3>3
      <3>4. CASE lock[i] = w
        <4>1. k # Entry(w)
          BY <3>1, <3>2, <3>4
        <4>2. fd'[w][k] = fd[w][k]
          BY <4>1
        <4> QED
          BY <3>1, <3>2, <3>4, <4>2
      <3> QED
        BY <3>3, <3>4
    <2>4. \A r \in Reporters :
            probe'[r] # NoInode /\ answer'[r] = "abandoned" => lock'[probe'[r]] = r
      <3>1. UNCHANGED <<probe, answer>>
        OBVIOUS
      <3> SUFFICES ASSUME NEW r \in Reporters, probe[r] # NoInode,
                          answer[r] = "abandoned"
                   PROVE  lock'[probe[r]] = r
        BY <3>1
      <3>2. lock[probe[r]] = r /\ probe[r] \in Inodes
        BY DEF LocksAreHeld
      <3>3. r # w
        BY ConstantsAssumption
      <3> HIDE DEF ReleaseClose, TypeOK, Inductive
      <3> QED
        BY <1>c, <3>2, <3>3
    <2>5. LocksAreHeld' <=>
            /\ \A v \in Watchers :
                 /\ pc'[v] = "flock" => lock'[Opened(v)'] # v
                 /\ pc'[v] \in {"check", "truncate", "write"}
                      => lock'[Opened(v)'] = v
            /\ \A i \in Inodes :
                 lock'[i] \in Watchers => \E k \in Kinds : fd'[lock'[i]][k] = i
            /\ \A r \in Reporters :
                 probe'[r] # NoInode /\ answer'[r] = "abandoned"
                   => lock'[probe'[r]] = r
      BY Zenon DEF LocksAreHeld
    <2> QED
      BY Zenon, <2>1, <2>2, <2>3, <2>4, <2>5
  <1>3. OneNamePerInode'
    BY DEF OneNamePerInode
  <1>4. SecuredIsPublished'
    BY DEF SecuredIsPublished, Secured, IsCurrent, Entry, DescriptorsInOrder, LocksAreHeld, Opened, Entries
  <1>5. OpenedByItsName'
    BY DEF OpenedByItsName, IsCurrent, Entry, DescriptorsInOrder, Entries, OneNamePerInode, Opened
  <1>6. QED
    BY <1>1, <1>2, <1>3, <1>4, <1>5

(* What a dead watcher held is held by nobody; the names stay.              *)
LEMMA CrashKeeps ==
  ASSUME Inductive, TypeOK', NEW w \in Watchers, Crash(w)
  PROVE  Inductive'
  <1> USE ConstantsAssumption, ClaimsApart
  <1> USE DEF Inductive, TypeOK, Kinds, Ended, Crash, probeVars
  <1>1. DescriptorsInOrder'
    BY DEF DescriptorsInOrder, Opened, Entries, SecuredIsPublished, Secured, IsCurrent, OneNamePerInode, Entry
  <1>a. \A v \in Watchers : v # w => fd'[v] = fd[v] /\ pc'[v] = pc[v]
    OBVIOUS
  <1>b. pc'[w] = "dead"
    OBVIOUS
  <1>c. \A i \in Inodes : lock'[i] = IF lock[i] = w THEN NoOne ELSE lock[i]
    OBVIOUS
  <1>2. LocksAreHeld'
    <2> USE <1>a, <1>b, <1>c
    <2>0. \A v \in Watchers :
            pc[v] \in {"flock", "check", "truncate", "write"} => Opened(v) \in Inodes
      BY DEF DescriptorsInOrder, Opened
    <2>a. \A v \in Watchers : v # w => Opened(v)' = Opened(v)
      BY DEF Opened
    <2>b. \A v \in Watchers : v # NoOne
      BY ConstantsAssumption
    <2>1. \A v \in Watchers : pc'[v] = "flock" => lock'[Opened(v)'] # v
      <3> SUFFICES ASSUME NEW v \in Watchers, v # w, pc[v] = "flock"
                   PROVE  lock'[Opened(v)] # v
        BY <2>a
      <3>1. lock[Opened(v)] # v
        BY DEF LocksAreHeld
      <3> HIDE DEF Crash, TypeOK, Inductive
      <3> QED
        BY <1>c, <2>0, <2>b, <3>1
    <2>4. \A v \in Watchers :
            pc'[v] \in {"check", "truncate", "write"} => lock'[Opened(v)'] = v
      <3> SUFFICES ASSUME NEW v \in Watchers, v # w,
                          pc[v] \in {"check", "truncate", "write"}
                   PROVE  lock'[Opened(v)] = v
        BY <2>a
      <3>1. lock[Opened(v)] = v
        BY DEF LocksAreHeld
      <3> HIDE DEF Crash, TypeOK, Inductive
      <3> QED
        BY <1>c, <2>0, <3>1
    <2>2. \A i \in Inodes :
            lock'[i] \in Watchers => \E k \in Kinds : fd'[lock'[i]][k] = i
      BY DEF LocksAreHeld
    <2>3. \A r \in Reporters :
            probe'[r] # NoInode /\ answer'[r] = "abandoned" => lock'[probe'[r]] = r
      <3>1. UNCHANGED <<probe, answer>>
        OBVIOUS
      <3> SUFFICES ASSUME NEW r \in Reporters, probe[r] # NoInode,
                          answer[r] = "abandoned"
                   PROVE  lock'[probe[r]] = r
        BY <3>1
      <3>2. lock[probe[r]] = r /\ probe[r] \in Inodes
        BY DEF LocksAreHeld
      <3>3. r # w
        BY ConstantsAssumption
      <3> HIDE DEF Crash, TypeOK, Inductive
      <3> QED
        BY <1>c, <3>2, <3>3
    <2> HIDE DEF Crash, TypeOK, Inductive
    <2>5. LocksAreHeld' <=>
            /\ \A v \in Watchers :
                 /\ pc'[v] = "flock" => lock'[Opened(v)'] # v
                 /\ pc'[v] \in {"check", "truncate", "write"}
                      => lock'[Opened(v)'] = v
            /\ \A i \in Inodes :
                 lock'[i] \in Watchers => \E k \in Kinds : fd'[lock'[i]][k] = i
            /\ \A r \in Reporters :
                 probe'[r] # NoInode /\ answer'[r] = "abandoned"
                   => lock'[probe'[r]] = r
      BY Zenon DEF LocksAreHeld
    <2> QED
      BY Zenon, <2>1, <2>2, <2>3, <2>4, <2>5
  <1>3. OneNamePerInode'
    BY DEF OneNamePerInode
  <1>4. SecuredIsPublished'
    BY DEF SecuredIsPublished, Secured, IsCurrent, Entry, DescriptorsInOrder, LocksAreHeld, Opened, Entries
  <1>5. OpenedByItsName'
    BY DEF OpenedByItsName, IsCurrent, Entry, DescriptorsInOrder, Entries, OneNamePerInode, Opened
  <1>6. QED
    BY <1>1, <1>2, <1>3, <1>4, <1>5

(* A probe opens a file no watcher is disturbed by ...                      *)
LEMMA ProbeOpenKeeps ==
  ASSUME Inductive, TypeOK', NEW r \in Reporters, ProbeOpen(r)
  PROVE  Inductive'
  <1> USE ConstantsAssumption, ClaimsApart
  <1> USE DEF Inductive, TypeOK, Kinds, Ended, ProbeOpen, probeVars
  <1>1. DescriptorsInOrder'
    BY DEF DescriptorsInOrder, Opened, Entries, SecuredIsPublished, Secured, IsCurrent, OneNamePerInode, Entry
  <1>2. LocksAreHeld'
    BY DEF LocksAreHeld, Opened, DescriptorsInOrder, Entries
  <1>3. OneNamePerInode'
    BY DEF OneNamePerInode
  <1>4. SecuredIsPublished'
    BY DEF SecuredIsPublished, Secured, IsCurrent, Entry, DescriptorsInOrder, LocksAreHeld, Opened, Entries
  <1>5. OpenedByItsName'
    BY DEF OpenedByItsName, IsCurrent, Entry, DescriptorsInOrder, Entries, OneNamePerInode, Opened
  <1>6. QED
    BY <1>1, <1>2, <1>3, <1>4, <1>5

(* ... takes its lock when nobody has it ...                                *)
LEMMA ProbeFlockKeeps ==
  ASSUME Inductive, TypeOK', NEW r \in Reporters, ProbeFlock(r)
  PROVE  Inductive'
  <1> USE ConstantsAssumption, ClaimsApart
  <1> USE DEF Inductive, TypeOK, Kinds, Ended, ProbeFlock, probeVars
  <1>1. DescriptorsInOrder'
    BY DEF DescriptorsInOrder, Opened, Entries, SecuredIsPublished, Secured, IsCurrent, OneNamePerInode, Entry
  <1>2. LocksAreHeld'
    <2>1. CASE lock[probe[r]] = NoOne
      <3>1. lock' = [lock EXCEPT ![probe[r]] = r] /\ UNCHANGED <<probe, fd, pc, kind>>
        BY <2>1
      <3>2. ASSUME NEW q \in Reporters, probe'[q] # NoInode, answer'[q] = "abandoned"
            PROVE  lock'[probe'[q]] = q
        BY <2>1, <3>1, <3>2 DEF LocksAreHeld
      <3>3. QED
        BY <2>1, <3>1, <3>2 DEF LocksAreHeld, Opened
    <2>2. CASE lock[probe[r]] # NoOne
      BY <2>2 DEF LocksAreHeld, Opened
    <2>3. QED
      BY <2>1, <2>2
  <1>3. OneNamePerInode'
    BY DEF OneNamePerInode
  <1>4. SecuredIsPublished'
    BY DEF SecuredIsPublished, Secured, IsCurrent, Entry, DescriptorsInOrder, LocksAreHeld, Opened, Entries
  <1>5. OpenedByItsName'
    BY DEF OpenedByItsName, IsCurrent, Entry, DescriptorsInOrder, Entries, OneNamePerInode, Opened
  <1>6. QED
    BY <1>1, <1>2, <1>3, <1>4, <1>5

(* ... and gives that lock back.                                            *)
LEMMA ProbeCloseKeeps ==
  ASSUME Inductive, TypeOK', NEW r \in Reporters, ProbeClose(r)
  PROVE  Inductive'
  <1> USE ConstantsAssumption, ClaimsApart
  <1> USE DEF Inductive, TypeOK, Kinds, Ended, ProbeClose, probeVars
  <1>1. DescriptorsInOrder'
    BY DEF DescriptorsInOrder, Opened, Entries, SecuredIsPublished, Secured, IsCurrent, OneNamePerInode, Entry
  <1>2. LocksAreHeld'
    BY DEF LocksAreHeld, Opened, DescriptorsInOrder, Entries
  <1>3. OneNamePerInode'
    BY DEF OneNamePerInode
  <1>4. SecuredIsPublished'
    BY DEF SecuredIsPublished, Secured, IsCurrent, Entry, DescriptorsInOrder, LocksAreHeld, Opened, Entries
  <1>5. OpenedByItsName'
    BY DEF OpenedByItsName, IsCurrent, Entry, DescriptorsInOrder, Entries, OneNamePerInode, Opened
  <1>6. QED
    BY <1>1, <1>2, <1>3, <1>4, <1>5

(* So every step of the protocol keeps the inductive invariant.             *)
LEMMA NextKeeps == Inductive /\ [Next]_vars => Inductive'
  <1> SUFFICES ASSUME Inductive, [Next]_vars PROVE Inductive'
    OBVIOUS
  <1>1. TypeOK'
    BY TypeStep DEF Inductive
  <1>2. CASE UNCHANGED vars
    BY <1>2 DEF vars, Inductive, TypeOK, SecuredIsPublished, Secured, IsCurrent,
       DescriptorsInOrder, LocksAreHeld, OneNamePerInode, OpenedByItsName, Entries,
       Opened, Entry
  <1>3. ASSUME NEW w \in Watchers, Start(w) \/ Step(w) \/ Stop(w) \/ Crash(w)
        PROVE  Inductive'
    BY <1>1, <1>3, StartKeeps, CreateKeeps, OpenKeeps, FlockKeeps, CheckKeeps,
       TruncateKeeps, WriteKeeps, StopKeeps, ReleaseIsCurrentKeeps,
       ReleaseUnlinkKeeps, ReleaseCloseKeeps, CrashKeeps DEF Step
  <1>4. ASSUME NEW r \in Reporters, Probe(r)
        PROVE  Inductive'
    BY <1>1, <1>4, ProbeOpenKeeps, ProbeFlockKeeps, ProbeCloseKeeps DEF Probe
  <1>5. QED
    BY <1>2, <1>3, <1>4 DEF Next

(* The protocol's inductive invariant holds in every reachable state: what a *)
(* watcher has secured stays published and locked by it.                     *)
THEOREM InductiveHolds == Spec => []Inductive
  BY InitInductive, NextKeeps, PTL DEF Spec

(* No two running watchers share an input folder or a library, however many  *)
(* watchers and reporters there are and wherever any of them crashes         *)
(* (watchlock.py:3-12).                                                      *)
THEOREM Exclusion == Spec => []ExclusiveFolders
  <1>1. Inductive => ExclusiveFolders
    <2> SUFFICES ASSUME Inductive, NEW v \in Watchers, NEW w \in Watchers, v # w,
                        pc[v] = "watching", pc[w] = "watching", NEW k \in Kinds
                 PROVE  ClaimOf[v][k] # ClaimOf[w][k]
      BY DEF ExclusiveFolders
    <2>1. /\ dir[ClaimOf[v][k]] = fd[v][k] /\ lock[fd[v][k]] = v
          /\ dir[ClaimOf[w][k]] = fd[w][k] /\ lock[fd[w][k]] = w
      BY DEF Inductive, SecuredIsPublished, Secured, IsCurrent, ClaimAt
    <2>2. QED
      BY <2>1
  <1>2. QED
    BY <1>1, InductiveHolds, PTL

(* A lock that changes hands while its holder lives was on an inode no name  *)
(* leads to any more.                                                        *)
LEMMA GivenUpIsUnlinked ==
  ASSUME Inductive, [Next]_vars, NEW w \in Watchers, NEW i \in Inodes,
         lock[i] = w, lock'[i] # w, pc'[w] # "dead"
  PROVE  \A c \in Claims : dir'[c] # i
  <1> USE ConstantsAssumption, ClaimsApart DEF Inductive, TypeOK
  <1>1. CASE Flock(w)
    <2>1. i = Opened(w)
      BY <1>1 DEF Flock, CloseFd, Opened
    <2>2. QED
      BY <1>1, <2>1 DEF LocksAreHeld, Flock
  <1>2. CASE Check(w)
    <2>1. i = Opened(w) /\ ~IsCurrent(w, kind[w])
      BY <1>2 DEF Check, CloseFd, Opened
    <2>2. QED
      BY <1>2, <2>1 DEF OpenedByItsName, IsCurrent, Opened, Check
  <1>3. CASE ReleaseClose(w)
    <2>1. Entry(w) \in Kinds /\ i = fd[w][Entry(w)]
      BY <1>3 DEF ReleaseClose, CloseFd, Entry, Kinds
    <2>2. ~IsCurrent(w, Entry(w)) /\ dir' = dir
      BY <1>3 DEF OpenedByItsName, ReleaseClose
    <2>3. \A c \in Claims : dir[c] = i => c = ClaimAt(w, Entry(w))
      BY <2>1 DEF OpenedByItsName
    <2>4. QED
      BY <2>1, <2>2, <2>3 DEF IsCurrent
  <1>4. ASSUME NEW v \in Watchers, v # w, Flock(v) \/ Check(v) \/ ReleaseClose(v)
        PROVE  FALSE
    BY <1>4 DEF Flock, Check, ReleaseClose, CloseFd
  <1>5. ASSUME NEW v \in Watchers, Crash(v)
        PROVE  FALSE
    BY <1>5 DEF Crash
  <1>6. ASSUME NEW r \in Reporters, Probe(r)
        PROVE  FALSE
    BY <1>6 DEF Probe, ProbeOpen, ProbeFlock, ProbeClose, LocksAreHeld
  <1>7. ASSUME NEW v \in Watchers,
               \/ Start(v) \/ Create(v) \/ Open(v) \/ Truncate(v) \/ Write(v)
               \/ ReleaseIsCurrent(v) \/ ReleaseUnlink(v) \/ Stop(v)
        PROVE  FALSE
    BY <1>7 DEF Start, Create, Open, Truncate, Write, ReleaseIsCurrent,
                ReleaseUnlink, Stop
  <1>8. CASE UNCHANGED vars
    BY <1>8 DEF vars
  <1>9. QED
    BY <1>1, <1>2, <1>3, <1>4, <1>5, <1>6, <1>7, <1>8 DEF Next, Step

(* A process that gives up a lock without dying has already removed the name *)
(* it protected, so it leaves no claim that looks abandoned                  *)
(* (watchlock.py:79-81).                                                     *)
THEOREM NothingLeft == Spec => NothingLeftUnlocked
  <1>1. Inductive /\ [Next]_vars
          => \A w \in Watchers, i \in Inodes :
               lock[i] = w /\ lock'[i] # w /\ pc'[w] # "dead"
                 => \A c \in Claims : dir'[c] # i
    BY GivenUpIsUnlinked
  <1>2. QED
    BY <1>1, InductiveHolds, PTL DEF NothingLeftUnlocked, Spec

----------------------------------------------------------------------------
(* Refinement: the abstract claims change as FolderClaims allows.            *)

(* Closing an inode that its claim's name no longer leads to changes no      *)
(* owner.                                                                    *)
LEMMA CloseKeepsOwners ==
  ASSUME Inductive, NEW w \in Watchers, NEW k \in Kinds,
         fd[w][k] # NoInode, CloseFd(w, k), UNCHANGED dir,
         ~IsCurrent(w, k)
  PROVE  UNCHANGED Owner
  <1>1. ASSUME NEW c \in Claims PROVE dir[c] # fd[w][k]
    BY <1>1 DEF Inductive, OpenedByItsName, IsCurrent
  <1>2. ASSUME NEW c \in Claims, dir[c] # NoInode PROVE lock'[dir[c]] = lock[dir[c]]
    BY <1>1, <1>2 DEF CloseFd, Inductive, TypeOK
  <1>3. QED
    BY <1>2 DEF Owner

(* The moment claim() returns.                                               *)
LEMMA AcquiredBegins ==
  ASSUME Inductive, Inductive', NEW w \in Watchers, Acquired(w),
         UNCHANGED <<dir, lock>>, pc[w] # "watching"
  PROVE  Promise!Begin(w) \/ UNCHANGED <<Owner, Watching>>
  <1>1. UNCHANGED Owner
    BY DEF Owner
  <1>2. CASE kind[w] = 1
    <2>1. pc' = [pc EXCEPT ![w] = "create"]
      BY <1>2 DEF Acquired
    <2>2. QED
      BY <1>1, <2>1 DEF Watching, Inductive, TypeOK
  <1>3. CASE kind[w] # 1
    <2>1. pc' = [pc EXCEPT ![w] = "watching"]
      BY <1>3 DEF Acquired
    <2>2. pc'[w] = "watching" /\ Watching' = Watching \cup {w}
      BY <2>1 DEF Watching, Inductive, TypeOK
    <2>3. ASSUME NEW k \in Kinds
          PROVE  Owner[ClaimAt(w, k)] = w
      <3>1. dir'[ClaimAt(w, k)] = fd'[w][k] /\ fd'[w][k] # NoInode /\ lock'[fd'[w][k]] = w
        BY <2>2 DEF Inductive, SecuredIsPublished, Secured, IsCurrent
      <3>2. QED
        BY <3>1, ClaimsApart DEF Owner
    <2>4. QED
      BY <1>1, <2>2, <2>3 DEF Promise!Begin, Promise!Wanted, ClaimAt, Kinds
  <1>4. QED
    BY <1>2, <1>3

(* Every system call is a step of the abstract claims, or none.             *)
LEMMA StepImplements ==
  ASSUME Inductive, Inductive', [Next]_vars
  PROVE  [Promise!Next]_(Promise!vars)
  <1> DEFINE Stutter == UNCHANGED <<Owner, Watching>>
  <1> USE DEF Promise!vars
  <1>1. ASSUME NEW w \in Watchers,
               \/ Start(w) \/ Open(w) \/ Truncate(w) \/ ReleaseIsCurrent(w)
        PROVE  Stutter
    <2>1. UNCHANGED <<dir, lock>>
      BY <1>1 DEF Start, Open, Truncate, ReleaseIsCurrent
    <2>2. \A v \in Watchers : pc'[v] = "watching" <=> pc[v] = "watching"
      BY <1>1 DEF Start, Open, Truncate, ReleaseIsCurrent, Again, Refuse,
                  Ended, Inductive, TypeOK
    <2>3. QED
      BY <2>1, <2>2 DEF Owner, Watching
  <1>2. ASSUME NEW w \in Watchers, Create(w)
        PROVE  Stutter
    <2>1. ASSUME NEW c \in Claims
          PROVE  Owner'[c] = Owner[c]
      <3>1. CASE dir'[c] = dir[c]
        BY <1>2, <3>1 DEF Owner, Create
      <3>2. CASE dir'[c] # dir[c]
        <4>1. dir[c] = NoInode /\ dir'[c] \in Inodes /\ Free(dir'[c])
          BY <1>2, <3>2, ClaimsApart DEF Create, Target, Inductive, TypeOK
        <4>2. lock[dir'[c]] \notin Watchers
          BY <4>1 DEF Free, Inductive, LocksAreHeld
        <4>3. QED
          BY <1>2, <4>1, <4>2 DEF Owner, Create
      <3>3. QED
        BY <3>1, <3>2
    <2>2. UNCHANGED Watching
      BY <1>2 DEF Create, Watching, Inductive, TypeOK
    <2>3. QED
      BY <2>1, <2>2 DEF Owner
  <1>3. ASSUME NEW w \in Watchers, Flock(w)
        PROVE  Stutter \/ \E c \in Claims : Promise!Take(w, c)
    <2>1. UNCHANGED Watching
      BY <1>3 DEF Flock, Refuse, Watching, Inductive, TypeOK
    <2>2. CASE lock[Opened(w)] # NoOne
      <3>1. lock' = lock /\ UNCHANGED dir
        BY <1>3, <2>2 DEF Flock, CloseFd, Opened, Inductive, TypeOK, LocksAreHeld
      <3>2. QED
        BY <2>1, <3>1 DEF Owner
    <2>3. CASE lock[Opened(w)] = NoOne
      <3>1. /\ lock' = [lock EXCEPT ![Opened(w)] = w] /\ UNCHANGED dir
            /\ Opened(w) \in Inodes
        BY <1>3, <2>3, OpenedInode DEF Flock, Inductive
      <3>2. \A c \in Claims : dir[c] = Opened(w) => c = Target(w)
        BY <3>1, ConstantsAssumption
           DEF Inductive, OpenedByItsName, Opened, Target, TypeOK
      <3>3. CASE dir[Target(w)] = Opened(w)
        <4>1. Target(w) \in Claims
          BY ClaimsApart DEF Target, Inductive, TypeOK
        <4>2. Owner[Target(w)] = NoOne
          BY <2>3, <3>3, <4>1, ClaimsApart DEF Owner
        <4>3. Owner' = [Owner EXCEPT ![Target(w)] = w]
          <5>1. lock'[Opened(w)] = w /\ Opened(w) # NoInode
            BY <3>1, ConstantsAssumption DEF Inductive, TypeOK
          <5>2. ASSUME NEW i \in Inodes, i # Opened(w) PROVE lock'[i] = lock[i]
            BY <3>1, <5>2 DEF Inductive, TypeOK
          <5>3. ASSUME NEW c \in Claims
                PROVE  Owner'[c] = IF c = Target(w) THEN w ELSE Owner[c]
            <6>1. CASE c = Target(w)
              BY <3>1, <3>3, <5>1, <6>1 DEF Owner
            <6>2. CASE c # Target(w)
              BY <3>1, <3>2, <5>2, <6>2 DEF Owner, Inductive, TypeOK
            <6>3. QED
              BY <6>1, <6>2
          <5>4. QED
            BY <5>3 DEF Owner
        <4>4. QED
          BY <2>1, <4>1, <4>2, <4>3 DEF Promise!Take
      <3>4. CASE dir[Target(w)] # Opened(w)
        BY <2>1, <3>1, <3>2, <3>4 DEF Owner, Inductive, TypeOK
      <3>5. QED
        BY <3>3, <3>4
    <2>4. QED
      BY <2>2, <2>3
  <1>4. ASSUME NEW w \in Watchers, Check(w)
        PROVE  Stutter \/ Promise!Begin(w)
    <2>1. CASE ~IsCurrent(w, kind[w])
      <3>1. UNCHANGED Owner
        BY <1>4, <2>1, OpenedInode, CloseKeepsOwners, ConstantsAssumption
           DEF Check, Inductive, TypeOK, Opened
      <3>2. UNCHANGED Watching
        BY <1>4, <2>1 DEF Check, Again, Refuse, Watching, Inductive, TypeOK
      <3>3. QED
        BY <3>1, <3>2
    <2>2. CASE IsCurrent(w, kind[w]) /\ created[w]
      BY <1>4, <2>2, AcquiredBegins DEF Check
    <2>3. CASE IsCurrent(w, kind[w]) /\ ~created[w]
      BY <1>4, <2>3 DEF Check, Owner, Watching, Inductive, TypeOK
    <2>4. QED
      BY <2>1, <2>2, <2>3
  <1>5. ASSUME NEW w \in Watchers, Write(w)
        PROVE  Stutter \/ Promise!Begin(w)
    BY <1>5, AcquiredBegins DEF Write
  <1>6. ASSUME NEW w \in Watchers, Stop(w)
        PROVE  Promise!End(w)
    BY <1>6 DEF Stop, Promise!End, Owner, Watching, Inductive, TypeOK
  <1>7. ASSUME NEW w \in Watchers, ReleaseUnlink(w)
        PROVE  \E c \in Claims : Promise!Give(w, c)
    <2> DEFINE c == ClaimAt(w, Entry(w))
    <2>1. Entry(w) \in Kinds /\ fd[w][Entry(w)] # NoInode
      BY <1>7 DEF ReleaseUnlink, Entry, Kinds, Inductive, DescriptorsInOrder, Entries
    <2>2. c \in Claims /\ dir[c] = fd[w][Entry(w)] /\ lock[dir[c]] = w
      BY <1>7, <2>1, ClaimsApart
         DEF ReleaseUnlink, Inductive, SecuredIsPublished, Secured, IsCurrent
    <2>3. Owner[c] = w
      BY <2>1, <2>2 DEF Owner
    <2>4. Owner' = [Owner EXCEPT ![c] = NoOne]
      BY <1>7, <2>2 DEF ReleaseUnlink, Owner, Inductive, TypeOK
    <2>5. w \notin Watching /\ UNCHANGED Watching
      BY <1>7 DEF ReleaseUnlink, Watching, Inductive, TypeOK
    <2>6. QED
      BY <2>2, <2>3, <2>4, <2>5 DEF Promise!Give
  <1>8. ASSUME NEW w \in Watchers, ReleaseClose(w)
        PROVE  Stutter
    <2>1. Entry(w) \in Kinds /\ fd[w][Entry(w)] # NoInode
      BY <1>8 DEF ReleaseClose, Entry, Kinds, Inductive, DescriptorsInOrder, Entries
    <2>2. UNCHANGED Owner
      BY <1>8, <2>1, CloseKeepsOwners DEF ReleaseClose, Inductive, OpenedByItsName
    <2>3. UNCHANGED Watching
      BY <1>8 DEF ReleaseClose, Watching, Inductive, TypeOK
    <2>4. QED
      BY <2>2, <2>3
  <1>9. ASSUME NEW w \in Watchers, Crash(w)
        PROVE  Promise!Die(w)
    <2>1. Watching' = Watching \ {w}
      BY <1>9 DEF Crash, Watching, Inductive, TypeOK
    <2>2. Owner' = [c \in Claims |-> IF Owner[c] = w THEN NoOne ELSE Owner[c]]
      BY <1>9, ClaimsApart, ConstantsAssumption DEF Crash, Owner, Inductive, TypeOK
    <2>3. QED
      BY <2>1, <2>2 DEF Promise!Die
  <1>10. ASSUME NEW r \in Reporters, Probe(r)
         PROVE  Stutter
    <2>1. UNCHANGED <<dir, pc>>
      BY <1>10 DEF Probe, ProbeOpen, ProbeFlock, ProbeClose
    <2>2. ASSUME NEW i \in Inodes
          PROVE  \/ lock'[i] = lock[i]
                 \/ lock[i] \notin Watchers /\ lock'[i] \notin Watchers
      BY <1>10, ConstantsAssumption
         DEF Probe, ProbeOpen, ProbeFlock, ProbeClose, Inductive, TypeOK, LocksAreHeld
    <2>3. QED
      BY <2>1, <2>2 DEF Owner, Watching, Inductive, TypeOK
  <1>11. CASE UNCHANGED vars
    BY <1>11 DEF vars, Owner, Watching
  <1>12. QED
    BY <1>1, <1>2, <1>3, <1>4, <1>5, <1>6, <1>7, <1>8, <1>9, <1>10, <1>11
       DEF Next, Step, Promise!Next

(* The claim protocol implements the abstract claims: each claim has one     *)
(* owner at most, watching requires owning both, and death frees at once     *)
(* (watchlock.py:1-30).                                                      *)
THEOREM Implementation == Spec => ImplementsFolderClaims
  <1>1. Init => Promise!Init
    BY DEF Init, Promise!Init, Owner, Watching
  <1>2. Inductive /\ Inductive' /\ [Next]_vars => [Promise!Next]_(Promise!vars)
    BY StepImplements
  <1>3. QED
    BY <1>1, <1>2, InductiveHolds, PTL DEF Spec, ImplementsFolderClaims, Promise!Spec


----------------------------------------------------------------------------
(* Who turns a starting watcher away.                                        *)

(* A lock that a reporter holds is on the inode it is probing.               *)
ReportersHold ==
  \A i \in Inodes :
    lock[i] \in Reporters => probe[lock[i]] = i /\ answer[lock[i]] = "abandoned"

LEMMA ReportersHoldStays == Inductive /\ ReportersHold /\ [Next]_vars => ReportersHold'
  <1> SUFFICES ASSUME Inductive, ReportersHold, [Next]_vars PROVE ReportersHold'
    OBVIOUS
  <1> USE ConstantsAssumption, ClaimsApart
  <1>1. ASSUME UNCHANGED probeVars, \A i \in Inodes : lock'[i] \in Reporters => lock'[i] = lock[i]
        PROVE  ReportersHold'
    BY <1>1 DEF ReportersHold, probeVars
  <1>2. ASSUME NEW w \in Watchers, Start(w) \/ Step(w) \/ Stop(w) \/ Crash(w)
        PROVE  ReportersHold'
    <2>1. CASE \/ Start(w) \/ Create(w) \/ Open(w) \/ Truncate(w) \/ Write(w) \/ Stop(w)
               \/ ReleaseIsCurrent(w) \/ ReleaseUnlink(w)
      <3>1. UNCHANGED probeVars /\ lock' = lock
        BY <2>1 DEF Start, Create, Open, Truncate, Write, Stop, ReleaseIsCurrent, ReleaseUnlink
      <3>2. QED
        BY <1>1, <3>1
    <2>2. CASE Flock(w) \/ Check(w) \/ ReleaseClose(w) \/ Crash(w)
      <3>1. \A i \in Inodes : lock'[i] \in Reporters => lock'[i] = lock[i]
        BY <2>2 DEF Flock, Check, ReleaseClose, Crash, CloseFd, Inductive, TypeOK
      <3>2. UNCHANGED probeVars
        BY <2>2 DEF Flock, Check, ReleaseClose, Crash
      <3>3. QED
        BY <1>1, <3>1, <3>2
    <2>3. QED
      BY <1>2, <2>1, <2>2 DEF Step
  <1>3. ASSUME NEW r \in Reporters, Probe(r)
        PROVE  ReportersHold'
    <2>1. CASE ProbeOpen(r)
      BY <2>1 DEF ProbeOpen, ReportersHold, Inductive, TypeOK
    <2>2. CASE ProbeFlock(r)
      BY <2>2 DEF ProbeFlock, ReportersHold, Inductive, TypeOK
    <2>3. CASE ProbeClose(r)
      BY <2>3 DEF ProbeClose, ReportersHold, Inductive, TypeOK
    <2>4. QED
      BY <1>3, <2>1, <2>2, <2>3 DEF Probe
  <1>4. CASE UNCHANGED vars
    BY <1>4 DEF vars, ReportersHold
  <1>5. QED
    BY <1>2, <1>3, <1>4 DEF Next

(* Only its own flock refuses a watcher that is about to take one, and only  *)
(* because somebody has the lock.                                            *)
LEMMA RefusedByItsFlock ==
  ASSUME TypeOK, [Next]_vars, NEW w \in Watchers,
         pc[w] = "flock", refused'[w], ~refused[w]
  PROVE  Flock(w) /\ lock[Opened(w)] # NoOne
  <1> USE DEF TypeOK
  <1>1. CASE Flock(w)
    BY <1>1 DEF Flock
  <1>2. ASSUME NEW v \in Watchers, v # w, Start(v) \/ Step(v) \/ Stop(v) \/ Crash(v)
        PROVE  FALSE
    <2>1. CASE Open(v)
      BY <1>2, <2>1 DEF Open, Again, Refuse
    <2>2. CASE Flock(v)
      BY <1>2, <2>2 DEF Flock, Refuse
    <2>3. CASE Check(v)
      BY <1>2, <2>3 DEF Check, Again, Refuse
    <2>4. CASE ~(Open(v) \/ Flock(v) \/ Check(v))
      BY <1>2, <2>4 DEF Start, Step, Stop, Crash, Create, Truncate, Write,
                        ReleaseIsCurrent, ReleaseUnlink, ReleaseClose
    <2>5. QED
      BY <2>1, <2>2, <2>3, <2>4
  <1>3. CASE Start(w) \/ (Step(w) /\ ~Flock(w)) \/ Stop(w) \/ Crash(w)
    BY <1>3 DEF Start, Step, Stop, Crash, Create, Open, Check, Truncate, Write,
                ReleaseIsCurrent, ReleaseUnlink, ReleaseClose, Ended
  <1>4. ASSUME NEW r \in Reporters, Probe(r) PROVE FALSE
    BY <1>4 DEF Probe, ProbeOpen, ProbeFlock, ProbeClose
  <1>5. CASE UNCHANGED vars
    BY <1>5 DEF vars
  <1>6. QED
    BY <1>1, <1>2, <1>3, <1>4, <1>5 DEF Next

(* The lock of an inode a watcher has open and does not hold is held by      *)
(* somebody who is alive.                                                    *)
LEMMA HoldersLive ==
  ASSUME Inductive, ReportersHold, NEW w \in Watchers, pc[w] = "flock",
         lock[Opened(w)] # NoOne
  PROVE  \/ \E v \in Watchers \ {w} : Alive(v)
         \/ \E r \in Reporters : probe[r] # NoInode
  <1> USE ConstantsAssumption, ClaimsApart
  <1>1. Opened(w) \in Inodes /\ lock[Opened(w)] # w
    BY DEF Inductive, TypeOK, DescriptorsInOrder, LocksAreHeld, Opened
  <1>2. CASE lock[Opened(w)] \in Watchers
    <2>1. PICK k \in Kinds : fd[lock[Opened(w)]][k] = Opened(w)
      BY <1>1, <1>2 DEF Inductive, LocksAreHeld
    <2>2. Entries(fd[lock[Opened(w)]]) # {}
      BY <1>1, <2>1 DEF Entries
    <2>3. Alive(lock[Opened(w)])
      BY <1>2, <2>2 DEF Inductive, DescriptorsInOrder, Alive
    <2>4. QED
      BY <1>1, <1>2, <2>3
  <1>3. CASE lock[Opened(w)] \in Reporters
    BY <1>1, <1>3 DEF ReportersHold
  <1>4. QED
    BY <1>1, <1>2, <1>3 DEF Inductive, TypeOK

(* No start is refused for what the dead have left behind, whatever crashed  *)
(* and wherever (watchlock.py:21-27).                                        *)
THEOREM TheDeadRefuseNobody == Spec => RefusedOnlyByTheLiving
  <1>1. Init => ReportersHold
    BY ConstantsAssumption DEF Init, ReportersHold
  <1>2. Inductive /\ ReportersHold /\ [Next]_vars
          => \A w \in Watchers :
               pc[w] = "flock" /\ refused'[w] /\ ~refused[w]
                 => \/ \E v \in Watchers \ {w} : Alive(v)
                    \/ \E r \in Reporters : probe[r] # NoInode
    BY RefusedByItsFlock, HoldersLive DEF Inductive
  <1>3. QED
    BY <1>1, <1>2, InductiveHolds, ReportersHoldStays, PTL DEF RefusedOnlyByTheLiving, Spec

----------------------------------------------------------------------------
(* Watchers that start together: each starts once and nobody probes. That    *)
(* not all of them can be turned away rests on what has happened so far:     *)
(* somebody has died, or somebody has got its library, or nobody has given   *)
(* up a claim yet.                                                           *)
Through(w) ==
  /\ ~refused[w]
  /\ \/ pc[w] \in {"watching", "current", "unlink", "close"}
     \/ pc[w] = "ended" /\ starts[w] # 0
     \/ pc[w] \in {"check", "truncate", "write"} /\ kind[w] = 2 /\ IsCurrent(w, 2)

NoneGivenUp ==
  /\ \A w \in Watchers :
       /\ pc[w] \notin {"dead", "watching", "current", "unlink", "close"}
       /\ refused[w] => pc[w] = "ended"
       /\ pc[w] = "open" => dir[Target(w)] # NoInode
       /\ \A k \in Kinds : fd[w][k] # NoInode => IsCurrent(w, k)
  /\ \E w \in Watchers : ~refused[w]

StartedOnce == \A w \in Watchers : pc[w] # "ended" => starts[w] # 0

SomebodyHopes ==
  \/ \E w \in Watchers : pc[w] = "dead"
  \/ \E w \in Watchers : Through(w)
  \/ NoneGivenUp

(* A watcher that has started has used its start up.                         *)
LEMMA StartedOnceStays == TypeOK /\ StartedOnce /\ [Next]_vars => StartedOnce'
  <1> SUFFICES ASSUME TypeOK, StartedOnce, [Next]_vars PROVE StartedOnce'
    OBVIOUS
  <1> USE DEF TypeOK, StartedOnce
  <1>1. ASSUME NEW w \in Watchers, Start(w) PROVE StartedOnce'
    <2>1. starts'[w] # 0 /\ \A v \in Watchers : v # w => starts'[v] = starts[v] /\ pc'[v] = pc[v]
      BY <1>1, ConstantsAssumption DEF Start
    <2>2. QED
      BY <2>1
  <1>2. ASSUME NEW w \in Watchers, Step(w) \/ Stop(w) \/ Crash(w) PROVE StartedOnce'
    <2>1. starts' = starts /\ pc[w] # "ended"
      BY <1>2 DEF Step, Stop, Crash, Create, Open, Flock, Check, Truncate, Write,
                  ReleaseIsCurrent, ReleaseUnlink, ReleaseClose, Ended
    <2>2. \A v \in Watchers : v # w => pc'[v] = pc[v]
      BY <1>2 DEF Step, Stop, Crash, Create, Open, Flock, Check, Truncate, Write, Acquired,
                  Again, Refuse, ReleaseIsCurrent, ReleaseUnlink, ReleaseClose
    <2>3. QED
      BY <2>1, <2>2
  <1>3. ASSUME NEW r \in Reporters, Probe(r) PROVE StartedOnce'
    BY <1>3 DEF Probe, ProbeOpen, ProbeFlock, ProbeClose
  <1>4. CASE UNCHANGED vars
    BY <1>4 DEF vars
  <1>5. QED
    BY <1>1, <1>2, <1>3, <1>4 DEF Next

(* Nobody starts twice.                                                      *)
LEMMA NobodyRestarts ==
  ASSUME TypeOK, StartedOnce, MaxStarts <= 1, NEW w \in Watchers, Start(w)
  PROVE  pc[w] = "ended" /\ starts[w] = 0
  <1>1. MaxStarts \in Nat /\ starts[w] \in 0..MaxStarts /\ starts[w] < MaxStarts
    BY ConstantsAssumption DEF TypeOK, Start
  <1>2. starts[w] = 0
    BY <1>1
  <1>3. QED
    BY <1>2 DEF StartedOnce, Start, Ended

(* Whatever another process does leaves a watcher where it is.               *)
LEMMA OthersStay ==
  ASSUME TypeOK, NEW w \in Watchers, NEW v \in Watchers, v # w,
         Start(v) \/ Step(v) \/ Stop(v) \/ Crash(v)
  PROVE  /\ pc'[w] = pc[w] /\ kind'[w] = kind[w] /\ refused'[w] = refused[w]
         /\ starts'[w] = starts[w] /\ fd'[w] = fd[w]
  <1> USE DEF TypeOK
  <1>1. CASE Open(v) \/ Flock(v) \/ Check(v)
    BY <1>1 DEF Open, Flock, Check, Again, Refuse, Acquired, CloseFd
  <1>2. CASE Write(v) \/ ReleaseClose(v) \/ Create(v) \/ Truncate(v)
    BY <1>2 DEF Write, Acquired, ReleaseClose, CloseFd, Create, Truncate
  <1>3. CASE Start(v) \/ Stop(v) \/ Crash(v) \/ ReleaseIsCurrent(v) \/ ReleaseUnlink(v)
    BY <1>3 DEF Start, Stop, Crash, ReleaseIsCurrent, ReleaseUnlink
  <1>4. QED
    BY <1>1, <1>2, <1>3 DEF Step

(* The dead stay dead.                                                       *)
LEMMA DeadStay ==
  ASSUME TypeOK, StartedOnce, Reporters = {}, MaxStarts <= 1, [Next]_vars,
         NEW w \in Watchers, pc[w] = "dead"
  PROVE  pc'[w] = "dead"
  <1>1. ASSUME NEW v \in Watchers, v # w, Start(v) \/ Step(v) \/ Stop(v) \/ Crash(v)
        PROVE  pc'[w] = "dead"
    BY <1>1, OthersStay
  <1>2. CASE Start(w)
    BY <1>2, NobodyRestarts
  <1>3. CASE Step(w) \/ Stop(w) \/ Crash(w)
    BY <1>3 DEF Step, Stop, Crash, Create, Open, Flock, Check, Truncate, Write,
                ReleaseIsCurrent, ReleaseUnlink, ReleaseClose, Ended
  <1>4. CASE UNCHANGED vars
    BY <1>4 DEF vars
  <1>5. QED
    BY <1>1, <1>2, <1>3, <1>4 DEF Next

(* Who has got its library is not turned away any more, unless it dies: the  *)
(* name it found current cannot be removed by anybody else, who would have   *)
(* to hold the same lock.                                                    *)
LEMMA ThroughStays ==
  ASSUME Inductive, Inductive', StartedOnce, Reporters = {}, MaxStarts <= 1, [Next]_vars,
         NEW w \in Watchers, Through(w)
  PROVE  Through(w)' \/ pc'[w] = "dead"
  <1> USE ConstantsAssumption, ClaimsApart
  <1>0. TypeOK
    BY DEF Inductive
  <1>1. ASSUME NEW v \in Watchers, v # w, Start(v) \/ Step(v) \/ Stop(v) \/ Crash(v)
        PROVE  Through(w)'
    <2>1. /\ pc'[w] = pc[w] /\ kind'[w] = kind[w] /\ refused'[w] = refused[w]
          /\ starts'[w] = starts[w] /\ fd'[w] = fd[w]
      BY <1>0, <1>1, OthersStay
    <2>2. CASE pc[w] \in {"check", "truncate", "write"} /\ kind[w] = 2 /\ IsCurrent(w, 2)
      <3>1. /\ fd[w][2] # NoInode /\ dir[ClaimAt(w, 2)] = fd[w][2]
            /\ lock[fd[w][2]] = w
        BY <2>2 DEF Inductive, DescriptorsInOrder, LocksAreHeld, Opened, IsCurrent
      <3>2. ASSUME ReleaseUnlink(v), ClaimAt(v, Entry(v)) = ClaimAt(w, 2) PROVE FALSE
        <4>1. pc[v] = "unlink" /\ Entries(fd[v]) # {}
          BY <3>2 DEF ReleaseUnlink, Inductive, DescriptorsInOrder
        <4>2. Entry(v) \in Kinds /\ fd[v][Entry(v)] # NoInode
          BY <4>1 DEF Entries, Entry, Kinds
        <4>3. dir[ClaimAt(v, Entry(v))] = fd[v][Entry(v)] /\ lock[fd[v][Entry(v)]] = v
          BY <4>1, <4>2 DEF Inductive, SecuredIsPublished, Secured, IsCurrent
        <4>4. QED
          BY <1>1, <3>1, <3>2, <4>3
      <3>3. dir'[ClaimAt(w, 2)] = dir[ClaimAt(w, 2)]
        <4>1. CASE Create(v)
          BY <3>1, <4>1, <1>0 DEF Create, TypeOK, Kinds
        <4>2. CASE ReleaseUnlink(v)
          BY <3>2, <4>2, <1>0 DEF ReleaseUnlink, TypeOK, Kinds
        <4>3. CASE ~Create(v) /\ ~ReleaseUnlink(v)
          BY <1>1, <4>3 DEF Start, Step, Stop, Crash, Open, Flock, Check, Truncate, Write,
                            ReleaseIsCurrent, ReleaseClose
        <4>4. QED
          BY <4>1, <4>2, <4>3
      <3>4. QED
        BY <2>1, <2>2, <3>1, <3>3 DEF Through, IsCurrent
    <2>3. QED
      BY <2>1, <2>2 DEF Through
  <1>2. CASE Start(w)
    BY <1>0, <1>2, NobodyRestarts DEF Through
  <1>3. CASE Step(w)
    <2>1. CASE Check(w)
      <3>1. kind[w] = 2 /\ IsCurrent(w, 2)
        BY <2>1 DEF Check, Through, Ended
      <3>2. \/ Acquired(w) /\ refused' = refused
            \/ pc' = [pc EXCEPT ![w] = "truncate"] /\ UNCHANGED <<kind, refused, fd, dir>>
        BY <2>1, <3>1 DEF Check
      <3>3. QED
        BY <1>0, <3>1, <3>2 DEF Through, Acquired, IsCurrent, TypeOK
    <2>2. CASE Truncate(w)
      BY <1>0, <2>2 DEF Truncate, Through, IsCurrent, TypeOK
    <2>3. CASE Write(w)
      BY <1>0, <2>3 DEF Write, Acquired, Through, TypeOK
    <2>4. CASE ReleaseIsCurrent(w) \/ ReleaseUnlink(w)
      BY <1>0, <2>4 DEF ReleaseIsCurrent, ReleaseUnlink, Through, TypeOK
    <2>5. CASE ReleaseClose(w)
      BY <1>0, <2>5 DEF ReleaseClose, Through, TypeOK, StartedOnce
    <2>6. CASE Create(w) \/ Open(w) \/ Flock(w)
      BY <2>6 DEF Create, Open, Flock, Through
    <2>7. QED
      BY <1>3, <2>1, <2>2, <2>3, <2>4, <2>5, <2>6 DEF Step
  <1>4. CASE Stop(w)
    BY <1>0, <1>4 DEF Stop, Through, TypeOK
  <1>5. CASE Crash(w)
    BY <1>0, <1>5 DEF Crash, TypeOK
  <1>6. CASE UNCHANGED vars
    BY <1>6 DEF vars, Through, IsCurrent
  <1>7. QED
    BY <1>1, <1>2, <1>3, <1>4, <1>5, <1>6 DEF Next

(* While nobody has given up a claim every step leaves it so, but for that   *)
(* of a watcher that dies, or that is the first to get its library.          *)
LEMMA NoneGivenUpStays ==
  ASSUME Inductive, Inductive', Reporters = {}, NEW w \in Watchers,
         Start(w) \/ Step(w) \/ Stop(w) \/ Crash(w),
         NoneGivenUp, \A v \in Watchers : ~Through(v)
  PROVE  NoneGivenUp' \/ pc'[w] = "dead" \/ \E v \in Watchers : Through(v)'
  <1> USE ConstantsAssumption, ClaimsApart
  <1>0. TypeOK
    BY DEF Inductive
  <1>1. /\ pc[w] \notin {"dead", "watching", "current", "unlink", "close"}
        /\ refused[w] => pc[w] = "ended"
        /\ pc[w] = "open" => dir[Target(w)] # NoInode
        /\ \A k \in Kinds : fd[w][k] # NoInode => IsCurrent(w, k)
    BY DEF NoneGivenUp
  (* Steps that take no name away, and leave the watcher in order.           *)
  <1>2. ASSUME \A v \in Watchers : v # w =>
                 /\ pc'[v] = pc[v] /\ kind'[v] = kind[v] /\ refused'[v] = refused[v]
                 /\ fd'[v] = fd[v],
               \A c \in Claims : dir[c] # NoInode => dir'[c] = dir[c],
               pc'[w] \notin {"dead", "watching", "current", "unlink", "close"},
               refused'[w] => pc'[w] = "ended",
               pc'[w] = "open" => dir'[ClaimAt(w, kind'[w])] # NoInode,
               \A k \in Kinds : fd'[w][k] # NoInode => dir'[ClaimAt(w, k)] = fd'[w][k],
               \E v \in Watchers : ~refused'[v]
        PROVE  NoneGivenUp'
    <2>1. ASSUME NEW v \in Watchers, v # w
          PROVE  /\ pc'[v] \notin {"dead", "watching", "current", "unlink", "close"}
                 /\ refused'[v] => pc'[v] = "ended"
                 /\ pc'[v] = "open" => dir'[ClaimAt(v, kind'[v])] # NoInode
                 /\ \A k \in Kinds : fd'[v][k] # NoInode => dir'[ClaimAt(v, k)] = fd'[v][k]
      <3>1. pc[v] = "open" => dir'[ClaimAt(v, kind[v])] # NoInode
        <4>1. ClaimAt(v, kind[v]) \in Claims
          BY <1>0 DEF TypeOK
        <4>2. QED
          BY <1>2, <4>1 DEF NoneGivenUp, Target
      <3>2. \A k \in Kinds : fd[v][k] # NoInode => dir'[ClaimAt(v, k)] = fd[v][k]
        BY <1>2 DEF NoneGivenUp, IsCurrent
      <3>3. QED
        BY <1>2, <2>1, <3>1, <3>2 DEF NoneGivenUp
    <2>2. QED
      BY <1>2, <2>1 DEF NoneGivenUp, Target, IsCurrent
  <1>3. \A v \in Watchers : v # w =>
          /\ pc'[v] = pc[v] /\ kind'[v] = kind[v] /\ refused'[v] = refused[v]
          /\ fd'[v] = fd[v]
    BY <1>0, OthersStay
  <1>4. (\E v \in Watchers : ~refused[v]) /\ Target(w) \in Claims
    BY <1>0 DEF NoneGivenUp, Target, TypeOK
  <1>5. CASE Start(w)
    <2>1. /\ dir' = dir /\ pc'[w] = "create" /\ refused'[w] = FALSE /\ fd' = fd
      BY <1>0, <1>5 DEF Start, TypeOK
    <2>2. QED
      BY <1>1, <1>2, <1>3, <2>1 DEF IsCurrent
  <1>6. CASE Create(w)
    <2>1. /\ pc[w] = "create" /\ pc'[w] = "open" /\ refused' = refused /\ fd' = fd /\ kind' = kind
      BY <1>0, <1>6 DEF Create, TypeOK
    <2>2. /\ \A c \in Claims : dir[c] # NoInode => dir'[c] = dir[c]
          /\ dir'[Target(w)] # NoInode
      BY <1>0, <1>4, <1>6 DEF Create, TypeOK
    <2>3. \A k \in Kinds : fd'[w][k] # NoInode => dir'[ClaimAt(w, k)] = fd'[w][k]
      BY <1>1, <2>1, <2>2 DEF IsCurrent
    <2>4. QED
      BY <1>1, <1>2, <1>3, <1>4, <2>1, <2>2, <2>3 DEF Target
  <1>7. CASE Open(w)
    <2>1. /\ pc[w] = "open" /\ dir' = dir /\ kind' = kind /\ refused' = refused
          /\ pc'[w] = "flock" /\ fd' = [fd EXCEPT ![w][kind[w]] = dir[Target(w)]]
      BY <1>0, <1>1, <1>7 DEF Open, TypeOK
    <2>2. \A k \in Kinds : fd'[w][k] # NoInode => dir'[ClaimAt(w, k)] = fd'[w][k]
      BY <1>0, <1>1, <2>1 DEF IsCurrent, Target, TypeOK
    <2>3. QED
      BY <1>1, <1>2, <1>3, <1>4, <2>1, <2>2
  (* Somebody has the lock: not of the library, or that one would be through. *)
  <1>8. CASE Flock(w)
    <2>1. /\ pc[w] = "flock" /\ ~refused[w] /\ Opened(w) \in Inodes
          /\ dir' = dir /\ kind' = kind /\ dir[Target(w)] = Opened(w)
          /\ kind[w] \in Kinds
      BY <1>0, <1>1, <1>8 DEF Flock, Inductive, DescriptorsInOrder, TypeOK, Opened, IsCurrent, Target
    <2>2. CASE lock[Opened(w)] = NoOne
      <3>1. pc'[w] = "check" /\ fd' = fd /\ refused' = refused
        BY <1>0, <1>8, <2>2 DEF Flock, TypeOK
      <3>2. QED
        BY <1>1, <1>2, <1>3, <1>4, <2>1, <3>1 DEF IsCurrent
    <2>3. CASE lock[Opened(w)] # NoOne
      <3> DEFINE x == lock[Opened(w)]
      <3>1. x \in Watchers /\ x # w
        BY <1>0, <2>1, <2>3 DEF TypeOK, Inductive, LocksAreHeld
      <3>2. PICK k \in Kinds : fd[x][k] = Opened(w)
        BY <2>1, <3>1 DEF Inductive, LocksAreHeld
      <3>3. Target(w) = ClaimAt(x, k) /\ Entries(fd[x]) # {} /\ pc[x] \notin Ended
        <4>1. Target(w) = ClaimAt(x, k)
          BY <1>0, <1>4, <2>1, <3>1, <3>2 DEF Inductive, OpenedByItsName, TypeOK
        <4>2. Entries(fd[x]) # {}
          BY <1>0, <2>1, <3>2 DEF Entries
        <4>3. QED
          BY <3>1, <4>1, <4>2 DEF Inductive, DescriptorsInOrder
      <3>4. ~refused[x] /\ pc[x] \in {"create", "open", "flock", "check", "truncate", "write"}
        BY <1>0, <3>1, <3>3 DEF NoneGivenUp, Ended, TypeOK, Places
      <3>5. kind[w] = 1
        <4> SUFFICES ASSUME kind[w] = 2 PROVE FALSE
          BY <2>1 DEF Kinds
        <4>1. k = 2
          BY <3>1, <3>2, <3>3 DEF Target, ClaimAt, Kinds
        <4>2. 2 \in Entries(fd[x]) /\ kind[x] \in Kinds
          BY <1>0, <2>1, <3>1, <3>2, <4>1 DEF Entries, Kinds, TypeOK
        <4>3. kind[x] = 2 /\ pc[x] \in {"flock", "check", "truncate", "write"}
          <5>1. kind[x] \in {1, 2}
            BY <4>2 DEF Kinds
          <5>2. /\ pc[x] \in {"create", "open"} => 2 < kind[x]
                /\ pc[x] \in {"flock", "check", "truncate", "write"} => 2 <= kind[x]
            BY <3>1, <4>2 DEF Inductive, DescriptorsInOrder
          <5>3. QED
            BY <3>4, <5>1, <5>2
        <4>4. pc[x] # "flock"
          BY <3>1, <3>2, <4>1, <4>3 DEF Inductive, LocksAreHeld, Opened
        <4>5. IsCurrent(x, 2)
          BY <3>1, <4>2 DEF NoneGivenUp, Entries
        <4>6. Through(x)
          BY <3>4, <4>3, <4>4, <4>5 DEF Through
        <4>7. QED
          BY <3>1, <4>6
      <3>6. CloseFd(w, 1) /\ Refuse(w)
        BY <1>8, <2>3, <3>5 DEF Flock
      <3>7. fd'[w][1] = NoInode /\ fd'[w][2] = fd[w][2] /\ fd[w][2] = NoInode
        <4>1. fd[w][2] = NoInode
          BY <2>1, <3>5 DEF Inductive, DescriptorsInOrder, Entries, Kinds
        <4>2. QED
          BY <1>0, <3>6, <4>1 DEF CloseFd, TypeOK, Kinds
      <3>8. pc'[w] = "ended"
        <4>1. Entries([fd[w] EXCEPT ![1] = NoInode]) = {}
          BY <1>0, <3>7 DEF Entries, TypeOK, Kinds
        <4>2. QED
          BY <1>0, <3>5, <3>6, <4>1 DEF Refuse, TypeOK
      <3>9. \E v \in Watchers : ~refused'[v]
        BY <1>3, <3>1, <3>4
      <3>10. \A j \in Kinds : fd'[w][j] = NoInode
        BY <3>7 DEF Kinds
      <3>11. QED
        BY <1>2, <1>3, <2>1, <3>8, <3>9, <3>10
    <2>4. QED
      BY <2>2, <2>3
  <1>9. CASE Check(w)
    <2>1. /\ pc[w] = "check" /\ ~refused[w] /\ IsCurrent(w, kind[w]) /\ kind[w] \in Kinds
      BY <1>0, <1>1, <1>9 DEF Check, Inductive, DescriptorsInOrder, Opened, TypeOK
    <2>2. kind[w] = 1
      BY <2>1 DEF Through, Kinds
    <2>3. /\ dir' = dir /\ fd' = fd /\ refused' = refused
          /\ pc'[w] \in {"create", "truncate"}
      BY <1>0, <1>9, <2>1, <2>2 DEF Check, Acquired, TypeOK
    <2>4. QED
      BY <1>1, <1>2, <1>3, <1>4, <2>1, <2>3 DEF IsCurrent
  <1>10. CASE Truncate(w) \/ Write(w)
    <2>1. /\ pc[w] \in {"truncate", "write"} /\ ~refused[w]
          /\ IsCurrent(w, kind[w]) /\ kind[w] \in Kinds
      BY <1>0, <1>1, <1>10 DEF Truncate, Write, Inductive, DescriptorsInOrder, Opened, TypeOK
    <2>2. kind[w] = 1
      BY <2>1 DEF Through, Kinds
    <2>3. /\ dir' = dir /\ fd' = fd /\ refused' = refused
          /\ pc'[w] \in {"create", "write"}
      BY <1>0, <1>10, <2>2 DEF Truncate, Write, Acquired, TypeOK
    <2>4. QED
      BY <1>1, <1>2, <1>3, <1>4, <2>1, <2>3 DEF IsCurrent
  <1>11. CASE Crash(w)
    BY <1>0, <1>11 DEF Crash, TypeOK
  <1>12. CASE Stop(w) \/ ReleaseIsCurrent(w) \/ ReleaseUnlink(w) \/ ReleaseClose(w)
    BY <1>1, <1>12 DEF Stop, ReleaseIsCurrent, ReleaseUnlink, ReleaseClose
  <1>13. QED
    BY <1>5, <1>6, <1>7, <1>8, <1>9, <1>10, <1>11, <1>12 DEF Step

LEMMA HopeStays ==
  ASSUME Inductive, Inductive', StartedOnce, Reporters = {}, MaxStarts <= 1, [Next]_vars,
         SomebodyHopes
  PROVE  SomebodyHopes'
  <1>0. TypeOK
    BY DEF Inductive
  <1>1. CASE \E w \in Watchers : pc[w] = "dead"
    BY <1>0, <1>1, DeadStay DEF SomebodyHopes
  <1>2. CASE \E w \in Watchers : Through(w)
    BY <1>2, ThroughStays DEF SomebodyHopes
  <1>3. CASE NoneGivenUp /\ \A v \in Watchers : ~Through(v)
    <2>1. CASE UNCHANGED vars
      BY <1>3, <2>1 DEF vars, SomebodyHopes, NoneGivenUp, IsCurrent, Target
    <2>2. ASSUME NEW w \in Watchers, Start(w) \/ Step(w) \/ Stop(w) \/ Crash(w)
          PROVE  SomebodyHopes'
      BY <1>3, <2>2, NoneGivenUpStays DEF SomebodyHopes
    <2>3. QED
      BY <2>1, <2>2 DEF Next
  <1>4. QED
    BY <1>1, <1>2, <1>3 DEF SomebodyHopes

(* However many watchers of however many folders start together, not all of  *)
(* them are turned away. (Not so with a reporter, whose probe turns a        *)
(* watcher away, nor for watchers that start again while others are still    *)
(* ending; both hypotheses are those of the property's run.)                 *)
THEOREM StartedTogetherOneGetsThrough ==
  ASSUME Watchers # {}, Reporters = {}, MaxStarts <= 1
  PROVE  Spec => []ContentionHasAWinner
  <1>1. Init => StartedOnce /\ SomebodyHopes
    BY DEF Init, StartedOnce, SomebodyHopes, NoneGivenUp, Kinds
  <1>2. Inductive /\ Inductive' /\ StartedOnce /\ SomebodyHopes /\ [Next]_vars
          => StartedOnce' /\ SomebodyHopes'
    BY HopeStays, StartedOnceStays DEF Inductive
  <1>3. SomebodyHopes /\ StartedOnce => ContentionHasAWinner
    BY DEF SomebodyHopes, Through, NoneGivenUp, ContentionHasAWinner
  <1>4. QED
    BY <1>1, <1>2, <1>3, InductiveHolds, PTL DEF Spec
============================================================================
