----------------------------- MODULE WatchLock -----------------------------
(* The claim protocol of watchlock.py, one action per system call.           *)
(*                                                                           *)
(* A claim is a name in the watch-locks directory. The name is bound to an   *)
(* inode by link(2), an inode is opened through its name, and the flock is   *)
(* held on the inode -- so a process can hold the lock of an inode that no   *)
(* name leads to any more. That gap is what the protocol is about.           *)
EXTENDS Integers, FiniteSets

CONSTANTS Watchers,     \* processes running watch()
          Reporters,    \* processes running live_claims() (`sypy watches`)
          Claims,       \* claim names: <kind>-<digest of the resolved path>.json
          ClaimOf,      \* [Watchers -> [1..2 -> Claims]]: 1 input, 2 library
          Inodes,       \* inode numbers; the file system reuses freed ones
          Attempts,     \* _ACQUIRE_ATTEMPTS
          MaxStarts,    \* bound: times each watcher is started
          NoOne, NoInode

Kinds == 1..2

ASSUME ConstantsAssumption ==
  /\ ClaimOf \in [Watchers -> [Kinds -> Claims]]
  /\ \A v, w \in Watchers : ClaimOf[v][1] # ClaimOf[w][2]
  /\ Attempts \in Nat \ {0}
  /\ MaxStarts \in Nat
  /\ Watchers \cap Reporters = {}
  /\ NoOne \notin Watchers \cup Reporters
  /\ NoInode \notin Inodes

VARIABLES
  dir,      \* the inode each claim name is linked to
  lock,     \* who holds each inode's flock
  named,    \* the watcher the claim's payload names, NoOne while truncated
  pc,       \* where each watcher is
  kind,     \* which of its two claims it is acquiring
  tries,    \* the attempt it is on, for that claim
  created,  \* whether the last _create put the file there
  fd,       \* [Watchers -> [Kinds -> inode it has open]]
  refused,  \* whether the claim() in progress, or the last one, was refused
  starts,   \* times each watcher was started
  probe,    \* the inode each reporter has open
  answer    \* what the reporter's last probe said: "live" or "abandoned"

vars == <<dir, lock, named, pc, kind, tries, created, fd, refused, starts,
          probe, answer>>
probeVars == <<probe, answer>>

Ended == {"ended", "dead"}
Places == Ended \cup {"create", "open", "flock", "check", "truncate", "write",
                      "watching", "current", "unlink", "close"}

(* Every variable has its type: in particular no claim is attempted more     *)
(* often than the code allows (_ACQUIRE_ATTEMPTS).                           *)
TypeOK ==
  /\ dir \in [Claims -> Inodes \cup {NoInode}]
  /\ lock \in [Inodes -> Watchers \cup Reporters \cup {NoOne}]
  /\ named \in [Inodes -> Watchers \cup {NoOne}]
  /\ pc \in [Watchers -> Places]
  /\ kind \in [Watchers -> Kinds]
  /\ tries \in [Watchers -> 1..Attempts]
  /\ created \in [Watchers -> BOOLEAN]
  /\ fd \in [Watchers -> [Kinds -> Inodes \cup {NoInode}]]
  /\ refused \in [Watchers -> BOOLEAN]
  /\ starts \in [Watchers -> 0..MaxStarts]
  /\ probe \in [Reporters -> Inodes \cup {NoInode}]
  /\ answer \in [Reporters -> {"none", "live", "abandoned"}]

Init ==
  /\ dir = [c \in Claims |-> NoInode]
  /\ lock = [i \in Inodes |-> NoOne]
  /\ named = [i \in Inodes |-> NoOne]
  /\ pc = [w \in Watchers |-> "ended"]
  /\ kind = [w \in Watchers |-> 1]
  /\ tries = [w \in Watchers |-> 1]
  /\ created = [w \in Watchers |-> FALSE]
  /\ fd = [w \in Watchers |-> [k \in Kinds |-> NoInode]]
  /\ refused = [w \in Watchers |-> FALSE]
  /\ starts = [w \in Watchers |-> 0]
  /\ probe = [r \in Reporters |-> NoInode]
  /\ answer = [r \in Reporters |-> "none"]

----------------------------------------------------------------------------
(* A watcher claims its input folder first and its library second.           *)
LibraryFirstForOne(w, n) ==
  ClaimOf[w][IF w = CHOOSE v \in Watchers : TRUE THEN 3 - n ELSE n]
ClaimAt(w, n) == ClaimOf[w][n]

(* The claim this watcher is acquiring, and the inode it has open for it.    *)
Target(w) == ClaimAt(w, kind[w])
Opened(w) == fd[w][kind[w]]

(* Whether the claim's name still leads to the inode the watcher has open.   *)
NeverLooks(w, n) == TRUE
NeverComparesInodes(w, n) == dir[ClaimAt(w, n)] # NoInode
IsCurrent(w, n) == dir[ClaimAt(w, n)] = fd[w][n]

(* An inode number is free once no name and no descriptor refers to it.      *)
Free(i) == /\ \A c \in Claims : dir[c] # i
           /\ \A w \in Watchers, k \in Kinds : fd[w][k] # i
           /\ \A r \in Reporters : probe[r] # i

(* Closing the descriptor w has open for kind k drops the flock it carries.  *)
CloseFd(w, k) ==
  /\ fd' = [fd EXCEPT ![w][k] = NoInode]
  /\ lock' = [i \in Inodes |-> IF i = fd[w][k] /\ lock[i] = w THEN NoOne
                               ELSE lock[i]]

(* The entries of a WatchClaim are the claims whose descriptors are open.    *)
Entries(open) == {k \in Kinds : open[k] # NoInode}

(* WatchConflict: claim() releases what it took and raises.                  *)
Refuse(w) ==
  /\ refused' = [refused EXCEPT ![w] = TRUE]
  /\ pc' = [pc EXCEPT ![w] =
              IF Entries([fd[w] EXCEPT ![kind[w]] = NoInode]) = {}
              THEN "ended" ELSE "current"]
  /\ UNCHANGED tries

RetryForever(w) == /\ pc' = [pc EXCEPT ![w] = "open"]
                   /\ UNCHANGED <<tries, refused>>
RetryUnbounded(w) == /\ tries' = [tries EXCEPT ![w] = @ + 1]
                     /\ pc' = [pc EXCEPT ![w] = "create"]
                     /\ UNCHANGED refused
(* `continue` in _acquire: another attempt, or the last one is used up.      *)
Again(w) ==
  \/ /\ tries[w] < Attempts
     /\ tries' = [tries EXCEPT ![w] = @ + 1]
     /\ pc' = [pc EXCEPT ![w] = "create"]
     /\ UNCHANGED refused
  \/ /\ tries[w] = Attempts
     /\ Refuse(w)

(* _acquire returned a _Held: on to the library, or into the watch loop.     *)
Acquired(w) ==
  /\ kind' = [kind EXCEPT ![w] = 2]
  /\ tries' = [tries EXCEPT ![w] = 1]
  /\ pc' = [pc EXCEPT ![w] = IF kind[w] = 1 THEN "create" ELSE "watching"]

Start(w) ==
  /\ pc[w] \in Ended
  /\ starts[w] < MaxStarts
  /\ starts' = [starts EXCEPT ![w] = @ + 1]
  /\ pc' = [pc EXCEPT ![w] = "create"]
  /\ kind' = [kind EXCEPT ![w] = 1]
  /\ tries' = [tries EXCEPT ![w] = 1]
  /\ refused' = [refused EXCEPT ![w] = FALSE]
  /\ UNCHANGED <<dir, lock, named, created, fd, probeVars>>

(* _create: the staged file is complete before link(2) makes it visible, and *)
(* link fails if the name is taken.                                          *)
Create(w) ==
  /\ pc[w] = "create"
  /\ pc' = [pc EXCEPT ![w] = "open"]
  /\ \/ /\ dir[Target(w)] = NoInode
        /\ \E i \in Inodes :
             /\ Free(i)
             /\ dir' = [dir EXCEPT ![Target(w)] = i]
             /\ named' = [named EXCEPT ![i] = w]
        /\ created' = [created EXCEPT ![w] = TRUE]
     \/ /\ dir[Target(w)] # NoInode
        /\ created' = [created EXCEPT ![w] = FALSE]
        /\ UNCHANGED <<dir, named>>
  /\ UNCHANGED <<lock, kind, tries, fd, refused, starts, probeVars>>

Open(w) ==
  /\ pc[w] = "open"
  /\ \/ /\ dir[Target(w)] # NoInode
        /\ fd' = [fd EXCEPT ![w][kind[w]] = dir[Target(w)]]
        /\ pc' = [pc EXCEPT ![w] = "flock"]
        /\ UNCHANGED <<tries, refused>>
     \/ /\ dir[Target(w)] = NoInode
        /\ Again(w)
        /\ UNCHANGED fd
  /\ UNCHANGED <<dir, lock, named, kind, created, starts, probeVars>>

(* LOCK_EX | LOCK_NB: got it, or somebody has it and the claim is refused.   *)
Flock(w) ==
  /\ pc[w] = "flock"
  /\ \/ /\ lock[Opened(w)] = NoOne
        /\ lock' = [lock EXCEPT ![Opened(w)] = w]
        /\ pc' = [pc EXCEPT ![w] = "check"]
        /\ UNCHANGED <<fd, tries, refused>>
     \/ /\ lock[Opened(w)] # NoOne
        /\ CloseFd(w, kind[w])
        /\ Refuse(w)
  /\ UNCHANGED <<dir, named, kind, created, starts, probeVars>>

(* A lock on a file that was unlinked meanwhile guards nothing: try again.   *)
Check(w) ==
  /\ pc[w] = "check"
  /\ \/ /\ ~IsCurrent(w, kind[w])
        /\ CloseFd(w, kind[w])
        /\ Again(w)
        /\ UNCHANGED kind
     \/ /\ IsCurrent(w, kind[w])
        /\ created[w]
        /\ Acquired(w)
        /\ UNCHANGED <<lock, fd, refused>>
     \/ /\ IsCurrent(w, kind[w])
        /\ ~created[w]
        /\ pc' = [pc EXCEPT ![w] = "truncate"]
        /\ UNCHANGED <<lock, fd, kind, tries, refused>>
  /\ UNCHANGED <<dir, named, created, starts, probeVars>>

(* Taking over an abandoned claim: ftruncate, then pwrite of our payload.    *)
Truncate(w) ==
  /\ pc[w] = "truncate"
  /\ named' = [named EXCEPT ![Opened(w)] = NoOne]
  /\ pc' = [pc EXCEPT ![w] = "write"]
  /\ UNCHANGED <<dir, lock, kind, tries, created, fd, refused, starts, probeVars>>

Write(w) ==
  /\ pc[w] = "write"
  /\ named' = [named EXCEPT ![Opened(w)] = w]
  /\ Acquired(w)
  /\ UNCHANGED <<dir, lock, created, fd, refused, starts, probeVars>>

----------------------------------------------------------------------------
(* watch() leaves its loop and, with the socket down, releases its claims.   *)
Stop(w) ==
  /\ pc[w] = "watching"
  /\ pc' = [pc EXCEPT ![w] = "current"]
  /\ UNCHANGED <<dir, lock, named, kind, tries, created, fd, refused, starts,
                 probeVars>>

(* WatchClaim.release goes through the entries in the order they were taken. *)
Entry(w) == IF fd[w][1] # NoInode THEN 1 ELSE 2

ReleaseNeverUnlinks(w) ==
  /\ pc[w] = "current"
  /\ pc' = [pc EXCEPT ![w] = "close"]
  /\ UNCHANGED <<dir, lock, named, kind, tries, created, fd, refused, starts,
                 probeVars>>
ReleaseIsCurrent(w) ==
  /\ pc[w] = "current"
  /\ pc' = [pc EXCEPT ![w] = IF IsCurrent(w, Entry(w)) THEN "unlink" ELSE "close"]
  /\ UNCHANGED <<dir, lock, named, kind, tries, created, fd, refused, starts,
                 probeVars>>

ReleaseUnlink(w) ==
  /\ pc[w] = "unlink"
  /\ dir' = [dir EXCEPT ![ClaimAt(w, Entry(w))] = NoInode]
  /\ pc' = [pc EXCEPT ![w] = "close"]
  /\ UNCHANGED <<lock, named, kind, tries, created, fd, refused, starts, probeVars>>

ReleaseClose(w) ==
  /\ pc[w] = "close"
  /\ CloseFd(w, Entry(w))
  /\ pc' = [pc EXCEPT ![w] = IF Entries(fd[w]) = {Entry(w)} THEN "ended"
                             ELSE "current"]
  /\ UNCHANGED <<dir, named, kind, tries, created, refused, starts, probeVars>>

OwnedByPid(w) ==
  /\ pc[w] \notin Ended
  /\ pc' = [pc EXCEPT ![w] = "dead"]
  /\ fd' = [fd EXCEPT ![w] = [k \in Kinds |-> NoInode]]
  /\ UNCHANGED <<dir, lock, named, kind, tries, created, refused, starts, probeVars>>
(* SIGKILL, SIGTERM, power: the kernel closes everything, releases nothing.  *)
Crash(w) ==
  /\ pc[w] \notin Ended
  /\ pc' = [pc EXCEPT ![w] = "dead"]
  /\ fd' = [fd EXCEPT ![w] = [k \in Kinds |-> NoInode]]
  /\ lock' = [i \in Inodes |-> IF lock[i] = w THEN NoOne ELSE lock[i]]
  /\ UNCHANGED <<dir, named, kind, tries, created, refused, starts, probeVars>>

----------------------------------------------------------------------------
(* live_claims: a claim with a readable payload is probed by taking its lock *)
(* for an instant.                                                           *)
ProbeOpen(r) ==
  /\ probe[r] = NoInode
  /\ \E c \in Claims :
       /\ dir[c] # NoInode
       /\ named[dir[c]] # NoOne
       /\ probe' = [probe EXCEPT ![r] = dir[c]]
  /\ answer' = [answer EXCEPT ![r] = "none"]
  /\ UNCHANGED <<dir, lock, named, pc, kind, tries, created, fd, refused, starts>>

ProbeFlock(r) ==
  /\ probe[r] # NoInode
  /\ answer[r] = "none"
  /\ \/ /\ lock[probe[r]] = NoOne
        /\ lock' = [lock EXCEPT ![probe[r]] = r]
        /\ answer' = [answer EXCEPT ![r] = "abandoned"]
        /\ UNCHANGED probe
     \/ /\ lock[probe[r]] # NoOne
        /\ answer' = [answer EXCEPT ![r] = "live"]
        /\ probe' = [probe EXCEPT ![r] = NoInode]
        /\ UNCHANGED lock
  /\ UNCHANGED <<dir, named, pc, kind, tries, created, fd, refused, starts>>

ProbeClose(r) ==
  /\ probe[r] # NoInode
  /\ answer[r] = "abandoned"
  /\ lock' = [lock EXCEPT ![probe[r]] = NoOne]
  /\ probe' = [probe EXCEPT ![r] = NoInode]
  /\ UNCHANGED <<dir, named, pc, kind, tries, created, fd, refused, starts, answer>>

----------------------------------------------------------------------------
(* What a running watcher does without being asked.                          *)
Step(w) == \/ Create(w) \/ Open(w) \/ Flock(w) \/ Check(w) \/ Truncate(w)
           \/ Write(w) \/ ReleaseIsCurrent(w) \/ ReleaseUnlink(w)
           \/ ReleaseClose(w)

Probe(r) == ProbeOpen(r) \/ ProbeFlock(r) \/ ProbeClose(r)

Next == \/ \E w \in Watchers : Start(w) \/ Step(w) \/ Stop(w) \/ Crash(w)
        \/ \E r \in Reporters : Probe(r)

Spec == Init /\ [][Next]_vars

(* A process that is neither stopped nor killed keeps executing; nothing     *)
(* makes anyone start, stop, crash or probe.                                 *)
FairSpec == Spec /\ \A w \in Watchers : WF_vars(Step(w))
----------------------------------------------------------------------------
Alive(w) == pc[w] \notin Ended

(* The whole point of the module: two watchers that are both running share   *)
(* neither their input folder nor their library (watchlock.py:3-12).         *)
ExclusiveFolders ==
  \A v, w \in Watchers :
    v # w /\ pc[v] = "watching" /\ pc[w] = "watching"
      => \A k \in Kinds : ClaimOf[v][k] # ClaimOf[w][k]

(* The claims w has taken and not begun to give up: those behind the one it  *)
(* is acquiring, and that one too from the check of its name onwards.        *)
Secured(w, k) ==
  \/ pc[w] = "watching"
  \/ pc[w] \in {"truncate", "write"} /\ k <= kind[w]
  \/ pc[w] \in {"create", "open", "flock", "check"} /\ k < kind[w]
  \/ pc[w] \in {"current", "unlink"} /\ fd[w][k] # NoInode
  \/ pc[w] = "close" /\ fd[w][k] # NoInode /\ k # Entry(w)

(* A secured claim is the published one: the name still leads to the inode   *)
(* whose lock the watcher holds, through every other process's retries,      *)
(* takeovers, releases and crashes (watchlock.py:173-178).                   *)
SecuredIsPublished ==
  \A w \in Watchers, k \in Kinds :
    Secured(w, k) => /\ fd[w][k] # NoInode
                     /\ IsCurrent(w, k)
                     /\ lock[fd[w][k]] = w

(* What SecuredIsPublished rests on. A descriptor is open from Open to the   *)
(* end of its release and a watcher that has ended has none ...              *)
DescriptorsInOrder ==
  \A w \in Watchers :
    /\ pc[w] \in Ended => Entries(fd[w]) = {}
    /\ pc[w] \in {"create", "open"} => \A k \in Entries(fd[w]) : k < kind[w]
    /\ pc[w] \in {"flock", "check", "truncate", "write"}
         => /\ Opened(w) # NoInode
            /\ \A k \in Entries(fd[w]) : k <= kind[w]
    /\ pc[w] \in {"current", "unlink", "close"} => Entries(fd[w]) # {}
    /\ fd[w][1] # NoInode => fd[w][1] # fd[w][2]

(* ... a lock is held through an open descriptor, by whoever took it ...     *)
LocksAreHeld ==
  /\ \A w \in Watchers :
       /\ pc[w] = "flock" => lock[Opened(w)] # w
       /\ pc[w] \in {"check", "truncate", "write"} => lock[Opened(w)] = w
  /\ \A i \in Inodes :
       lock[i] \in Watchers => \E k \in Kinds : fd[lock[i]][k] = i
  /\ \A r \in Reporters :
       probe[r] # NoInode /\ answer[r] = "abandoned" => lock[probe[r]] = r

(* ... no inode is linked under two names ...                                *)
OneNamePerInode ==
  \A c, d \in Claims : c # d /\ dir[c] # NoInode => dir[c] # dir[d]

(* ... and an open inode is reachable under the name it was opened by or not *)
(* at all -- the latter once its release is down to closing it.              *)
OpenedByItsName ==
  \A w \in Watchers :
    /\ \A k \in Kinds, c \in Claims :
         fd[w][k] # NoInode /\ dir[c] = fd[w][k] => c = ClaimAt(w, k)
    /\ pc[w] = "close" => ~IsCurrent(w, Entry(w))

(* The inductive invariant of the protocol: preserved by every system call,  *)
(* and strong enough for ExclusiveFolders (watchlock.py:93-214).             *)
Inductive == /\ TypeOK
             /\ SecuredIsPublished
             /\ DescriptorsInOrder
             /\ LocksAreHeld
             /\ OneNamePerInode
             /\ OpenedByItsName

(* Giving a claim up removes its name before its lock, so no running process *)
(* ever leaves a name behind that a starting watcher would take for an       *)
(* abandoned claim (WatchClaim.release, watchlock.py:79-81). Only a crash    *)
(* does.                                                                     *)
NothingLeftUnlocked ==
  [][\A w \in Watchers, i \in Inodes :
       lock[i] = w /\ lock'[i] # w /\ pc'[w] # "dead"
         => \A c \in Claims : dir'[c] # i]_vars

(* A start is turned away by a lock only while some other process is alive:  *)
(* whatever a crash left in the directory, at whatever step, never refuses   *)
(* anyone (watchlock.py:21-27). A reporter counts as alive here.             *)
RefusedOnlyByTheLiving ==
  [][\A w \in Watchers :
       pc[w] = "flock" /\ refused'[w] /\ ~refused[w]
         => \/ \E v \in Watchers \ {w} : Alive(v)
            \/ \E r \in Reporters : probe[r] # NoInode]_vars

(* Watchers that start together cannot all refuse one another: when every    *)
(* one of them has ended, not every one was turned away. Taking the input    *)
(* before the library, always, is what excludes the circular refusal.        *)
ContentionHasAWinner ==
  ~ \A w \in Watchers : pc[w] = "ended" /\ refused[w]

(* Every claim() returns or raises: the retries end, and a refused watcher   *)
(* gets to the end of its release (watchlock.py:45-48, 97-99).               *)
EveryClaimSettles ==
  \A w \in Watchers : Alive(w) ~> pc[w] \in Ended \cup {"watching"}

(* The abstract claims: owned by whoever holds the lock of the inode the     *)
(* name leads to right now.                                                  *)
Owner == [c \in Claims |-> IF dir[c] # NoInode /\ lock[dir[c]] \in Watchers
                           THEN lock[dir[c]] ELSE NoOne]
Watching == {w \in Watchers : pc[w] = "watching"}

Promise == INSTANCE FolderClaims WITH owner <- Owner, watching <- Watching

(* The directory, the inodes and the locks implement the abstract claims:    *)
(* every system call is one abstract step or none (watchlock.py:1-30).       *)
ImplementsFolderClaims == Promise!Spec
============================================================================
