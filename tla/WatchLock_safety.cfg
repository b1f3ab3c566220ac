\* Two watchers of the same folders, each started twice, crashing anywhere,
\* while a reporter probes.
CONSTANTS
  w1 = w1  w2 = w2
  inA = inA  lib = lib
  Watchers = {w1, w2}
  Reporters = {r1}
  Claims = {inA, lib}
  ClaimOf <- SameFolders
  Inodes = {i1, i2, i3, i4}
  Attempts = 2
  MaxStarts = 2
  NoOne = NoOne
  NoInode = NoInode
SPECIFICATION Spec
SYMMETRY InodeSymmetry
INVARIANTS TypeOK ExclusiveFolders
PROPERTIES NothingLeftUnlocked RefusedOnlyByTheLiving
\* Every watcher may have ended for good once its starts are used up.
CHECK_DEADLOCK FALSE
