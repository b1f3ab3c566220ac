\* Liveness and refinement: the same two watchers, without symmetry.
CONSTANTS
  w1 = w1  w2 = w2
  inA = inA  lib = lib
  Watchers = {w1, w2}
  Reporters = {}
  Claims = {inA, lib}
  ClaimOf <- SameFolders
  Inodes = {i1, i2, i3}
  Attempts = 2
  MaxStarts = 1
  NoOne = NoOne
  NoInode = NoInode
SPECIFICATION FairSpec
INVARIANTS ContentionHasAWinner
PROPERTIES EveryClaimSettles ImplementsFolderClaims
\* Every watcher may have ended for good once its starts are used up.
CHECK_DEADLOCK FALSE
