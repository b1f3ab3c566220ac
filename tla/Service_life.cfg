\* Two watchers that start, stop and crash as they like, and two commands.
CONSTANTS
  Watchers = {w1, w2}
  Commands = {c1, c2}
  Nobody = Nobody
  Pass = Pass
SPECIFICATION Spec
INVARIANTS TypeOK ThePathLeadsToTheWatcher ToldTheTruth
PROPERTY EveryCommandEnds
