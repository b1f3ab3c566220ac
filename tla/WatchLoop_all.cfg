\* Two files and one client, beside the loop and its index task.
SPECIFICATION FairSpec

CONSTANTS
  f1 = f1
  f2 = f2
  c1 = c1
  Loop = Loop
  Indexer = Indexer
  Files = {f1, f2}
  Contents = {1, 2}
  Size <- Sizes
  Histories <- OneOrTwo
  MaxFilings = 1
  Moves = TRUE
  Clients = {c1}

INVARIANTS
  TypeOK
  IndexHoldsOnlyDocuments
  EmbeddedOnce

PROPERTIES
  NoKnownContentIsFiled
  EveryArrivalIsTried
  FilingsAreIndexed
  RequestsAreAnswered
