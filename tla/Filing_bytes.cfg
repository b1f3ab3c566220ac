SPECIFICATION Spec

CONSTANTS
  p1 = p1
  p2 = p2
  d1 = d1
  d2 = d2
  tA = tA
  tB = tB
  n1 = n1
  n2 = n2
  None = None
  Paths = {p1, p2}
  Contents = {1, 2, 3}
  Ids = {d1, d2}
  Tags = {tA}
  Titles = {n1, n2}
  TagOf <- OneTag
  TitleOf <- SameTitle
  Litter <- Nowhere
  Move = TRUE
  MayReplace = FALSE
  MayEdit = TRUE
  Ops = {"pass", "scan", "adopt", "remove"}

SYMMETRY Symmetry
INVARIANTS
  HashesAreCurrent
  TypeOK
PROPERTIES
  FilesOnlyWhatIsNew
  NothingIsLost
