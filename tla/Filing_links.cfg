SPECIFICATION Spec

CONSTANTS
  p1 = p1
  p2 = p2
  d1 = d1
  d2 = d2
  tA = tA
  tB = tB
  n1 = n1
  n2 = n2
  None = None
  Paths = {p1, p2}
  Contents = {1, 2}
  Ids = {d1, d2}
  Tags = {tA, tB}
  Titles = {n1}
  TagOf <- SameTag
  TitleOf <- SameTitle
  Litter <- InTheWay
  Move = FALSE
  MayReplace = FALSE
  MayEdit = FALSE
  Ops = {"pass", "retag", "remove", "adopt", "tree"}

SYMMETRY PathSymmetry
INVARIANTS
  RowsAreBacked
  LinksAreTrue
  RebuildLinksAll
