\* The same documents and times; the promise the bank does not keep.
CONSTANTS
  Docs = {scan, paper}
  Scans = {scan}
  MaxAge = 2
  MaxTime = 5
  Never = Never
SPECIFICATION Spec
INVARIANT NothingIsBoughtTwice
