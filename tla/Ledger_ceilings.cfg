\* Two processes with two requests each in flight, both ceilings, and a clock
\* that runs past the window.
CONSTANTS
  Procs = {p1, p2}
  Nobody = Nobody
  MaxConcurrent = 2
  RequestsPerDay = 2
  TokensPerDay = 2
  Costs = {0, 2}
  Hour = 2
  Day = 1
  MaxTime = 5
  MaxResets = 1
SPECIFICATION Spec
SYMMETRY ProcSymmetry
INVARIANTS TypeOK NothingIsUncounted SpendingStopsAtTheCeilings
