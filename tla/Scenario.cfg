CONSTANTS
  Kinds = {"vus", "ramping", "external", "per_vu", "shared", "arrival"}
  Pool = 2
  PreAllocated = 1
  Iterations = 2
  MaxArrivals = 2
  MaxPauses = 1
SPECIFICATION FairSpec
INVARIANTS ArrivalsConserved BudgetExact ActiveSettles 
PROPERTY StopEnds
