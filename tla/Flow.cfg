SPECIFICATION FairSpec
CONSTANTS
  Vu = {v1, v2}
  Branches = 2
  Programs <- MCPrograms
  Users = 2
  MaxIterations = 2
INVARIANTS InFlightExact GroupsNest  
PROPERTIES IterationsEnd
