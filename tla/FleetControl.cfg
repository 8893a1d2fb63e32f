CONSTANTS
  Count = 2
  Scripts <- MCScripts
  LinkCap = 2
  Flaky = {1}
  MaxCommands = 2
  MaxSession = 2
SPECIFICATION Spec
CHECK_DEADLOCK FALSE
INVARIANTS OkMeansApplied LastCommandStands
