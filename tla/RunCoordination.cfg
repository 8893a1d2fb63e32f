CONSTANTS
  Agent = {a1, a2}
  Run = {r1}
  NoRun = none
  Sweeper = sweeper
  Policies = {"continue"}
  EndKinds = {"finished", "failed"}
  MaxSession = 2
  MaxIncarnation = 1
  MayBreak = {a1}
  MayStall = {}
  MayStop = {r1}
SPECIFICATION Spec
CHECK_DEADLOCK FALSE
INVARIANTS QuietBeforeStart StartsTogether FailedNeverStarts  FinishedIsEarned
PROPERTIES VerdictStands
