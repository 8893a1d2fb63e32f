CONSTANTS
  Agent = {a1, a2}
  Run = {r1}
  NoRun = none
  Sweeper = sweeper
  Policies = {"abort", "continue"}
  EndKinds = {"finished"}
  MaxSession = 2
  MaxIncarnation = 2
  MayBreak = {a1}
  MayStall = {a1}
  MayStop = {}
SPECIFICATION FairSpec
CHECK_DEADLOCK FALSE
INVARIANT LossAborts
PROPERTY RunConcludes
