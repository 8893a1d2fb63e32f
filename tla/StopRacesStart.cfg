CONSTANTS
  Agent = {a1}
  Run = {r1}
  NoRun = none
  Sweeper = sweeper
  Policies = {"continue"}
  EndKinds = {"finished"}
  MaxSession = 2
  MaxIncarnation = 1
  MayBreak = {}
  MayStall = {}
  MayStop = {r1}
SPECIFICATION FairSpec
CHECK_DEADLOCK FALSE
PROPERTIES StopConcludes
