CONSTANTS
  Agent = {a1}
  Run = {r1, r2}
  NoRun = none
  Sweeper = sweeper
  Policies = {"continue"}
  EndKinds = {"finished"}
  MaxSession = 3
  MaxIncarnation = 2
  MayBreak = {a1}
  MayStall = {}
  MayStop = {}
SPECIFICATION Spec
CHECK_DEADLOCK FALSE
SYMMETRY Symmetry
INVARIANT ReservationExact
