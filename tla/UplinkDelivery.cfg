CONSTANTS
  Proc = {p1, p2}
  NoProc = none
  MaxSeq = 2
  MaxMessages = 2
  MaxConn = 3
  UpCap = 2
  DownCap = 1
SPECIFICATION Spec
SYMMETRY Symmetry
INVARIANTS NothingLost GapImpossible IInv
PROPERTY Implements
