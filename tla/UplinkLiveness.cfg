CONSTANTS
  Proc = {p1}
  NoProc = none
  MaxSeq = 2
  MaxMessages = 2
  MaxConn = 3
  UpCap = 1
  DownCap = 1
SPECIFICATION FairSpec
PROPERTY EventuallyApplied
