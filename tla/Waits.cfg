SPECIFICATION FairSpec
CHECK_DEADLOCK FALSE
CONSTANTS
  Explored = {"uplink", "grpc", "cleanup"}
  Producer = {"p1", "p2"} Sizes = {1, 2} MaxBytes = 2 MaxMessages = 2 Capacity = 1
  MaxSession = 2 MaxSeq = 2
  MaxCalls = 3 Limit = 2 MaxDials = 3
  Resource = {"r1", "r2"} Worker = {"w1", "w2"}
  Agent = {"a1"} Shards = 2 Kinds = {"counter", "rate", "trend", "gauge"} Values = {0, 2}
  MaxSamples = 3 MaxFlushes = 3
  Count = 2 Plans <- MCPlans MaxId = 2 Branches = 2 MaxRows = 2 MaxRequests = 2 MaxIterations = 2
  Topic = {"news"} Qos = {0, 1, 2} MaxOps = 3 MaxConns = 2
  Services = 2 Each = 3 MaxPresses = 3
INVARIANTS WindowExact CursorTrue ChannelBounded DataCleaned
PROPERTIES WindowMoves 
