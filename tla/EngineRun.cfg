SPECIFICATION FairSpec
CONSTANTS
  Scenario = {s1, s2}
  Tagged = FALSE
  MaxSamples = 2
  MaxRefusals = 1
INVARIANTS SamplesAccounted FinalDelivered StopReported
PROPERTIES EngineReturns
