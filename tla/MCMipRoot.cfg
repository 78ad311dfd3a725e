SPECIFICATION Spec
CONSTANTS
  Grid = 2
  Inf = 1000
  Passes = 2
  Pivots = {1, 2, 3}
  Weights <- MCWeights
  AggSteps = 2
  Divisors = {1, 2}
  ContractPasses = 2
  Width = 6
  MaxCuts = 1
  MaxDepth = 2
  Models <- MCModels
  Bins <- MCBins
  Hull <- MCHull
  Half <- MCHalf
  Flow <- MCFlow
  Twin <- MCTwin
  When <- MCWhen
  Par <- MCPar
  Dead <- MCDead
  Clash <- MCClash
  Thirds <- MCThirds
  Split <- MCSplit
INVARIANTS
  NothingIsLost
  NodeKeepsItsPoints
  ContractionIsExact
CHECK_DEADLOCK FALSE
