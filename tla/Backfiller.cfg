SPECIFICATION RepairSpec
CONSTANTS
  r1 = r1
  r2 = r2
  Repos = {r1, r2}
  Tip = 5
  Benchmarked <- McBenchmarked
  Forked = {4}
  MaxCalls = 3
  MaxFaults = 1
  ScanOrder <- McScanOrder
  Unsupported = {r2}
  Limit = 2
  MaxPages = 2
  MaxOthers = 1
INVARIANTS
  
  ShutdownIsClean
  RepairIsTrue
  WholeWalkRepairsAll
PROPERTIES
  EveryJobRuns
  ShutdownReturns
