SPECIFICATION CmdSpec
CONSTANTS
  Result <- SmallResults
  Commit <- SmallHistory
  Initial <- SmallInitial
  Queries <- SmallQueries
  Options <- SmallOptions
  AncestorLimit = 2
  MaxRows = 3
  MaxChanges = 2
INVARIANTS
  ReportCoversItsRuns
  AutomaticBaselineIsAnAncestorsRun
  ExitCodeIsTheReport
PROPERTIES
  CommandExits
CHECK_DEADLOCK FALSE
