SPECIFICATION FairSpec
CONSTANTS
  c1 = c1
  c2 = c2
  v1 = v1
  v2 = v2
  u1 = u1
  Rules <- MCOneRule
  Configs = {c1, c2}
  Evaluators = {v1, v2}
  Editors = {u1}
  MaxEdits = 2
  MaxChanges = 1
  MaxFaults = 1
INVARIANTS
  HistoryIsSound
  EventMatchesReport
PROPERTIES
  RulesConverge
