SPECIFICATION Spec
CONSTANTS
  r1 = r1
  r2 = r2
  job1 = job1
  job2 = job2
  hook = hook
  check = check
  repoA = repoA
  repoB = repoB
  AnyRepo = AnyRepo
  Events <- MCOneEvent
  RuleOf <- MCRuleOf
  RepoOf <- MCRepoOf
  Dests = {hook}
  RepoScope <- MCRepoScope
  Dispatchers = {job1, job2}
  DestOf <- MCSameTarget
  Limit = 2
  RetryAfter = 2
  Timeout = 1
  MaxFailures = 0
  MaxAborts = 0
INVARIANTS
  OverlappingRunsNeverSendTwice
