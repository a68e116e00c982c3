SPECIFICATION FairStreamSpec
CONSTANTS
  p1 = p1
  p2 = p2
  p3 = p3
  k1 = k1
  NoKey = NoKey
  NoSha = NoSha
  Requests <- MCRequests
  Keys = {k1}
  Payloads = {p1, p2, p3}
  Valid = {p1, p2}
  NaturalKey <- MCNaturalKey
  Hash <- MCHash
  RepoURL <- MCRepoURL
  UniqueKinds <- ClusterKinds
  Workers <- MCWorkers
  FileLists <- MCFileLists
  MaxRuns = 2
  MaxFaults = 1
INVARIANTS
  SeriesNeverForks
  LinesAreTheirItems
  ExitCodeIsTrue
PROPERTIES
  ImplementsStore
  StreamEnds
CHECK_DEADLOCK FALSE
