SPECIFICATION FairSpec
CONSTANTS
  loop = loop
  heartbeat = heartbeat
  Drivers <- TwoDrivers
  MaxRestart = 1
INVARIANTS
  StateStable
  DecidingSafe
PROPERTIES
  AnalysisRecurs
