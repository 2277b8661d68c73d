SPECIFICATION Spec
CONSTANTS
  Files = {"notes", "log"}
  Chunks = {"x", "y"}
  Seed <- MCSeed
  Deployments <- MCDeployments
  MaxSize = 2
  Absent = Absent
  Torn = Torn
INVARIANTS
  CommittedSurvives
