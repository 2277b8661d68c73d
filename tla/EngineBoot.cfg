SPECIFICATION FairSpec
CONSTANTS
  FamilyOf <- MCFamilyOf
  OpenOrder <- MCOpenOrder
  CloseOrder <- MCCloseOrder
  Deployments <- MCDeployments
  Levels <- MCLevels
INVARIANTS
  TypeOK
  DutyWithinPeriod
  RunningAsDeployed
  EndedCleanly
PROPERTIES
  LateBrokerIsWaitedFor
