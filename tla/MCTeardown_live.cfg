\* A control-plane Machine is deleted alone or with its cluster, hooked or not, its node perhaps still booting, another hook owner coming; one fault.
CONSTANTS
  Machines = {1}
  ControlPlane = {1}
  Qualifying = {1}
  Hooked = {}
  Legacy = {}
  Foreign = {1}
  Booting = {1}
  Deletable = {1}
  ClusterDeletable = TRUE
  ScaleDown = FALSE
  Copied = FALSE
  DeleteNeedsHook = FALSE
  SameSecond = FALSE
  EtcdTimeout = 0
  ResetTimeout = 0
  Concurrency = 4
  MaxFaults = 1
SPECIFICATION FairSpec
INVARIANTS TeardownBeforePowerOff ConclusionsTrue
PROPERTIES EveryDeletionEnds
\* Everything that is to be deleted may be gone.
CHECK_DEADLOCK FALSE
