\* Two control-plane Machines deleted in the same second share two workers; one has an old hook key.
CONSTANTS
  Machines = {1, 2}
  ControlPlane = {1, 2}
  Qualifying = {1, 2}
  Hooked = {1, 2}
  Legacy = {1}
  Foreign = {}
  Booting = {}
  Deletable = {1, 2}
  ClusterDeletable = FALSE
  ScaleDown = FALSE
  Copied = TRUE
  DeleteNeedsHook = TRUE
  SameSecond = TRUE
  EtcdTimeout = 0
  ResetTimeout = 0
  Concurrency = 2
  MaxFaults = 0
SPECIFICATION FairSpec
INVARIANTS LastMemberKept
PROPERTIES EveryDeletionEnds
\* Everything that is to be deleted may be gone.
CHECK_DEADLOCK FALSE
