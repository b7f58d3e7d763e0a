\* Two hooked control-plane Machines are deleted, a third stays as the peer.
CONSTANTS
  Machines = {1, 2, 3}
  ControlPlane = {1, 2, 3}
  Qualifying = {1, 2}
  Hooked = {1, 2}
  Legacy = {}
  Foreign = {}
  Booting = {}
  Deletable = {1, 2}
  ClusterDeletable = FALSE
  ScaleDown = FALSE
  Copied = FALSE
  DeleteNeedsHook = TRUE
  SameSecond = FALSE
  EtcdTimeout = 0
  ResetTimeout = 0
  Concurrency = 4
  MaxFaults = 0
SPECIFICATION Spec
INVARIANTS OneEtcdOpAtATime
\* Everything that is to be deleted may be gone.
CHECK_DEADLOCK FALSE
