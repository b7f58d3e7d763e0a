\* A control-plane Machine is scaled down or deleted next to a healthy peer; two faults.
CONSTANTS
  Machines = {1, 2}
  ControlPlane = {1, 2}
  Qualifying = {1}
  Hooked = {}
  Legacy = {1}
  Foreign = {1}
  Booting = {}
  Deletable = {1}
  ClusterDeletable = FALSE
  ScaleDown = TRUE
  Copied = FALSE
  DeleteNeedsHook = FALSE
  SameSecond = FALSE
  EtcdTimeout = 0
  ResetTimeout = 1
  Concurrency = 4
  MaxFaults = 2
SPECIFICATION Spec
INVARIANTS TypeOK TeardownBeforePowerOff NeverActsEarly ConclusionsTrue ArmedNeverReparked
PROPERTIES HookOutlivesTeardown ImplementsGate
\* Everything that is to be deleted may be gone.
CHECK_DEADLOCK FALSE
