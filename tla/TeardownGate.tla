---------------------------- MODULE TeardownGate ----------------------------
(***************************************************************************)
(* TeardownSystem implements DeletionGate: the phase of a Machine is read  *)
(* off the annotations on the server and the machine controller's state,   *)
(* and every step of a reconcile, of the machine controller or of anybody  *)
(* else is a step of the gate or leaves it unchanged.                      *)
(***************************************************************************)
EXTENDS TeardownSystem

Phase(m) ==
  CASE m \notin armed -> "free"
    [] m \in armed /\ mc[m] = "infra" -> "off"
    [] m \in armed /\ mc[m] # "infra" /\ api[m].reset # "none" -> "cleared"
    [] m \in armed /\ mc[m] # "infra" /\ api[m].reset = "none"
         /\ m \in ControlPlane /\ api[m].etcd = "none" -> "joined"
    [] OTHER -> "left"

Gate == INSTANCE DeletionGate WITH phase <- [m \in Machines |-> Phase(m)]

\* The teardown implements the deletion gate: leave etcd, clear, power off, in
\* this order, with wipes only of nodes out of etcd or written off, through
\* stale caches, replays, lost answers and crashes of reconcileDeleting.
ImplementsGate == Gate!Spec
=============================================================================
