---------------------------- MODULE DeletionGate ----------------------------
(***************************************************************************)
(* What talos-machine-teardown promises of a Machine that carries its hook *)
(* when it is deleted, without saying how: the node leaves etcd (or is     *)
(* written off), then its teardown is cleared, then its infrastructure     *)
(* goes, each once and in this order; and a node is never wiped while it   *)
(* still counts as an etcd member.  Machines deleted without the hook are  *)
(* free.                                                                   *)
(***************************************************************************)
CONSTANTS Machines, ControlPlane

VARIABLES
  phase,   \* free, joined, left, cleared or off
  wiped    \* nodes that were wiped

vars == <<phase, wiped>>

Init == phase = [m \in Machines |-> "free"] /\ wiped = {}

Move(m, from, to) ==
  /\ phase[m] = from
  /\ phase' = [phase EXCEPT ![m] = to]
  /\ UNCHANGED wiped

\* The hooked Machine is deleted; only control-plane nodes are in etcd.
Arm(m) == Move(m, "free", IF m \in ControlPlane THEN "joined" ELSE "left")
LeaveEtcd(m) == Move(m, "joined", "left")
Clear(m) == Move(m, "left", "cleared")
LoseInfrastructure(m) == Move(m, "cleared", "off")

Wipe(m) ==
  /\ phase[m] # "joined"
  /\ wiped' = wiped \cup {m}
  /\ UNCHANGED phase

Next ==
  \E m \in Machines :
    Arm(m) \/ LeaveEtcd(m) \/ Clear(m) \/ LoseInfrastructure(m) \/ Wipe(m)

Spec == Init /\ [][Next]_vars
=============================================================================
