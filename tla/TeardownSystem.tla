--------------------------- MODULE TeardownSystem ---------------------------
(***************************************************************************)
(* The teardown controller composed with what it works against: the CAPI   *)
(* machine controller and its deletion gates, the Cluster and its secret,  *)
(* CACPPT scale-down, other hook owners, the nodes and their etcd.  None   *)
(* of these is part of this repository; they are modelled by what          *)
(* internal/teardown and docs/talos-machine-teardown.md say of them, as    *)
(* loosely as that allows.                                                 *)
(*                                                                         *)
(* The machine controller evaluates the gate on every pass: it parks the   *)
(* Machine (reason preTerminate) while any pre-terminate annotation is     *)
(* there, and deletes the infrastructure in a pass that finds none.  The   *)
(* infrastructure deletion and the condition that reports it are separate  *)
(* writes.                                                                 *)
(***************************************************************************)
EXTENDS Teardown

CONSTANTS
  Hooked,          \* Machines that carry the hook when the controller starts
  Legacy,          \* Machines with a pre-rename hook key left over
  Foreign,         \* Machines another controller may put its pre-terminate hook on
  Booting,         \* Machines whose node has published no address yet
  Deletable,       \* Machines that may be deleted one by one
  ClusterDeletable,\* whether the Cluster may be deleted
  ScaleDown,       \* whether CACPPT scales the control plane down
  Copied,          \* whether the controller's copy of the Secret exists at the start
  DeleteNeedsHook, \* whether a deletion only meets Machines already hooked
  SameSecond       \* whether the deletions fall into one second

ASSUME SystemAssumption ==
  /\ Hooked \subseteq Machines /\ Legacy \subseteq Machines
  /\ Foreign \subseteq Machines /\ Booting \subseteq Machines
  /\ Deletable \subseteq Machines
  /\ {ClusterDeletable, ScaleDown, Copied, DeleteNeedsHook, SameSecond} \subseteq BOOLEAN

Initial(m) ==
  [Blank EXCEPT !.hook = m \in Hooked, !.legacy = m \in Legacy]

\* The controller starts on a live cluster with synced caches.
Init ==
  /\ api = [m \in Machines |-> Initial(m)]
  /\ cache = api
  /\ cluster = "live" /\ clusterCache = "live"
  /\ secret = [live |-> TRUE, cached |-> Copied]
  /\ queue = {m \in Machines : Admitted(m, api[m])}
  /\ pc = [m \in Machines |-> "idle"]
  /\ view = [m \in Machines |-> Blank]
  /\ out = [m \in Machines |-> "none"]
  /\ peer = [m \in Machines |-> 0]
  /\ node = [m \in Machines |-> IF m \in Booting THEN "booting" ELSE "up"]
  /\ wiped = {} /\ acked = {} /\ armed = {}
  /\ members = ControlPlane \ Booting
  /\ mc = [m \in Machines |-> "none"]
  /\ faults = 0

-----------------------------------------------------------------------------
(* Deletions *)

\* deletionTimestamps have second granularity: a later deletion gets a later
\* timestamp or, when SameSecond, the same one.
NextStamp(t) ==
  IF SameSecond THEN t = 1
  ELSE /\ \A p \in Machines : api[p].del < t
       /\ t = 1 \/ \E p \in Machines : api[p].del = t - 1

DeleteMachine(m) ==
  /\ m \in Deletable \/ cluster = "deleting"
  /\ Exists(api[m]) /\ api[m].del = 0
  /\ DeleteNeedsHook => api[m].hook
  /\ \E t \in 1..Cardinality(Machines) :
       NextStamp(t) /\ api' = [api EXCEPT ![m].del = t]
  /\ armed' = IF api[m].hook THEN armed \cup {m} ELSE armed
  /\ UNCHANGED <<cache, secret, queue, local, mc, faults>>
  /\ UNCHANGED <<clusterVars, nodeVars, etcdVars>>

DeleteCluster ==
  /\ ClusterDeletable /\ cluster = "live"
  /\ cluster' = "deleting"
  /\ UNCHANGED <<api, cache, clusterCache, secret, queue, local, mc, armed, faults>>
  /\ UNCHANGED <<nodeVars, etcdVars>>

\* The Cluster goes with its last Machine, or early when its finalizer is
\* stripped by hand.
ClusterGone ==
  /\ cluster = "deleting"
  /\ Fault \/ ((\A m \in Machines : ~Exists(api[m])) /\ UNCHANGED faults)
  /\ cluster' = "gone"
  /\ UNCHANGED <<api, cache, clusterCache, secret, queue, local, mc, armed>>
  /\ UNCHANGED <<nodeVars, etcdVars>>

\* Owner-reference collection of <cluster>-talosconfig.
SecretCollected ==
  /\ cluster # "live" /\ secret.live
  /\ secret' = [secret EXCEPT !.live = FALSE]
  /\ UNCHANGED <<api, cache, queue, local, mc, armed, faults>>
  /\ UNCHANGED <<clusterVars, nodeVars, etcdVars>>

\* CACPPT marks a Machine and tries a graceful leave that may silently fail;
\* then it deletes the Machine.
MarkLeaving(m) ==
  /\ ScaleDown /\ m \in ControlPlane \cap Deletable
  /\ Exists(api[m]) /\ api[m].del = 0 /\ ~api[m].leaving
  /\ api' = [api EXCEPT ![m].leaving = TRUE]
  /\ UNCHANGED <<cache, secret, queue, local, mc, armed, faults>>
  /\ UNCHANGED <<clusterVars, nodeVars, etcdVars>>
ScaleDownLeave(m) ==
  /\ api[m].leaving /\ node[m] = "up" /\ m \in members /\ members # {m}
  /\ members' = members \ {m}
  /\ UNCHANGED <<api, cache, secret, queue, local, mc, armed, faults>>
  /\ UNCHANGED <<clusterVars, nodeVars>>

-----------------------------------------------------------------------------
(* The CAPI machine controller, one step per write it makes for Machine m *)

McUnchanged ==
  /\ UNCHANGED <<cache, secret, queue, local, armed, faults>>
  /\ UNCHANGED <<clusterVars, etcdVars>>

McNotice(m) ==
  /\ mc[m] = "none" /\ api[m].del > 0
  /\ mc' = [mc EXCEPT ![m] = "drain"]
  /\ api' = [api EXCEPT ![m].reason = "early"]
  /\ McUnchanged /\ UNCHANGED nodeVars

\* The gate finds a hook: the Machine is parked, in the pass that ends the
\* drain or again in a later one.
Park(m) ==
  /\ AnyHook(api[m]) /\ api[m].reason # "preTerminate"
  /\ api' = [api EXCEPT ![m].reason = "preTerminate"]
  /\ McUnchanged /\ UNCHANGED nodeVars
McDrained(m) ==
  /\ mc[m] = "drain"
  /\ mc' = [mc EXCEPT ![m] = "gate"]
  /\ Park(m)
McRepark(m) ==
  /\ mc[m] \in {"gate", "infra"} /\ Exists(api[m])
  /\ Park(m) /\ UNCHANGED mc

\* The gate finds no hook: the infrastructure is deleted.
McDeleteInfra(m) ==
  /\ mc[m] \in {"drain", "gate"} /\ ~AnyHook(api[m])
  /\ mc' = [mc EXCEPT ![m] = "infra"]
  /\ McUnchanged /\ UNCHANGED <<api, nodeVars>>

McReport(m) ==
  /\ mc[m] = "infra" /\ Exists(api[m])
  /\ ~AnyHook(api[m]) /\ api[m].reason # "infra"
  /\ api' = [api EXCEPT ![m].reason = "infra"]
  /\ McUnchanged /\ UNCHANGED <<mc, nodeVars>>

\* CAPT powers the hardware off.
PowerOff(m) ==
  /\ mc[m] = "infra" /\ node[m] # "down"
  /\ node' = [node EXCEPT ![m] = "down"]
  /\ McUnchanged /\ UNCHANGED <<api, mc, wiped, acked>>

McFinish(m) ==
  /\ mc[m] = "infra" /\ node[m] = "down" /\ Exists(api[m]) /\ ~AnyHook(api[m])
  /\ api' = [api EXCEPT ![m].reason = "gone"]
  /\ McUnchanged /\ UNCHANGED <<mc, nodeVars>>

MachineController(m) ==
  \/ McNotice(m) \/ McRepark(m) \/ (mc[m] = "gate" /\ McDeleteInfra(m))
  \/ McReport(m) \/ PowerOff(m) \/ McFinish(m)
DrainEnds(m) == McDrained(m) \/ (mc[m] = "drain" /\ McDeleteInfra(m))

-----------------------------------------------------------------------------
(* Other hook owners, nodes, hands *)

\* Another hook owner stamps its key before the pre-terminate wait, a deletion
\* that has begun included.
ForeignAdds(m) ==
  /\ m \in Foreign
  /\ ~api[m].foreign /\ api[m].reason \in {"none", "early"}
  /\ api' = [api EXCEPT ![m].foreign = TRUE]
  /\ UNCHANGED <<cache, secret, queue, local, mc, armed, faults>>
  /\ UNCHANGED <<clusterVars, nodeVars, etcdVars>>

\* Another hook owner, done at the pre-terminate wait, removes its key.
ForeignRelease(m) ==
  /\ api[m].foreign /\ AtPreTerminate(api[m])
  /\ api' = [api EXCEPT ![m].foreign = FALSE]
  /\ UNCHANGED <<cache, secret, queue, local, mc, armed, faults>>
  /\ UNCHANGED <<clusterVars, nodeVars, etcdVars>>

\* A node publishes its address (a TinkerbellMachine event, mapped to its
\* owner) and joins.
Boot(m) ==
  /\ node[m] = "booting" /\ mc[m] # "infra"
  /\ node' = [node EXCEPT ![m] = "up"]
  /\ members' = IF m \in ControlPlane THEN members \cup {m} ELSE members
  /\ queue' = queue \cup {m}
  /\ UNCHANGED <<api, cache, secret, local, mc, armed, faults, wiped, acked>>
  /\ UNCHANGED clusterVars

NodeDies(m) ==
  /\ Fault
  /\ node[m] = "up"
  /\ node' = [node EXCEPT ![m] = "down"]
  /\ UNCHANGED <<api, cache, secret, queue, local, mc, armed, wiped, acked>>
  /\ UNCHANGED <<clusterVars, etcdVars>>

HandEdit(m) ==
  /\ Fault
  /\ Exists(api[m]) /\ api[m].obs >= 0
  /\ api' = [api EXCEPT ![m].obs = Garbled]
  /\ UNCHANGED <<cache, secret, queue, local, mc, armed>>
  /\ UNCHANGED <<clusterVars, nodeVars, etcdVars>>

Environment ==
  \/ DeleteCluster \/ ClusterGone \/ SecretCollected
  \/ \E m \in Machines :
       \/ DeleteMachine(m) \/ MarkLeaving(m) \/ ScaleDownLeave(m)
       \/ MachineController(m) \/ DrainEnds(m) \/ ForeignAdds(m) \/ ForeignRelease(m)
       \/ Boot(m) \/ NodeDies(m) \/ HandEdit(m)

Next == ControllerStep \/ Environment

Spec == Init /\ [][Next]_vars

-----------------------------------------------------------------------------
(* Fairness: workers take queued keys and finish reconciles, informers       *)
(* deliver, time passes, the machine controller makes its passes.  Nothing   *)
(* external beyond that is fair in ScheduledSpec; FairSpec adds that a drain *)
(* ends and, after it, that the other hook owner finishes.                   *)

Scheduled ==
  /\ WF_vars(CacheSync) /\ WF_vars(ClusterSync) /\ WF_vars(Tick)
  /\ \A m \in Machines :
       SF_vars(Reconcile(m)) /\ WF_vars(pc[m] # "idle" /\ ReconcileStep(m))

ScheduledSpec == Spec /\ Scheduled /\ \A m \in Machines : WF_vars(MachineController(m))
FairSpec ==
  /\ Spec /\ Scheduled
  /\ \A m \in Machines : WF_vars(MachineController(m) \/ DrainEnds(m) \/ ForeignRelease(m))

-----------------------------------------------------------------------------
(* Properties *)

\* Every variable has the shape the code gives it.
TypeOK ==
  /\ api \in [Machines -> MachineType]
  /\ cache \in [Machines -> MachineType]
  /\ cluster \in {"live", "deleting", "gone"}
  /\ clusterCache \in {"live", "deleting", "gone"}
  /\ secret \in [live : BOOLEAN, cached : BOOLEAN]
  /\ queue \subseteq Machines
  /\ pc \in [Machines -> Steps]
  /\ view \in [Machines -> MachineType]
  /\ out \in [Machines -> EtcdOutcomes \cup ResetOutcomes]
  /\ peer \in [Machines -> Machines \cup {0}]
  /\ node \in [Machines -> {"booting", "up", "down"}]
  /\ wiped \subseteq Machines /\ acked \subseteq Machines /\ armed \subseteq Machines
  /\ members \subseteq ControlPlane
  /\ mc \in [Machines -> {"none", "drain", "gate", "infra"}]
  /\ faults \in 0..MaxFaults

\* Both phases of the teardown of m have a conclusion on the server.
Concluded(m) == api[m].reset # "none" /\ (m \in ControlPlane => api[m].etcd # "none")

\* A Machine that carried the hook when it was deleted never loses its
\* infrastructure before its etcd phase and its reset phase are concluded on
\* the server (reconcileDeleting: "strictly before CAPT powers the hardware
\* off"), whatever crashes, lost answers and stale caches come in between.
TeardownBeforePowerOff ==
  \A m \in armed : mc[m] = "infra" => Concluded(m)

\* The hook is only ever removed from a Machine whose conclusions are already
\* on the server: release is the last patch of a teardown.
HookOutlivesTeardown ==
  [][\A m \in Machines : api[m].hook /\ ~api'[m].hook => Concluded(m)]_vars

\* Nodes are wiped after CAPI finished draining them and after every other
\* pre-terminate hook owner finished (AtPreTerminate, run last), although both
\* are read from a cache.
NeverActsEarly ==
  \A m \in wiped : mc[m] \notin {"none", "drain"} /\ ~api[m].foreign

\* The conclusions on the server are true of the world: a member recorded as
\* left or removed is no member, a reset recorded as done wiped the node, and
\* etcd is only skipped for a cluster that is really being deleted.
ConclusionsTrue ==
  \A m \in Machines :
    /\ api[m].etcd \in {"left", "removed"} => m \notin members
    /\ api[m].reset = "done" => m \in wiped
    /\ api[m].etcd = "skipped-cluster-delete" => cluster # "live"

\* Concurrent teardowns never empty the etcd cluster: each removal was decided
\* with a live peer that the cache showed as not deleting (findHealthyPeer).
\* CACPPT's own scale-down leaves are outside the controller's control.
LastMemberKept == ~ScaleDown /\ ~(ControlPlane \subseteq Booting) => members # {}

\* A Machine that was hooked when deleted never gets the hook back once its
\* infrastructure is going: a reconcile that works from a copy older than the
\* release does not park it again (reconcileDeleting, StampAllowed).
ArmedNeverReparked == \A m \in armed : mc[m] = "infra" => ~api[m].hook

\* No etcd leave or removal runs for two Machines at a time
\* (serializeControlPlane).
OneEtcdOpAtATime ==
  \A m, n \in Machines :
    pc[m] \in {"leave", "remove"} /\ pc[n] \in {"leave", "remove"} => m = n

\* Every deleted Machine is eventually gone, when drains end and other hook
\* owners finish: no hook, old hook key, held reconcile, dead node, lost
\* credentials or stamp / release loop parks a deletion for ever.  A Machine is
\* deleted once, so this is: again and again, no deletion is pending.
EveryDeletionEnds ==
  []<>(\A m \in Machines : api[m].del > 0 => ~Exists(api[m]))

-----------------------------------------------------------------------------
(* What comments and docs say and the code does not always do *)

\* reconcileDeleting: "a Machine whose power-off already began is never parked
\* mid-teardown".
NeverParkedMidTeardown == \A m \in Machines : mc[m] = "infra" => ~api[m].hook

\* resetPhase: "a crash after the reset ack never re-resets a halted node on
\* replay".
NeverReReset == \A m \in acked : ~(pc[m] = "reset" /\ view[m].reset = "none")

\* docs/talos-machine-teardown.md: the controller "always converges to hook
\* removal within the bounded deadlines once the pre-terminate phase is
\* reached".
ConvergesOncePreTerminate ==
  \A m \in Machines :
    AtPreTerminate(api[m]) /\ api[m].hook /\ ~api[m].foreign ~> ~api[m].hook
=============================================================================
