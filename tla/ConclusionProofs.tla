-------------------------- MODULE ConclusionProofs --------------------------
(***************************************************************************)
(* Two more safety theorems of TeardownSystem: the conclusions recorded on *)
(* the server are true of the world, and a Machine that was hooked when    *)
(* deleted is never parked again once its infrastructure goes.             *)
(***************************************************************************)
EXTENDS TeardownSafety

USE DEF local, etcdVars, nodeVars, clusterVars

(* An outcome is about the world: nothing the world does later undoes it.    *)
TrueEtcd(m, o) ==
  /\ o \in {"left", "removed"} => m \notin members /\ node[m] # "booting"
  /\ o = "skipped-cluster-delete" => cluster # "live"
TrueReset(m, o) == o = "done" => m \in wiped

(* What is recorded of m and what a reconcile is about to record is true.    *)
Truth(m) ==
  /\ TrueEtcd(m, api[m].etcd) /\ TrueReset(m, api[m].reset)
  /\ TrueEtcd(m, out[m]) /\ TrueReset(m, out[m])
World ==
  /\ clusterCache # "live" => cluster # "live"
  /\ \A m \in members : node[m] # "booting"
TruthInv == World /\ \A m \in Machines : Truth(m)

(* A step after which true outcomes are still true.                          *)
Keeps(m) ==
  /\ m \in members' => m \in members \/ node[m] = "booting"
  /\ node'[m] = "booting" => node[m] = "booting"
  /\ cluster'= "live" => cluster = "live"
  /\ m \in wiped => m \in wiped'

\* The world never takes an outcome back.
LEMMA StaysTrue ==
  ASSUME NEW m, Keeps(m), NEW o
  PROVE  (TrueEtcd(m, o) => TrueEtcd(m, o)') /\ (TrueReset(m, o) => TrueReset(m, o)')
  BY DEF Keeps, TrueEtcd, TrueReset

\* So a step that records nothing and plans nothing keeps the truth.
LEMMA TruthKept ==
  ASSUME NEW m, Keeps(m), Truth(m), api'[m].etcd = api[m].etcd,
         api'[m].reset = api[m].reset, out'[m] = out[m] \/ out'[m] = "none"
  PROVE  Truth(m)'
  BY DEF Keeps, Truth, TrueEtcd, TrueReset

\* No step of anybody undoes a true outcome, and the premises about the world stay.
LEMMA WorldKept ==
  ASSUME TypeInv, World, Next
  PROVE  World' /\ \A m \in Machines : Keeps(m)
  <1>0. /\ node \in [Machines -> {"booting", "up", "down"}] /\ members \subseteq Machines
        /\ ControlPlane \subseteq Machines
    BY SubsetAssumption DEF TypeInv, TypeOK
  <1>1. ASSUME NEW m \in Machines, ReconcileStep(m)
        PROVE  World' /\ \A n \in Machines : Keeps(n)
    <2>1. CASE TryReset(m)
      BY <1>0, <2>1 DEF TryReset, World, Keeps
    <2>2. CASE LeaveViaVictim(m) \/ RemoveViaPeer(m)
      BY <1>0, <2>2 DEF LeaveViaVictim, RemoveViaPeer, World, Keeps
    <2>3. CASE ~TryReset(m) /\ ~LeaveViaVictim(m) /\ ~RemoveViaPeer(m)
      <3>1. UNCHANGED <<node, wiped, members, cluster, clusterCache>>
        BY <1>1, <2>3
        DEF ReconcileStep, Reconcile, EnsureHook, EnsureCredentials, EnsureObservedAt,
            EtcdPhase, FindHealthyPeer, StampEtcd, StampReset, Release
      <3>2. QED
        BY <3>1 DEF World, Keeps
    <2>4. QED
      BY <2>1, <2>2, <2>3
  <1>2. CASE CacheSync \/ ClusterSync \/ CredentialGC \/ Tick \/ Crash
    BY <1>2 DEF CacheSync, ClusterSync, CredentialGC, Tick, Crash, World, Keeps
  <1>3. CASE DeleteCluster \/ ClusterGone \/ SecretCollected
    BY <1>3 DEF DeleteCluster, ClusterGone, SecretCollected, World, Keeps
  <1>4. ASSUME NEW m \in Machines,
               \/ DeleteMachine(m) \/ MarkLeaving(m) \/ ScaleDownLeave(m)
               \/ ForeignAdds(m) \/ ForeignRelease(m) \/ HandEdit(m)
        PROVE  World' /\ \A n \in Machines : Keeps(n)
    BY <1>4 DEF DeleteMachine, MarkLeaving, ScaleDownLeave, ForeignAdds, ForeignRelease, HandEdit, World, Keeps
  <1>5. ASSUME NEW m \in Machines, Boot(m) \/ NodeDies(m) \/ PowerOff(m)
        PROVE  World' /\ \A n \in Machines : Keeps(n)
    BY <1>0, <1>5 DEF Boot, NodeDies, PowerOff, McUnchanged, World, Keeps
  <1>6. ASSUME NEW m \in Machines, MachineController(m) \/ DrainEnds(m)
        PROVE  World' /\ \A n \in Machines : Keeps(n)
    BY <1>5, <1>6 DEF MachineController, DrainEnds, McNotice, McDrained, McRepark, Park,
                      McDeleteInfra, McReport, McFinish, McUnchanged, World, Keeps
  <1>7. QED
    BY <1>1, <1>2, <1>3, <1>4, <1>5, <1>6 DEF Next, ControllerStep, Environment

(* The reconcile of m plans to record o.                                     *)
Plans(m, o) == out' = [out EXCEPT ![m] = o]

\* How the helpers that end a step set the plan.
LEMMA HelperPlans ==
  ASSUME NEW m
  PROVE  /\ \A next, v, o, p : Continue(m, next, v, o, p) => Plans(m, o)
         /\ Return(m) \/ Requeue(m) \/ (\E next : Goto(m, next)) => Plans(m, "none")
         /\ \A stored, next, v : PatchAnnotations(m, stored, next, v) => Plans(m, "none")
         /\ EtcdFailed(m) => Plans(m, "none") \/ Plans(m, "orphaned")
         /\ ResetFailed(m) => Plans(m, "none") \/ Plans(m, "skipped-timeout")
  <1>1. \A next, v, o, p : Continue(m, next, v, o, p) => Plans(m, o)
    BY DEF Continue, Plans
  <1>2. Return(m) \/ Requeue(m) \/ (\E next : Goto(m, next)) => Plans(m, "none")
    BY <1>1 DEF Return, Requeue, Goto
  <1>3. \A stored, next, v : PatchAnnotations(m, stored, next, v) => Plans(m, "none")
    BY <1>1, <1>2 DEF PatchAnnotations
  <1>4. EtcdFailed(m) => Plans(m, "none") \/ Plans(m, "orphaned")
    BY <1>1, <1>2 DEF EtcdFailed
  <1>5. ResetFailed(m) => Plans(m, "none") \/ Plans(m, "skipped-timeout")
    BY <1>1, <1>2 DEF ResetFailed
  <1>6. QED
    BY <1>1, <1>2, <1>3, <1>4, <1>5

\* What a reconcile plans to record is already true.
LEMMA PlansTruth ==
  ASSUME TypeInv, World, NEW m \in Machines, ReconcileStep(m)
  PROVE  UNCHANGED out \/ \E o : Plans(m, o) /\ TrueEtcd(m, o)' /\ TrueReset(m, o)'
  <1> DEFINE Goal == \E o : Plans(m, o) /\ TrueEtcd(m, o)' /\ TrueReset(m, o)'
  <1>0. /\ out \in [Machines -> EtcdOutcomes \cup ResetOutcomes]
        /\ node \in [Machines -> {"booting", "up", "down"}]
    BY DEF TypeInv, TypeOK
  <1>1. ASSUME NEW o \in {"none", "orphaned", "not-member", "skipped-timeout", "skipped-no-address"},
               Plans(m, o)
        PROVE  Goal
    BY <1>1 DEF TrueEtcd, TrueReset
  <1> HIDE DEF Goal
  <1>2. CASE Reconcile(m)
    <2>1. UNCHANGED out \/ Plans(m, "none")
      BY <1>2, HelperPlans DEF Reconcile
    <2>2. QED
      BY <1>1, <2>1 DEF Goal
  <1>3. CASE EnsureHook(m) \/ EnsureObservedAt(m) \/ StampEtcd(m) \/ StampReset(m) \/ Release(m)
    <2>1. Plans(m, "none")
      BY <1>3, HelperPlans DEF EnsureHook, EnsureObservedAt, StampEtcd, StampReset, Release
    <2>2. QED
      BY <1>1, <2>1 DEF Goal
  <1>4. CASE EnsureCredentials(m)
    BY <1>1, <1>4, HelperPlans DEF EnsureCredentials, Goal
  <1>5. CASE EtcdPhase(m)
    <2>1. \/ Plans(m, "none")
          \/ Plans(m, "skipped-cluster-delete") /\ clusterCache # "live" /\ cluster' = cluster
      BY <1>5, HelperPlans DEF EtcdPhase
    <2>2. CASE Plans(m, "skipped-cluster-delete") /\ clusterCache # "live" /\ cluster' = cluster
      BY <2>2 DEF World, Goal, TrueEtcd, TrueReset
    <2>3. QED
      BY <1>1, <2>1, <2>2 DEF Goal
  <1>6. CASE FindHealthyPeer(m)
    <2>1. \E o \in {"none", "not-member", "orphaned"} : Plans(m, o)
      BY <1>6, HelperPlans DEF FindHealthyPeer
    <2>2. QED
      BY <1>1, <2>1 DEF Goal
  <1>7. CASE LeaveViaVictim(m)
    <2>1. \/ Plans(m, "none")
          \/ Plans(m, "left") /\ m \notin members' /\ node'[m] = "up"
      BY <1>7, HelperPlans DEF LeaveViaVictim
    <2>2. CASE Plans(m, "left") /\ m \notin members' /\ node'[m] = "up"
      BY <2>2 DEF Goal, TrueEtcd, TrueReset
    <2>3. QED
      BY <1>1, <2>1, <2>2 DEF Goal
  <1>8. CASE RemoveViaPeer(m)
    <2>1. \/ Plans(m, "none") \/ Plans(m, "orphaned")
          \/ Plans(m, "removed") /\ m \notin members' /\ m \in members /\ node' = node
      BY <1>8, HelperPlans DEF RemoveViaPeer
    <2>2. CASE Plans(m, "removed") /\ m \notin members' /\ m \in members /\ node' = node
      BY <2>2 DEF World, Goal, TrueEtcd, TrueReset
    <2>3. QED
      BY <1>1, <2>1, <2>2 DEF Goal
  <1>9. CASE TryReset(m)
    <2>1. \/ \E o \in {"none", "skipped-no-address", "skipped-timeout"} : Plans(m, o)
          \/ Plans(m, "done") /\ m \in wiped'
      BY <1>9, HelperPlans DEF TryReset
    <2>2. CASE Plans(m, "done") /\ m \in wiped'
      BY <2>2 DEF Goal, TrueEtcd, TrueReset
    <2>3. QED
      BY <1>1, <2>1, <2>2 DEF Goal
  <1>10. QED
    BY <1>2, <1>3, <1>4, <1>5, <1>6, <1>7, <1>8, <1>9 DEF ReconcileStep, Goal

\* A reconcile records only what it planned.
LEMMA RecordsPlan ==
  ASSUME TypeInv, NEW m \in Machines, ReconcileStep(m)
  PROVE  /\ api'[m].etcd \in {api[m].etcd, out[m]} /\ api'[m].reset \in {api[m].reset, out[m]}
  <1>0. api \in [Machines -> MachineType] /\ api[m] \in MachineType
    BY DEF TypeInv, TypeOK
  <1>1. ASSUME NEW stored, NEW next, NEW v, PatchAnnotations(m, stored, next, v)
        PROVE  api'[m] = api[m] \/ api'[m] = stored
    BY <1>0, <1>1 DEF PatchAnnotations
  <1>2. CASE EnsureHook(m)
    BY <1>0, <1>1, <1>2 DEF EnsureHook, MachineType
  <1>3. CASE EnsureObservedAt(m)
    BY <1>0, <1>1, <1>3 DEF EnsureObservedAt, MachineType
  <1>4. CASE StampEtcd(m) \/ StampReset(m)
    BY <1>0, <1>1, <1>4 DEF StampEtcd, StampReset, MachineType
  <1>5. CASE Release(m)
    BY <1>0, <1>1, <1>5 DEF Release, MachineType
  <1>6. QED
    BY <1>2, <1>3, <1>4, <1>5
    DEF ReconcileStep, Reconcile, EnsureCredentials, EtcdPhase, FindHealthyPeer,
        LeaveViaVictim, RemoveViaPeer, TryReset

\* Nobody else records a conclusion or touches a plan.
LEMMA OthersRecordNothing ==
  ASSUME TypeInv, NEW n \in Machines,
         CacheSync \/ ClusterSync \/ CredentialGC \/ Tick \/ Crash \/ Environment
  PROVE  /\ api'[n].etcd = api[n].etcd /\ api'[n].reset = api[n].reset
         /\ out'[n] = out[n] \/ out'[n] = "none"
  <1>0. api \in [Machines -> MachineType] /\ api[n] \in MachineType
    BY DEF TypeInv, TypeOK
  <1>1. CASE CacheSync \/ ClusterSync \/ CredentialGC \/ Crash
    BY <1>1 DEF CacheSync, ClusterSync, CredentialGC, Crash
  <1>2. CASE Tick
    <2>1. api'[n] = Age(api[n]) /\ out' = out
      BY <1>2 DEF Tick
    <2>2. QED
      BY <1>0, <2>1 DEF Age, MachineType
  <1>3. CASE DeleteCluster \/ ClusterGone \/ SecretCollected
    BY <1>3 DEF DeleteCluster, ClusterGone, SecretCollected
  <1>4. ASSUME NEW m \in Machines,
               \/ DeleteMachine(m) \/ MarkLeaving(m) \/ ScaleDownLeave(m)
               \/ ForeignAdds(m) \/ ForeignRelease(m) \/ Boot(m) \/ NodeDies(m) \/ HandEdit(m)
        PROVE  api'[n].etcd = api[n].etcd /\ api'[n].reset = api[n].reset /\ out' = out
    BY <1>0, <1>4 DEF DeleteMachine, MarkLeaving, ScaleDownLeave, ForeignAdds, ForeignRelease, Boot, NodeDies,
                      HandEdit, MachineType
  <1>5. ASSUME NEW m \in Machines, MachineController(m) \/ DrainEnds(m)
        PROVE  api'[n].etcd = api[n].etcd /\ api'[n].reset = api[n].reset /\ out' = out
    BY <1>0, <1>5 DEF MachineController, DrainEnds, McNotice, McDrained, McRepark, Park,
                      McDeleteInfra, McReport, PowerOff, McFinish, McUnchanged, MachineType
  <1>6. QED
    BY <1>1, <1>2, <1>3, <1>4, <1>5 DEF Environment

\* Every step keeps recorded and planned conclusions true.
LEMMA TruthStep == TypeInv /\ TruthInv /\ [Next]_vars => TruthInv'
  <1> SUFFICES ASSUME TypeInv, TruthInv, Next PROVE TruthInv'
    BY DEF vars, TruthInv, World, Truth, TrueEtcd, TrueReset
  <1>1. World' /\ \A n \in Machines : Keeps(n) /\ Truth(n)
    BY WorldKept DEF TruthInv
  <1>2. out \in [Machines -> EtcdOutcomes \cup ResetOutcomes]
    BY DEF TypeInv, TypeOK
  <1>3. ASSUME NEW m \in Machines, ReconcileStep(m), NEW n \in Machines PROVE Truth(n)'
    <2>1. CASE n # m
      <3>1. out'[n] = out[n]
        BY <1>1, <1>2, <1>3, <2>1, PlansTruth DEF Plans, TruthInv
      <3>2. QED
        BY <1>1, <1>3, <2>1, <3>1, OnlyOwn, TruthKept
    <2>2. CASE n = m
      <3>1. TrueEtcd(m, out[m])' /\ TrueReset(m, out[m])'
        <4>1. CASE UNCHANGED out
          BY <1>1, <4>1, StaysTrue DEF Truth, TrueEtcd, TrueReset
        <4>2. CASE \E o : Plans(m, o) /\ TrueEtcd(m, o)' /\ TrueReset(m, o)'
          <5>1. PICK o : Plans(m, o) /\ TrueEtcd(m, o)' /\ TrueReset(m, o)'
            BY <4>2
          <5>2. out'[m] = o
            BY <1>2, <5>1 DEF Plans
          <5>3. QED
            BY <5>1, <5>2 DEF TrueEtcd, TrueReset
        <4>3. QED
          BY <1>3, <4>1, <4>2, PlansTruth DEF TruthInv
      <3>2. TrueEtcd(m, api[m].etcd)' /\ TrueReset(m, api[m].reset)'
        BY <1>1, <1>3, RecordsPlan DEF Truth, Keeps, TrueEtcd, TrueReset
      <3>3. QED
        BY <2>2, <3>1, <3>2 DEF Truth, TrueEtcd, TrueReset
    <2>3. QED
      BY <2>1, <2>2
  <1>4. CASE CacheSync \/ ClusterSync \/ CredentialGC \/ Tick \/ Crash \/ Environment
    BY <1>1, <1>4, OthersRecordNothing, TruthKept DEF TruthInv
  <1>5. QED
    BY <1>1, <1>3, <1>4 DEF TruthInv, Next, ControllerStep

\* Recorded and planned conclusions are true in every reachable state.
LEMMA TruthInvariant == Spec => []TruthInv
  <1>1. Init => TruthInv
    <2> SUFFICES ASSUME Init PROVE TruthInv
      OBVIOUS
    <2>1. \A m \in Machines : api[m].etcd = "none" /\ api[m].reset = "none" /\ out[m] = "none"
      BY DEF Init, Initial, Blank
    <2>2. World
      BY SubsetAssumption DEF Init, World
    <2>3. QED
      BY <2>1, <2>2 DEF TruthInv, Truth, TrueEtcd, TrueReset
  <1>2. QED
    BY <1>1, TruthStep, TypeInvariant, PTL DEF Spec

\* What the annotations say is true of etcd, of the node and of the Cluster,
\* however stale the objects they were decided from.
THEOREM ConclusionsAreTrue == Spec => []ConclusionsTrue
  <1>1. TruthInv => ConclusionsTrue
    BY DEF TruthInv, Truth, TrueEtcd, TrueReset, ConclusionsTrue
  <1>2. QED
    BY <1>1, TruthInvariant, PTL

-----------------------------------------------------------------------------
(* A released Machine is not hooked again *)

(* What holds of a Machine that was hooked when deleted.  A cached copy from *)
(* before the first stamp is out of the cache by the time of the release,    *)
(* because the release was decided from a copy that showed the deletion.     *)
Settled(m) ==
  m \in armed =>
    /\ api[m].del > 0
    /\ mc[m] = "infra" => ~api[m].hook
    /\ pc[m] = "hook" => api[m].hook
    /\ ~api[m].hook => cache[m].del > 0
    /\ cache[m].del > 0 /\ ~cache[m].hook => cache[m].reset # "none"
SettledInv == \A m \in Machines : Settled(m)

\* A step that does not touch what Settled is about keeps it.
LEMMA SettledKept ==
  ASSUME NEW n, Settled(n), n \in armed' => n \in armed,
         api'[n].del = api[n].del, api'[n].hook = api[n].hook,
         mc'[n] = "infra" => mc[n] = "infra" \/ ~api[n].hook,
         pc'[n] = "hook" => pc[n] = "hook",
         cache'[n].del = cache[n].del, cache'[n].hook = cache[n].hook,
         cache'[n].reset = cache[n].reset
  PROVE  Settled(n)'
  BY DEF Settled

\* No step of a reconcile gives the hook back to a released Machine.
LEMMA ReconcileSettled ==
  ASSUME TypeInv, TeardownInv, SettledInv, NEW m \in Machines, ReconcileStep(m)
  PROVE  SettledInv'
  <1>0. /\ api \in [Machines -> MachineType] /\ api[m] \in MachineType
        /\ pc \in [Machines -> Steps] /\ MachineInv(m) /\ Settled(m)
    BY DEF TypeInv, TypeOK, TeardownInv, SettledInv
  <1>1. cache' = cache /\ mc' = mc /\ armed' = armed
    BY DEF ReconcileStep, Reconcile, EnsureHook, EnsureCredentials, EnsureObservedAt, EtcdPhase,
           FindHealthyPeer, LeaveViaVictim, RemoveViaPeer, StampEtcd, TryReset, StampReset, Release
  <1>2. ASSUME NEW n \in Machines, n # m PROVE Settled(n)'
    BY <1>1, <1>2, OnlyOwn, SettledKept DEF SettledInv
  <1>3. \A next, v, o, p : Continue(m, next, v, o, p) => pc'[m] = next
    BY <1>0 DEF Continue
  <1>4. /\ Return(m) \/ Requeue(m) => pc'[m] = "idle"
        /\ \A next : Goto(m, next) => pc'[m] = next
        /\ \A stored, next, v : PatchAnnotations(m, stored, next, v)
             => pc'[m] \in {"idle", next} /\ (api'[m] = api[m] \/ api'[m] = stored)
        /\ EtcdFailed(m) => pc'[m] \in {"idle", "stampEtcd"}
        /\ ResetFailed(m) => pc'[m] \in {"idle", "stampReset"}
    <2>1. /\ Return(m) \/ Requeue(m) => pc'[m] = "idle"
          /\ \A next : Goto(m, next) => pc'[m] = next
      BY <1>3 DEF Return, Requeue, Goto
    <2>2. \A stored, next, v : PatchAnnotations(m, stored, next, v)
             => pc'[m] \in {"idle", next} /\ (api'[m] = api[m] \/ api'[m] = stored)
      BY <1>0, <1>3, <2>1 DEF PatchAnnotations
    <2>3. /\ EtcdFailed(m) => pc'[m] \in {"idle", "stampEtcd"}
          /\ ResetFailed(m) => pc'[m] \in {"idle", "stampReset"}
      BY <1>3, <2>1 DEF EtcdFailed, ResetFailed
    <2>4. QED
      BY <2>1, <2>2, <2>3
  <1>5. CASE Reconcile(m)
    <2>1. api' = api
      BY <1>5 DEF Reconcile
    <2>2. pc'[m] = "hook" /\ m \in armed => api[m].hook
      <3> SUFFICES ASSUME pc'[m] = "hook", m \in armed, ~api[m].hook PROVE FALSE
        OBVIOUS
      <3>1. cache[m].del > 0 /\ (~cache[m].hook => cache[m].reset # "none")
        BY <1>0 DEF Settled
      <3>2. cache[m].hook
        BY <1>0, <1>5, <3>1 DEF Reconcile
      <3>3. \E next \in {"creds", "gate"} : Continue(m, next, cache[m], "none", 0)
        BY <1>0, <1>5, <3>2 DEF Reconcile
      <3>4. QED
        BY <1>3, <3>3
    <2>3. Settled(m)'
      BY <1>0, <1>1, <2>1, <2>2 DEF Settled
    <2>4. QED
      BY <1>2, <2>3 DEF SettledInv
  <1>6. CASE EnsureHook(m)
    <2> DEFINE s == [api[m] EXCEPT !.hook = TRUE, !.legacy = @ /\ ~view[m].legacy]
    <2>1. s.del = api[m].del /\ s.hook
      BY <1>0 DEF MachineType
    <2>2. PatchAnnotations(m, s, "creds", [view[m] EXCEPT !.hook = TRUE, !.legacy = FALSE])
      BY <1>6 DEF EnsureHook
    <2> HIDE DEF s
    <2>3. /\ pc'[m] \in {"idle", "creds"} /\ api'[m].del = api[m].del
          /\ api[m].hook => api'[m].hook
      BY <1>4, <2>1, <2>2
    <2>4. m \in armed => api[m].hook
      BY <1>0, <1>6 DEF EnsureHook, Settled
    <2>5. Settled(m)'
      BY <1>0, <1>1, <2>3, <2>4 DEF Settled
    <2>6. QED
      BY <1>2, <2>5 DEF SettledInv
  <1>7. CASE Release(m)
    <2> DEFINE s == [api[m] EXCEPT !.hook = FALSE, !.legacy = @ /\ ~view[m].legacy]
    <2>1. s.del = api[m].del /\ ~s.hook
      BY <1>0 DEF MachineType
    <2>2. PatchAnnotations(m, s, "idle", Blank)
      BY <1>7 DEF Release
    <2> HIDE DEF s
    <2>3. pc'[m] = "idle" /\ api'[m].del = api[m].del /\ (api'[m].hook => api[m].hook)
      BY <1>4, <2>1, <2>2
    <2>4. cache[m].del > 0
      BY <1>0, <1>7 DEF Release, MachineInv, Progress, Behind, Deleting
    <2>5. Settled(m)'
      BY <1>0, <1>1, <2>3, <2>4 DEF Settled
    <2>6. QED
      BY <1>2, <2>5 DEF SettledInv
  <1>8. CASE EnsureObservedAt(m) \/ StampEtcd(m) \/ StampReset(m)
    <2>1. pc'[m] # "hook" /\ api'[m].del = api[m].del /\ api'[m].hook = api[m].hook
      <3>1. CASE EnsureObservedAt(m)
        BY <1>0, <1>4, <3>1 DEF EnsureObservedAt, MachineType
      <3>2. CASE StampEtcd(m) \/ StampReset(m)
        BY <1>0, <1>4, <3>2 DEF StampEtcd, StampReset, MachineType
      <3>3. QED
        BY <1>8, <3>1, <3>2
    <2>2. Settled(m)'
      BY <1>0, <1>1, <2>1, SettledKept
    <2>3. QED
      BY <1>2, <2>2 DEF SettledInv
  <1>9. CASE \/ EnsureCredentials(m) \/ EtcdPhase(m) \/ FindHealthyPeer(m)
             \/ LeaveViaVictim(m) \/ RemoveViaPeer(m) \/ TryReset(m)
    <2>1. api' = api
      BY <1>9 DEF EnsureCredentials, EtcdPhase, FindHealthyPeer, LeaveViaVictim, RemoveViaPeer,
                  TryReset
    <2>2. pc'[m] # "hook"
      <3>1. CASE EnsureCredentials(m) \/ EtcdPhase(m)
        BY <1>3, <1>4, <3>1 DEF EnsureCredentials, EtcdPhase
      <3>2. CASE FindHealthyPeer(m)
        BY <1>3, <1>4, <3>2 DEF FindHealthyPeer
      <3>3. CASE LeaveViaVictim(m) \/ RemoveViaPeer(m)
        BY <1>3, <1>4, <3>3 DEF LeaveViaVictim, RemoveViaPeer
      <3>4. CASE TryReset(m)
        BY <1>3, <1>4, <3>4 DEF TryReset
      <3>5. QED
        BY <1>9, <3>1, <3>2, <3>3, <3>4
    <2>3. Settled(m)'
      BY <1>0, <1>1, <2>1, <2>2, SettledKept
    <2>4. QED
      BY <1>2, <2>3 DEF SettledInv
  <1>10. QED
    BY <1>5, <1>6, <1>7, <1>8, <1>9 DEF ReconcileStep

\* Nor does a step of anybody else.
LEMMA OthersSettled ==
  ASSUME TypeInv, TeardownInv, SettledInv, NEW n \in Machines,
         CacheSync \/ ClusterSync \/ CredentialGC \/ Tick \/ Crash \/ Environment
  PROVE  Settled(n)'
  <1>0. /\ api \in [Machines -> MachineType] /\ api[n] \in MachineType
        /\ cache[n] \in MachineType /\ MachineInv(n) /\ Settled(n)
        /\ mc \in [Machines -> {"none", "drain", "gate", "infra"}]
    BY DEF TypeInv, TypeOK, TeardownInv, SettledInv
  <1>1. CASE CacheSync \/ Crash
    <2>1. /\ api' = api /\ cache' = api /\ mc' = mc /\ armed' = armed
          /\ pc'[n] = "hook" => pc[n] = "hook"
      BY <1>1 DEF CacheSync, Crash
    <2>2. QED
      BY <1>0, <2>1 DEF Settled, MachineInv, Guarded, Concluded
  <1>2. CASE ClusterSync \/ CredentialGC
    BY <1>0, <1>2, SettledKept DEF ClusterSync, CredentialGC
  <1>3. CASE Tick
    <2>1. /\ api'[n] = Age(api[n]) /\ cache'[n] = Age(cache[n])
          /\ mc' = mc /\ armed' = armed /\ pc' = pc
      BY <1>3 DEF Tick
    <2>2. /\ api'[n].del = api[n].del /\ api'[n].hook = api[n].hook
          /\ cache'[n].del = cache[n].del /\ cache'[n].hook = cache[n].hook
          /\ cache'[n].reset = cache[n].reset
      BY <1>0, <2>1 DEF Age, MachineType
    <2>3. QED
      BY <1>0, <2>1, <2>2, SettledKept
  <1>4. CASE DeleteCluster \/ ClusterGone \/ SecretCollected
    BY <1>0, <1>4, SettledKept DEF DeleteCluster, ClusterGone, SecretCollected
  <1>5. ASSUME NEW m \in Machines, DeleteMachine(m) PROVE Settled(n)'
    <2>1. PICK t \in 1..Cardinality(Machines) : api' = [api EXCEPT ![m].del = t]
      BY <1>5 DEF DeleteMachine
    <2>2. /\ cache' = cache /\ mc' = mc /\ pc' = pc
          /\ armed' = IF api[m].hook THEN armed \cup {m} ELSE armed
      BY <1>5 DEF DeleteMachine
    <2>3. CASE n # m
      BY <1>0, <2>1, <2>2, <2>3, SettledKept
    <2>4. CASE n = m
      <3>1. api'[n].del = t /\ t > 0 /\ api'[n].hook = api[n].hook
        BY <1>0, <2>1, <2>4, MachinesAssumption, FS_CardinalityType DEF MachineType
      <3>2. api[n].del = 0 /\ cache[n].del = 0 /\ mc[n] = "none"
        BY <1>0, <1>5, <2>4 DEF DeleteMachine, MachineInv, Behind, Guarded, MachineType
      <3>3. n \notin armed
        BY <1>0, <3>2 DEF Settled
      <3>4. QED
        BY <2>2, <2>4, <3>1, <3>2, <3>3 DEF Settled
    <2>5. QED
      BY <2>3, <2>4
  <1>6. ASSUME NEW m \in Machines,
               \/ MarkLeaving(m) \/ ScaleDownLeave(m) \/ ForeignAdds(m) \/ ForeignRelease(m) \/ Boot(m)
               \/ NodeDies(m) \/ HandEdit(m)
        PROVE  Settled(n)'
    <2>1. cache' = cache /\ mc' = mc /\ pc' = pc /\ armed' = armed
      BY <1>6 DEF MarkLeaving, ScaleDownLeave, ForeignAdds, ForeignRelease, Boot, NodeDies, HandEdit
    <2>2. api'[n].del = api[n].del /\ api'[n].hook = api[n].hook
      BY <1>0, <1>6
      DEF MarkLeaving, ScaleDownLeave, ForeignAdds, ForeignRelease, Boot, NodeDies, HandEdit, MachineType
    <2>3. QED
      BY <1>0, <2>1, <2>2, SettledKept
  <1>7. ASSUME NEW m \in Machines, MachineController(m) \/ DrainEnds(m) PROVE Settled(n)'
    <2>1. cache' = cache /\ pc' = pc /\ armed' = armed
      BY <1>7 DEF MachineController, DrainEnds, McNotice, McDrained, McRepark, Park,
                  McDeleteInfra, McReport, PowerOff, McFinish, McUnchanged
    <2>2. api'[n].del = api[n].del /\ api'[n].hook = api[n].hook
      BY <1>0, <1>7 DEF MachineController, DrainEnds, McNotice, McDrained, McRepark, Park,
                        McDeleteInfra, McReport, PowerOff, McFinish, MachineType
    <2>3. mc'[n] = "infra" => mc[n] = "infra" \/ ~api[n].hook
      BY <1>0, <1>7 DEF MachineController, DrainEnds, McNotice, McDrained, McRepark, Park,
                        McDeleteInfra, McReport, PowerOff, McFinish, AnyHook
    <2>4. QED
      BY <1>0, <2>1, <2>2, <2>3, SettledKept
  <1>8. QED
    BY <1>1, <1>2, <1>3, <1>4, <1>5, <1>6, <1>7 DEF Environment

\* A Machine that was hooked when deleted is never parked again once its
\* infrastructure goes, whatever copy of it a reconcile still works from.
THEOREM ReleaseIsFinal == Spec => []ArmedNeverReparked
  <1>1. Init => SettledInv
    BY DEF Init, SettledInv, Settled
  <1>2. TypeInv /\ TeardownInv /\ SettledInv /\ Next => SettledInv'
    BY ReconcileSettled, OthersSettled DEF Next, ControllerStep, SettledInv
  <1>3. SettledInv /\ UNCHANGED vars => SettledInv'
    BY DEF vars, SettledInv, Settled
  <1>4. TypeInv /\ SettledInv => ArmedNeverReparked
    BY DEF TypeInv, TypeOK, SettledInv, Settled, ArmedNeverReparked
  <1>5. QED
    BY <1>1, <1>2, <1>3, <1>4, TypeInvariant, TeardownInvariant, PTL DEF Spec

=============================================================================
