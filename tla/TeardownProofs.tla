--------------------------- MODULE TeardownProofs ---------------------------
(***************************************************************************)
(* Theorems about TeardownSystem for every set of Machines, every timeout  *)
(* and every number of faults.                                             *)
(***************************************************************************)
EXTENDS TeardownSystem, FiniteSetTheorems, TLAPS

USE DEF local, etcdVars, nodeVars, clusterVars

(* What a stamp step is about to write belongs under the key it writes.      *)
OutFits ==
  \A m \in Machines :
    /\ pc[m] = "stampEtcd" => out[m] \in EtcdOutcomes \ {"none"}
    /\ pc[m] = "stampReset" => out[m] \in ResetOutcomes \ {"none"}

TypeInv == TypeOK /\ OutFits

\* Every change the controller makes to a Machine object gives a Machine object.
LEMMA MachineUpdates ==
  ASSUME NEW r \in MachineType
  PROVE  /\ [r EXCEPT !.hook = TRUE, !.legacy = FALSE] \in MachineType
         /\ \A b \in BOOLEAN : [r EXCEPT !.hook = TRUE, !.legacy = @ /\ b] \in MachineType
         /\ \A b \in BOOLEAN : [r EXCEPT !.hook = FALSE, !.legacy = @ /\ b] \in MachineType
         /\ [r EXCEPT !.obs = 0] \in MachineType
         /\ \A o \in EtcdOutcomes : [r EXCEPT !.etcd = o] \in MachineType
         /\ \A o \in ResetOutcomes : [r EXCEPT !.reset = o] \in MachineType
         /\ Age(r) \in MachineType
         /\ r.legacy \in BOOLEAN
<1>1. 0 \in 0..MaxAge /\ \A n \in 0..(MaxAge - 1) : n + 1 \in 0..MaxAge
  BY TimeAssumption DEF MaxAge
<1>2. Age(r) \in MachineType
  BY <1>1 DEF MachineType, Age
<1>3. [r EXCEPT !.obs = 0] \in MachineType
  BY <1>1 DEF MachineType
<1>4. QED
  BY <1>2, <1>3 DEF MachineType

\* The blank local object is a Machine object.
LEMMA BlankType == Blank \in MachineType
  BY DEF Blank, MachineType, Reasons, EtcdOutcomes, ResetOutcomes, Unset

\* The initial states are well typed.
LEMMA InitType == Init => TypeInv
  <1> SUFFICES ASSUME Init PROVE TypeInv
    OBVIOUS
  <1>1. ASSUME NEW m \in Machines PROVE Initial(m) \in MachineType
    <2>1. \A h, l \in BOOLEAN : [Blank EXCEPT !.hook = h, !.legacy = l] \in MachineType
      BY BlankType DEF MachineType
    <2>2. (m \in Hooked) \in BOOLEAN /\ (m \in Legacy) \in BOOLEAN
      OBVIOUS
    <2>3. QED
      BY <2>1, <2>2, Zenon DEF Initial
  <1>2. OutFits
    BY DEF Init, OutFits
  <1>3. TypeOK
    BY <1>1, BlankType, SubsetAssumption, TimeAssumption, SystemAssumption
    DEF Init, TypeOK, Steps, EtcdOutcomes
  <1>4. QED
    BY <1>2, <1>3 DEF TypeInv

-----------------------------------------------------------------------------
(* Typing of the controller's steps *)

LocalType ==
  /\ pc \in [Machines -> Steps]
  /\ view \in [Machines -> MachineType]
  /\ out \in [Machines -> EtcdOutcomes \cup ResetOutcomes]
  /\ peer \in [Machines -> Machines \cup {0}]
  /\ OutFits

\* An outcome o may accompany a move to step next.
Fits(next, o) ==
  \/ next \in Steps \ {"stampEtcd", "stampReset"} /\ o = "none"
  \/ next = "stampEtcd" /\ o \in EtcdOutcomes \ {"none"}
  \/ next = "stampReset" /\ o \in ResetOutcomes \ {"none"}

\* Moving a reconcile to another step keeps its local state well typed.
LEMMA ContinueType ==
  ASSUME LocalType, NEW m \in Machines, NEW next, NEW v \in MachineType, NEW o,
         NEW p \in Machines \cup {0}, Fits(next, o), Continue(m, next, v, o, p)
  PROVE  LocalType'
  <1>1. next \in Steps /\ o \in EtcdOutcomes \cup ResetOutcomes
    BY DEF Fits, Steps, EtcdOutcomes, ResetOutcomes
  <1>2. OutFits'
    BY <1>1 DEF LocalType, Continue, OutFits, Fits
  <1>3. QED
    BY <1>1, <1>2 DEF LocalType, Continue

\* A reconcile that returns leaves its local state and the queue well typed.
LEMMA ReturnType ==
  ASSUME LocalType, NEW m \in Machines, queue \subseteq Machines, Return(m) \/ Requeue(m)
  PROVE  LocalType' /\ queue' \subseteq Machines
  <1>1. Fits("idle", "none")
    BY DEF Fits, Steps
  <1>2. QED
    BY <1>1, ContinueType, BlankType DEF Return, Requeue

\* Going on at another step without an outcome keeps the local state well typed.
LEMMA GotoType ==
  ASSUME LocalType, NEW m \in Machines, NEW next \in Steps \ {"stampEtcd", "stampReset"},
         Goto(m, next)
  PROVE  LocalType'
  <1>1. Fits(next, "none") /\ view[m] \in MachineType
    BY DEF Fits, LocalType
  <1>2. QED
    BY <1>1, ContinueType DEF Goto

\* A patch, taken or failed, keeps the Machines and the local state well typed.
LEMMA PatchType ==
  ASSUME TypeInv, NEW m \in Machines, NEW stored \in MachineType,
         NEW next \in Steps \ {"stampEtcd", "stampReset"}, NEW v \in MachineType,
         PatchAnnotations(m, stored, next, v)
  PROVE  /\ LocalType' /\ queue' \subseteq Machines
         /\ api' \in [Machines -> MachineType] /\ faults' \in 0..MaxFaults
  <1>1. LocalType /\ Fits(next, "none") /\ queue \subseteq Machines
    BY DEF TypeInv, TypeOK, LocalType, Fits
  <1>2. LocalType' /\ queue' \subseteq Machines
    BY <1>1, ContinueType, ReturnType DEF PatchAnnotations
  <1>3. api' \in [Machines -> MachineType]
    BY DEF PatchAnnotations, TypeInv, TypeOK
  <1>4. faults' \in 0..MaxFaults
    BY TimeAssumption DEF PatchAnnotations, Fault, TypeInv, TypeOK
  <1>5. QED
    BY <1>2, <1>3, <1>4

\* Every step of a reconcile keeps the types.
LEMMA ReconcileStepType ==
  ASSUME TypeInv, NEW m \in Machines, ReconcileStep(m)
  PROVE  TypeInv'
  <1>1. /\ LocalType /\ queue \subseteq Machines
        /\ view[m] \in MachineType /\ cache[m] \in MachineType /\ api[m] \in MachineType
        /\ view[m].legacy \in BOOLEAN
    BY MachineUpdates DEF TypeInv, TypeOK, LocalType
  <1> DEFINE Local == LocalType' /\ queue' \subseteq Machines
  <1> DEFINE Api == api' \in [Machines -> MachineType]
  <1> DEFINE Faults == faults' \in 0..MaxFaults
  <1>2. ASSUME Local, Api, Faults,
               cache' = cache, cluster' = cluster, clusterCache' = clusterCache, mc' = mc,
               armed' = armed, members' \subseteq members,
               secret' \in [live : BOOLEAN, cached : BOOLEAN],
               node' \in [Machines -> {"booting", "up", "down"}],
               wiped' \subseteq Machines, acked' \subseteq Machines
        PROVE  TypeInv'
    BY <1>2 DEF TypeInv, TypeOK, LocalType
  <1>3. UNCHANGED faults \/ Fault => Faults
    BY TimeAssumption DEF TypeInv, TypeOK, Fault
  <1>4. UNCHANGED <<secret, members, node, wiped, acked>>
        => /\ members' \subseteq members /\ secret' \in [live : BOOLEAN, cached : BOOLEAN]
           /\ node' \in [Machines -> {"booting", "up", "down"}]
           /\ wiped' \subseteq Machines /\ acked' \subseteq Machines
    BY DEF TypeInv, TypeOK
  <1>5. UNCHANGED api => Api
    BY DEF TypeInv, TypeOK
  <1>6. (Return(m) \/ Requeue(m)) => Local
    BY <1>1, ReturnType
  <1>7. \A next \in Steps \ {"stampEtcd", "stampReset"} :
          Goto(m, next) /\ UNCHANGED queue => Local
    BY <1>1, GotoType
  <1>8. \A next, o : \A p \in Machines \cup {0} :
          Fits(next, o) /\ Continue(m, next, view[m], o, p) /\ UNCHANGED queue => Local
    BY <1>1, ContinueType
  <1>9. EtcdFailed(m) => Local
    <2>1. Fits("stampEtcd", "orphaned")
      BY DEF Fits, EtcdOutcomes
    <2>2. QED
      BY <1>6, <1>8, <2>1 DEF EtcdFailed
  <1>10. ResetFailed(m) => Local
    <2>1. Fits("stampReset", "skipped-timeout")
      BY DEF Fits, ResetOutcomes
    <2>2. QED
      BY <1>6, <1>8, <2>1 DEF ResetFailed
  <1>a. CASE Reconcile(m)
    <2>1. Local
      <3>1. CASE UNCHANGED local
        BY <1>a, <1>1, <3>1 DEF Reconcile, LocalType, OutFits
      <3>2. CASE \E first \in {"hook", "creds", "gate"} : Continue(m, first, cache[m], "none", 0)
        <4>1. \A first \in {"hook", "creds", "gate"} : Fits(first, "none")
          BY DEF Fits, Steps
        <4>2. LocalType'
          BY <1>1, <3>2, <4>1, ContinueType
        <4>3. QED
          BY <1>1, <1>a, <4>2 DEF Reconcile
      <3>3. QED
        BY <1>a, <3>1, <3>2 DEF Reconcile
    <2>2. QED
      BY <1>a, <1>2, <1>3, <1>4, <1>5, <2>1 DEF Reconcile
  <1>b. CASE EnsureHook(m)
    <2>1. /\ [api[m] EXCEPT !.hook = TRUE, !.legacy = @ /\ ~view[m].legacy] \in MachineType
          /\ [view[m] EXCEPT !.hook = TRUE, !.legacy = FALSE] \in MachineType
      <3>1. (~view[m].legacy) \in BOOLEAN
        OBVIOUS
      <3>2. QED
        BY <1>1, <3>1, MachineUpdates
    <2>2. Local /\ Api /\ Faults
      BY <1>b, <2>1, PatchType DEF EnsureHook, Steps
    <2>3. QED
      BY <1>b, <1>2, <1>4, <2>2 DEF EnsureHook
  <1>c. CASE EnsureCredentials(m)
    <2>1. Local
      BY <1>c, <1>6, <1>7 DEF EnsureCredentials, Steps
    <2>2. secret' \in [live : BOOLEAN, cached : BOOLEAN]
      <3>1. \A s \in [live : BOOLEAN, cached : BOOLEAN] : \A b \in BOOLEAN :
              [s EXCEPT !.cached = b] \in [live : BOOLEAN, cached : BOOLEAN]
        OBVIOUS
      <3>2. (secret.cached \/ secret.live) \in BOOLEAN
        OBVIOUS
      <3>3. secret \in [live : BOOLEAN, cached : BOOLEAN]
        BY DEF TypeInv, TypeOK
      <3>4. secret' = secret \/ secret' = [secret EXCEPT !.cached = secret.cached \/ secret.live]
        BY <1>c DEF EnsureCredentials
      <3>5. QED
        BY <3>1, <3>2, <3>3, <3>4, Zenon
    <2>3. Faults /\ Api
      BY <1>c, <1>3, <1>5 DEF EnsureCredentials
    <2>4. QED
      BY <1>c, <1>2, <2>1, <2>2, <2>3 DEF EnsureCredentials, TypeInv, TypeOK
  <1>d. CASE EnsureObservedAt(m)
    <2>1. [api[m] EXCEPT !.obs = 0] \in MachineType /\ [view[m] EXCEPT !.obs = 0] \in MachineType
      BY <1>1, MachineUpdates
    <2>2. Local /\ Api /\ Faults
      <3>1. CASE PatchAnnotations(m, [api[m] EXCEPT !.obs = 0], "etcd", [view[m] EXCEPT !.obs = 0])
        BY <2>1, <3>1, PatchType DEF Steps
      <3>2. CASE (Return(m) \/ Requeue(m) \/ (Goto(m, "etcd") /\ UNCHANGED queue)) /\ UNCHANGED <<api, faults>>
        BY <3>2, <1>3, <1>5, <1>6, <1>7 DEF Steps
      <3>3. QED
        BY <1>d, <3>1, <3>2 DEF EnsureObservedAt
    <2>3. QED
      BY <1>d, <1>2, <1>4, <2>2 DEF EnsureObservedAt
  <1>e. CASE EtcdPhase(m)
    <2>1. Fits("stampEtcd", "skipped-cluster-delete")
      BY DEF Fits, EtcdOutcomes
    <2>2. Local
      BY <1>e, <1>6, <1>7, <1>8, <2>1 DEF EtcdPhase, Steps
    <2>3. QED
      BY <1>e, <1>2, <1>3, <1>4, <1>5, <2>2 DEF EtcdPhase
  <1>f. CASE FindHealthyPeer(m)
    <2>1. Fits("stampEtcd", "not-member") /\ Fits("leave", "none")
      BY DEF Fits, EtcdOutcomes, Steps
    <2>2. Local
      BY <1>f, <1>8, <1>9, <2>1 DEF FindHealthyPeer
    <2>3. QED
      BY <1>f, <1>2, <1>3, <1>4, <1>5, <2>2 DEF FindHealthyPeer
  <1>g. CASE LeaveViaVictim(m)
    <2>1. Fits("stampEtcd", "left") /\ Fits("remove", "none") /\ peer[m] \in Machines \cup {0}
      BY <1>1 DEF Fits, EtcdOutcomes, Steps, LocalType
    <2>2. Local
      BY <1>g, <1>8, <2>1 DEF LeaveViaVictim
    <2>3. QED
      BY <1>g, <1>2, <1>3, <1>5, <2>2 DEF LeaveViaVictim, TypeInv, TypeOK
  <1>h. CASE RemoveViaPeer(m)
    <2>1. Fits("stampEtcd", "removed")
      BY DEF Fits, EtcdOutcomes
    <2>2. Local
      BY <1>h, <1>8, <1>9, <2>1 DEF RemoveViaPeer
    <2>3. QED
      BY <1>h, <1>2, <1>3, <1>5, <2>2 DEF RemoveViaPeer, TypeInv, TypeOK
  <1>i. CASE StampEtcd(m)
    <2>1. out[m] \in EtcdOutcomes
      BY <1>i DEF StampEtcd, TypeInv, OutFits
    <2>2. [api[m] EXCEPT !.etcd = out[m]] \in MachineType /\ [view[m] EXCEPT !.etcd = out[m]] \in MachineType
      BY <1>1, <2>1, MachineUpdates
    <2>3. Local /\ Api /\ Faults
      BY <1>i, <2>2, PatchType DEF StampEtcd, Steps
    <2>4. QED
      BY <1>i, <1>2, <1>4, <2>3 DEF StampEtcd
  <1>j. CASE TryReset(m)
    <2>1. Fits("stampReset", "skipped-no-address") /\ Fits("stampReset", "done")
      BY DEF Fits, ResetOutcomes
    <2>2. Local
      BY <1>j, <1>7, <1>8, <1>10, <2>1 DEF TryReset, Steps
    <2>3. Faults /\ Api
      BY <1>j, <1>3, <1>5 DEF TryReset
    <2>4. QED
      BY <1>j, <1>2, <2>2, <2>3 DEF TryReset, TypeInv, TypeOK
  <1>k. CASE StampReset(m)
    <2>1. out[m] \in ResetOutcomes
      BY <1>k DEF StampReset, TypeInv, OutFits
    <2>2. [api[m] EXCEPT !.reset = out[m]] \in MachineType /\ [view[m] EXCEPT !.reset = out[m]] \in MachineType
      BY <1>1, <2>1, MachineUpdates
    <2>3. Local /\ Api /\ Faults
      BY <1>k, <2>2, PatchType DEF StampReset, Steps
    <2>4. QED
      BY <1>k, <1>2, <1>4, <2>3 DEF StampReset
  <1>l. CASE Release(m)
    <2>1. [api[m] EXCEPT !.hook = FALSE, !.legacy = @ /\ ~view[m].legacy] \in MachineType
      <3>1. (~view[m].legacy) \in BOOLEAN
        OBVIOUS
      <3>2. QED
        BY <1>1, <3>1, MachineUpdates
    <2>2. Local /\ Api /\ Faults
      BY <1>l, <2>1, BlankType, PatchType DEF Release, Steps
    <2>3. QED
      BY <1>l, <1>2, <1>4, <2>2 DEF Release
  <1>m. QED
    BY <1>a, <1>b, <1>c, <1>d, <1>e, <1>f, <1>g, <1>h, <1>i, <1>j, <1>k, <1>l DEF ReconcileStep

-----------------------------------------------------------------------------
(* Typing of the other steps *)

\* Watches, the credential collector, the clock and a crash keep the types.
LEMMA BackgroundType ==
  ASSUME TypeInv, CacheSync \/ ClusterSync \/ CredentialGC \/ Tick \/ Crash
  PROVE  TypeInv'
  <1>1. CASE CacheSync
    BY <1>1 DEF CacheSync, TypeInv, TypeOK, OutFits
  <1>2. CASE ClusterSync
    BY <1>2 DEF ClusterSync, TypeInv, TypeOK, OutFits
  <1>3. CASE CredentialGC
    BY <1>3 DEF CredentialGC, TypeInv, TypeOK, OutFits
  <1>4. CASE Tick
    <2>1. \A r \in MachineType : Age(r) \in MachineType
      BY MachineUpdates
    <2>2. QED
      BY <1>4, <2>1 DEF Tick, TypeInv, TypeOK, OutFits
  <1>5. CASE Crash
    <2>1. faults' \in 0..MaxFaults
      BY <1>5, TimeAssumption DEF Crash, Fault, TypeInv, TypeOK
    <2>2. QED
      BY <1>5, <2>1, BlankType DEF Crash, TypeInv, TypeOK, OutFits, Steps, EtcdOutcomes
  <1>6. QED
    BY <1>1, <1>2, <1>3, <1>4, <1>5

\* Every change the outside world makes to a Machine gives a Machine object.
LEMMA WorldUpdates ==
  ASSUME NEW r \in MachineType
  PROVE  /\ \A t \in Nat : [r EXCEPT !.del = t] \in MachineType
         /\ \A c \in Reasons : [r EXCEPT !.reason = c] \in MachineType
         /\ [r EXCEPT !.leaving = TRUE] \in MachineType
         /\ \A f \in BOOLEAN : [r EXCEPT !.foreign = f] \in MachineType
         /\ [r EXCEPT !.obs = Garbled] \in MachineType
  BY DEF MachineType

\* The outside world keeps the types.
LEMMA EnvironmentType ==
  ASSUME TypeInv, Environment
  PROVE  TypeInv'
  <1>0. (UNCHANGED faults \/ Fault) => faults' \in 0..MaxFaults
    BY TimeAssumption DEF Fault, TypeInv, TypeOK
  <1>1. CASE DeleteCluster \/ ClusterGone \/ SecretCollected
    BY <1>0, <1>1 DEF DeleteCluster, ClusterGone, SecretCollected, TypeInv, TypeOK, OutFits
  <1>2. ASSUME NEW m \in Machines, DeleteMachine(m) PROVE TypeInv'
    <2>1. Cardinality(Machines) \in Nat
      BY MachinesAssumption, FS_CardinalityType
    <2>2. PICK t \in 1..Cardinality(Machines) : api' = [api EXCEPT ![m].del = t]
      BY <1>2 DEF DeleteMachine
    <2>3. t \in Nat
      BY <2>1
    <2>4. api' \in [Machines -> MachineType]
      BY <2>2, <2>3, WorldUpdates DEF TypeInv, TypeOK
    <2>5. QED
      BY <1>2, <2>4 DEF DeleteMachine, TypeInv, TypeOK, OutFits
  <1>3. ASSUME NEW m \in Machines, MarkLeaving(m) \/ ForeignAdds(m) \/ ForeignRelease(m)
        PROVE  TypeInv'
    <2>1. api' \in [Machines -> MachineType]
      <3>1. CASE MarkLeaving(m)
        BY <3>1, WorldUpdates DEF MarkLeaving, TypeInv, TypeOK
      <3>2. CASE ForeignRelease(m)
        BY <3>2, WorldUpdates DEF ForeignRelease, TypeInv, TypeOK
      <3>3. CASE ForeignAdds(m)
        BY <3>3, WorldUpdates DEF ForeignAdds, TypeInv, TypeOK
      <3>4. QED
        BY <1>3, <3>1, <3>2, <3>3
    <2>2. QED
      BY <1>3, <2>1 DEF MarkLeaving, ForeignAdds, ForeignRelease, TypeInv, TypeOK, OutFits
  <1>4. ASSUME NEW m \in Machines, ScaleDownLeave(m) PROVE TypeInv'
    BY <1>4 DEF ScaleDownLeave, TypeInv, TypeOK, OutFits
  <1>5. ASSUME NEW m \in Machines, MachineController(m) \/ DrainEnds(m) PROVE TypeInv'
    <2>1. api' \in [Machines -> MachineType]
      <3>1. UNCHANGED api \/ \E c \in Reasons : api' = [api EXCEPT ![m].reason = c]
        BY <1>5 DEF MachineController, DrainEnds, McNotice, McDrained, McRepark, Park,
                    McDeleteInfra, McReport, PowerOff, McFinish, Reasons
      <3>2. ASSUME NEW c \in Reasons, api' = [api EXCEPT ![m].reason = c]
            PROVE  api' \in [Machines -> MachineType]
        BY <3>2, WorldUpdates DEF TypeInv, TypeOK
      <3>3. QED
        BY <3>1, <3>2 DEF TypeInv, TypeOK
    <2>2. /\ mc' \in [Machines -> {"none", "drain", "gate", "infra"}]
          /\ node' \in [Machines -> {"booting", "up", "down"}]
          /\ McUnchanged /\ UNCHANGED <<wiped, acked>>
      BY <1>5 DEF MachineController, DrainEnds, McNotice, McDrained, McRepark, Park, McDeleteInfra,
                  McReport, PowerOff, McFinish, TypeInv, TypeOK
    <2>3. QED
      BY <2>1, <2>2 DEF McUnchanged, TypeInv, TypeOK, OutFits
  <1>6. ASSUME NEW m \in Machines, Boot(m) \/ NodeDies(m) PROVE TypeInv'
    BY <1>0, <1>6, SubsetAssumption DEF Boot, NodeDies, TypeInv, TypeOK, OutFits
  <1>7. ASSUME NEW m \in Machines, HandEdit(m) PROVE TypeInv'
    <2>1. api' \in [Machines -> MachineType]
      BY <1>7, WorldUpdates DEF HandEdit, TypeInv, TypeOK
    <2>2. QED
      BY <1>0, <1>7, <2>1 DEF HandEdit, TypeInv, TypeOK, OutFits
  <1>8. QED
    BY <1>1, <1>2, <1>3, <1>4, <1>5, <1>6, <1>7 DEF Environment

\* Every step keeps the state well typed.
LEMMA TypeStep == TypeInv /\ [Next]_vars => TypeInv'
  <1>1. TypeInv /\ Next => TypeInv'
    BY ReconcileStepType, BackgroundType, EnvironmentType DEF Next, ControllerStep
  <1>2. TypeInv /\ UNCHANGED vars => TypeInv'
    BY DEF TypeInv, TypeOK, OutFits, vars
  <1>3. QED
    BY <1>1, <1>2

\* The strengthened type invariant holds in every reachable state.
LEMMA TypeInvariant == Spec => []TypeInv
  BY InitType, TypeStep, PTL DEF Spec

\* Type correctness of the composed system: annotations hold only values of
\* their own key, deadlines stay in range, local objects stay Machines.
THEOREM TypeCorrect == Spec => []TypeOK
  <1>1. TypeInv => TypeOK
    BY DEF TypeInv
  <1>2. QED
    BY <1>1, TypeInvariant, PTL

=============================================================================
