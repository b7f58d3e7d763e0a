----------------------------- MODULE GateProofs -----------------------------
(***************************************************************************)
(* TeardownSystem implements DeletionGate, for every set of Machines,      *)
(* every timeout and every number of faults.                               *)
(*                                                                         *)
(* Only four steps move a Machine through the gate: its deletion, the two  *)
(* stamps and the deletion of its infrastructure.  That each starts from   *)
(* the right phase is what TeardownInv says of the stale object a          *)
(* reconcile works from; Undecided adds that a Machine has no conclusion   *)
(* before it is deleted.                                                   *)
(***************************************************************************)
EXTENDS TeardownGate, TeardownSafety

USE DEF local, etcdVars, nodeVars, clusterVars

Undecided ==
  \A m \in Machines : api[m].del = 0 => api[m].etcd = "none" /\ api[m].reset = "none"

(* A step that does not move Machine n.                                      *)
Same(n) ==
  /\ api'[n].etcd = api[n].etcd /\ api'[n].reset = api[n].reset
  /\ mc'[n] = "infra" <=> mc[n] = "infra"
  /\ n \in armed' <=> n \in armed

\* Such a step leaves the phase alone.
LEMMA SamePhase == ASSUME NEW n, Same(n) PROVE Phase(n)' = Phase(n)
  BY DEF Same, Phase

\* A step that moves nobody and wipes nobody is a stutter of the gate.
LEMMA Still ==
  ASSUME wiped' = wiped, \A n \in Machines : Same(n)
  PROVE  UNCHANGED Gate!vars
  <1>1. \A n \in Machines : Phase(n)' = Phase(n)
    BY SamePhase
  <1>2. [n \in Machines |-> Phase(n)]' = [n \in Machines |-> Phase(n)]
    BY <1>1
  <1>3. QED
    BY <1>2 DEF Gate!vars

\* A step that moves one Machine is a move of the gate.
LEMMA OneMoves ==
  ASSUME wiped' = wiped, NEW m \in Machines, \A n \in Machines \ {m} : Same(n),
         NEW p, NEW q, Phase(m) = p, Phase(m)' = q
  PROVE  Gate!Move(m, p, q)
  <1>1. \A n \in Machines \ {m} : Phase(n)' = Phase(n)
    BY SamePhase
  <1>2. [n \in Machines |-> Phase(n)]' = [[n \in Machines |-> Phase(n)] EXCEPT ![m] = q]
    BY <1>1
  <1>3. QED
    BY <1>2 DEF Gate!Move

\* The initial states are initial states of the gate.
LEMMA GateInit == Init => Gate!Init
  <1> SUFFICES ASSUME Init PROVE Gate!Init
    OBVIOUS
  <1>1. \A m \in Machines : Phase(m) = "free"
    BY DEF Init, Phase
  <1>2. QED
    BY <1>1 DEF Init, Gate!Init

-----------------------------------------------------------------------------
(* The steps *)

\* Every patch but the stamps leaves the conclusions alone.
LEMMA PlainPatch ==
  ASSUME TypeInv, NEW m \in Machines, NEW stored, NEW next, NEW v,
         PatchAnnotations(m, stored, next, v),
         stored.etcd = api[m].etcd, stored.reset = api[m].reset, stored.del = api[m].del
  PROVE  /\ api'[m].etcd = api[m].etcd /\ api'[m].reset = api[m].reset
         /\ api'[m].del = api[m].del
  BY DEF PatchAnnotations, TypeInv, TypeOK

\* What a step of a reconcile does not touch.
LEMMA ReconcileFrame ==
  ASSUME NEW m \in Machines, ReconcileStep(m)
  PROVE  /\ mc' = mc /\ armed' = armed
         /\ ~TryReset(m) => wiped' = wiped
         /\ wiped' = wiped \/ wiped' = wiped \cup {m}
  <1>1. CASE TryReset(m)
    BY <1>1 DEF TryReset
  <1>2. CASE ~TryReset(m)
    BY <1>2 DEF ReconcileStep, Reconcile, EnsureHook, EnsureCredentials, EnsureObservedAt,
                EtcdPhase, FindHealthyPeer, LeaveViaVictim, RemoveViaPeer, StampEtcd,
                StampReset, Release
  <1>3. QED
    BY <1>1, <1>2

\* A step of a reconcile is a step of the gate or a stutter, and a Machine that
\* is not deleted gets no conclusion.
LEMMA ReconcileGate ==
  ASSUME TypeInv, TeardownInv, NEW m \in Machines, ReconcileStep(m)
  PROVE  /\ Gate!Next \/ UNCHANGED Gate!vars
         /\ Undecided => Undecided'
  <1>0. /\ api \in [Machines -> MachineType] /\ api[m] \in MachineType
        /\ MachineInv(m) /\ OutFits
    BY DEF TypeInv, TypeOK, TeardownInv
  <1>1. \A n \in Machines \ {m} : api'[n] = api[n]
    BY OnlyOwn
  <1>2. \A n \in Machines \ {m} : Same(n)
    BY <1>1, ReconcileFrame DEF Same
  <1>3. ASSUME api'[m].etcd = api[m].etcd, api'[m].reset = api[m].reset,
               api'[m].del = api[m].del
        PROVE  Same(m) /\ (Undecided => Undecided')
    <2>1. Same(m)
      BY <1>3, ReconcileFrame DEF Same
    <2>2. Undecided => Undecided'
      BY <1>1, <1>3 DEF Undecided
    <2>3. QED
      BY <2>1, <2>2
  <1>4. CASE StampEtcd(m)
    <2>1. api' = api \/ api' = [api EXCEPT ![m] = [api[m] EXCEPT !.etcd = out[m]]]
      BY <1>4 DEF StampEtcd, PatchAnnotations
    <2>2. out[m] # "none" /\ api[m].del > 0
      BY <1>0, <1>4 DEF StampEtcd, OutFits, MachineInv, Progress, Behind, Deleting
    <2>3. wiped' = wiped /\ mc' = mc /\ armed' = armed
      BY <1>4 DEF StampEtcd
    <2>4. CASE api' = api
      BY <1>2, <1>3, <2>3, <2>4, Still
    <2>5. CASE api' = [api EXCEPT ![m] = [api[m] EXCEPT !.etcd = out[m]]]
      <3>1. api'[m].etcd = out[m] /\ api'[m].reset = api[m].reset /\ api'[m].del = api[m].del
        BY <1>0, <2>5 DEF MachineType
      <3>2. Undecided => Undecided'
        BY <1>1, <2>2, <3>1 DEF Undecided
      <3>3. CASE Phase(m) = "joined"
        <4>1. Phase(m)' = "left"
          BY <2>2, <2>3, <3>1, <3>3 DEF Phase
        <4>2. Gate!LeaveEtcd(m)
          BY <1>2, <2>3, <3>3, <4>1, OneMoves DEF Gate!LeaveEtcd
        <4>3. QED
          BY <3>2, <4>2 DEF Gate!Next
      <3>4. CASE Phase(m) # "joined"
        <4>1. Phase(m)' = Phase(m)
          BY <2>2, <2>3, <3>1, <3>4 DEF Phase
        <4>2. \A n \in Machines : Phase(n)' = Phase(n)
          BY <1>2, <4>1, SamePhase
        <4>3. [n \in Machines |-> Phase(n)]' = [n \in Machines |-> Phase(n)]
          BY <4>2
        <4>4. QED
          BY <2>3, <3>2, <4>3 DEF Gate!vars
      <3>5. QED
        BY <3>3, <3>4
    <2>6. QED
      BY <2>1, <2>4, <2>5
  <1>5. CASE StampReset(m)
    <2>1. api' = api \/ api' = [api EXCEPT ![m] = [api[m] EXCEPT !.reset = out[m]]]
      BY <1>5 DEF StampReset, PatchAnnotations
    <2>2. /\ out[m] # "none" /\ api[m].del > 0
          /\ m \in ControlPlane => api[m].etcd # "none"
      BY <1>0, <1>5 DEF StampReset, OutFits, MachineInv, Progress, Behind, Deleting
    <2>3. wiped' = wiped /\ mc' = mc /\ armed' = armed
      BY <1>5 DEF StampReset
    <2>4. CASE api' = api
      BY <1>2, <1>3, <2>3, <2>4, Still
    <2>5. CASE api' = [api EXCEPT ![m] = [api[m] EXCEPT !.reset = out[m]]]
      <3>1. api'[m].etcd = api[m].etcd /\ api'[m].reset = out[m] /\ api'[m].del = api[m].del
        BY <1>0, <2>5 DEF MachineType
      <3>2. Undecided => Undecided'
        BY <1>1, <2>2, <3>1 DEF Undecided
      <3>3. CASE Phase(m) = "left"
        <4>1. Phase(m)' = "cleared"
          BY <2>2, <2>3, <3>1, <3>3 DEF Phase
        <4>2. Gate!Clear(m)
          BY <1>2, <2>3, <3>3, <4>1, OneMoves DEF Gate!Clear
        <4>3. QED
          BY <3>2, <4>2 DEF Gate!Next
      <3>4. CASE Phase(m) # "left"
        <4>1. Phase(m)' = Phase(m)
          BY <2>2, <2>3, <3>1, <3>4 DEF Phase
        <4>2. \A n \in Machines : Phase(n)' = Phase(n)
          BY <1>2, <4>1, SamePhase
        <4>3. [n \in Machines |-> Phase(n)]' = [n \in Machines |-> Phase(n)]
          BY <4>2
        <4>4. QED
          BY <2>3, <3>2, <4>3 DEF Gate!vars
      <3>5. QED
        BY <3>3, <3>4
    <2>6. QED
      BY <2>1, <2>4, <2>5
  <1>6. CASE TryReset(m)
    <2>1. api' = api
      BY <1>6 DEF TryReset
    <2>2. \A n \in Machines : Same(n)
      BY <1>2, <1>3, <2>1
    <2>3. m \in ControlPlane => api[m].etcd # "none"
      BY <1>0, <1>6 DEF TryReset, MachineInv, Progress, Behind
    <2>4. Phase(m) # "joined"
      BY <2>3 DEF Phase
    <2>5. [n \in Machines |-> Phase(n)]' = [n \in Machines |-> Phase(n)]
      BY <2>2, SamePhase
    <2>6. CASE wiped' = wiped
      BY <1>3, <2>1, <2>2, <2>6, Still
    <2>7. CASE wiped' = wiped \cup {m}
      <3>1. Gate!Wipe(m)
        BY <2>4, <2>5, <2>7 DEF Gate!Wipe
      <3>2. QED
        BY <1>3, <2>1, <3>1 DEF Gate!Next
    <2>8. QED
      BY <2>6, <2>7, ReconcileFrame
  <1>7. CASE ~StampEtcd(m) /\ ~StampReset(m) /\ ~TryReset(m)
    <2>1. /\ api'[m].etcd = api[m].etcd /\ api'[m].reset = api[m].reset
          /\ api'[m].del = api[m].del
      <3>1. CASE EnsureHook(m)
        <4> DEFINE s == [api[m] EXCEPT !.hook = TRUE, !.legacy = @ /\ ~view[m].legacy]
        <4>1. s.etcd = api[m].etcd /\ s.reset = api[m].reset /\ s.del = api[m].del
          BY <1>0 DEF MachineType
        <4>2. PatchAnnotations(m, s, "creds", [view[m] EXCEPT !.hook = TRUE, !.legacy = FALSE])
          BY <3>1 DEF EnsureHook
        <4> HIDE DEF s
        <4>3. QED
          BY <4>1, <4>2, PlainPatch
      <3>2. CASE EnsureObservedAt(m)
        BY <1>0, <3>2, PlainPatch DEF EnsureObservedAt, MachineType
      <3>3. CASE Release(m)
        BY <1>0, <3>3, PlainPatch DEF Release, MachineType
      <3>4. QED
        BY <1>7, <3>1, <3>2, <3>3
        DEF ReconcileStep, Reconcile, EnsureCredentials, EtcdPhase, FindHealthyPeer,
            LeaveViaVictim, RemoveViaPeer
    <2>2. wiped' = wiped
      BY <1>7, ReconcileFrame
    <2>3. QED
      BY <1>2, <1>3, <2>1, <2>2, Still
  <1>8. QED
    BY <1>4, <1>5, <1>6, <1>7

(* A step that is no stamp, no deletion and no loss of infrastructure.       *)
Quiet(n) ==
  /\ api'[n].etcd = api[n].etcd /\ api'[n].reset = api[n].reset
  /\ api'[n].del = api[n].del
  /\ mc'[n] = "infra" <=> mc[n] = "infra"

\* Such a step is a stutter of the gate and decides nothing.
LEMMA QuietStep ==
  ASSUME wiped' = wiped, armed' = armed, \A n \in Machines : Quiet(n)
  PROVE  UNCHANGED Gate!vars /\ (Undecided => Undecided')
  <1>1. \A n \in Machines : Same(n)
    BY DEF Quiet, Same
  <1>2. Undecided => Undecided'
    BY DEF Quiet, Undecided
  <1>3. QED
    BY <1>1, <1>2, Still

\* Informers, the collector, the clock and a crash do not move the gate.
LEMMA BackgroundGate ==
  ASSUME TypeInv, CacheSync \/ ClusterSync \/ CredentialGC \/ Tick \/ Crash
  PROVE  UNCHANGED Gate!vars /\ (Undecided => Undecided')
  <1>0. \A n \in Machines : api[n] \in MachineType
    BY DEF TypeInv, TypeOK
  <1>1. wiped' = wiped /\ armed' = armed /\ mc' = mc
    BY DEF CacheSync, ClusterSync, CredentialGC, Tick, Crash
  <1>2. ASSUME NEW n \in Machines PROVE Quiet(n)
    <2>1. CASE Tick
      <3>1. api'[n] = Age(api[n])
        BY <2>1 DEF Tick
      <3>2. QED
        BY <1>0, <1>1, <3>1 DEF Age, MachineType, Quiet
    <2>2. CASE ~Tick
      BY <1>1, <2>2 DEF CacheSync, ClusterSync, CredentialGC, Crash, Quiet
    <2>3. QED
      BY <2>1, <2>2
  <1>3. QED
    BY <1>1, <1>2, QuietStep

\* The deletion of a hooked Machine arms the gate, any other deletion does not
\* move it.
LEMMA DeleteGate ==
  ASSUME TypeInv, TeardownInv, Undecided, NEW m \in Machines, DeleteMachine(m)
  PROVE  (Gate!Next \/ UNCHANGED Gate!vars) /\ Undecided'
  <1>0. api \in [Machines -> MachineType] /\ api[m] \in MachineType
    BY DEF TypeInv, TypeOK
  <1>1. PICK t \in 1..Cardinality(Machines) : api' = [api EXCEPT ![m].del = t]
    BY DEF DeleteMachine
  <1>2. /\ api'[m].del = t /\ api'[m].etcd = api[m].etcd /\ api'[m].reset = api[m].reset
        /\ \A n \in Machines \ {m} : api'[n] = api[n]
    BY <1>0, <1>1 DEF MachineType
  <1>3. t # 0
    BY <1>1, MachinesAssumption, FS_CardinalityType
  <1>4. api[m].etcd = "none" /\ api[m].reset = "none" /\ mc[m] = "none" /\ api[m].del = 0
    BY DEF DeleteMachine, Undecided, TeardownInv, MachineInv, Guarded
  <1>5. wiped' = wiped /\ mc' = mc /\ armed' = IF api[m].hook THEN armed \cup {m} ELSE armed
    BY DEF DeleteMachine
  <1>6. Undecided'
    BY <1>2, <1>3 DEF Undecided
  <1>7. \A n \in Machines \ {m} : Same(n)
    BY <1>2, <1>5 DEF Same
  <1>8. CASE m \in armed \/ ~api[m].hook
    <2>1. Same(m)
      BY <1>2, <1>5, <1>8 DEF Same
    <2>2. QED
      BY <1>5, <1>6, <1>7, <2>1, Still
  <1>9. CASE m \notin armed /\ api[m].hook
    <2>1. Phase(m) = "free"
      BY <1>9 DEF Phase
    <2>2. Phase(m)' = IF m \in ControlPlane THEN "joined" ELSE "left"
      BY <1>2, <1>4, <1>5, <1>9 DEF Phase
    <2>3. Gate!Arm(m)
      BY <1>5, <1>7, <2>1, <2>2, OneMoves DEF Gate!Arm
    <2>4. QED
      BY <1>6, <2>3 DEF Gate!Next
  <1>10. QED
    BY <1>8, <1>9

\* The machine controller deletes the infrastructure of an armed Machine only
\* out of the phase cleared.
LEMMA InfraGate ==
  ASSUME TypeInv, TeardownInv, NEW m \in Machines, McDeleteInfra(m)
  PROVE  (Gate!Next \/ UNCHANGED Gate!vars) /\ (Undecided => Undecided')
  <1>0. mc \in [Machines -> {"none", "drain", "gate", "infra"}] /\ MachineInv(m)
    BY DEF TypeInv, TypeOK, TeardownInv
  <1>1. api' = api /\ wiped' = wiped /\ armed' = armed /\ mc' = [mc EXCEPT ![m] = "infra"]
    BY DEF McDeleteInfra, McUnchanged
  <1>2. mc'[m] = "infra" /\ mc[m] # "infra" /\ \A n \in Machines \ {m} : mc'[n] = mc[n]
    BY <1>0, <1>1 DEF McDeleteInfra
  <1>3. Undecided => Undecided'
    BY <1>1 DEF Undecided
  <1>4. \A n \in Machines \ {m} : Same(n)
    BY <1>1, <1>2 DEF Same
  <1>5. CASE m \in armed
    <2>1. Phase(m) = "cleared"
      BY <1>0, <1>2, <1>5 DEF McDeleteInfra, AnyHook, MachineInv, Guarded, Concluded, Phase
    <2>2. Phase(m)' = "off"
      BY <1>1, <1>2, <1>5 DEF Phase
    <2>3. Gate!LoseInfrastructure(m)
      BY <1>1, <1>4, <2>1, <2>2, OneMoves DEF Gate!LoseInfrastructure
    <2>4. QED
      BY <1>3, <2>3 DEF Gate!Next
  <1>6. CASE m \notin armed
    <2>1. Phase(m)' = Phase(m)
      BY <1>1, <1>6 DEF Phase
    <2>2. [n \in Machines |-> Phase(n)]' = [n \in Machines |-> Phase(n)]
      BY <1>4, <2>1, SamePhase
    <2>3. QED
      BY <1>1, <1>3, <2>2 DEF Gate!vars
  <1>7. QED
    BY <1>5, <1>6

\* Every other step of the environment is a stutter of the gate.
LEMMA EnvironmentGate ==
  ASSUME TypeInv, TeardownInv, Undecided, Environment
  PROVE  (Gate!Next \/ UNCHANGED Gate!vars) /\ Undecided'
  <1>0. api \in [Machines -> MachineType] /\ \A n \in Machines : api[n] \in MachineType
    BY DEF TypeInv, TypeOK
  <1>1. CASE DeleteCluster \/ ClusterGone \/ SecretCollected
    <2>1. api' = api /\ mc' = mc /\ wiped' = wiped /\ armed' = armed
      BY <1>1 DEF DeleteCluster, ClusterGone, SecretCollected
    <2>2. \A n \in Machines : Quiet(n)
      BY <2>1 DEF Quiet
    <2>3. QED
      BY <2>1, <2>2, QuietStep
  <1>2. ASSUME NEW m \in Machines,
               \/ MarkLeaving(m) \/ ScaleDownLeave(m) \/ ForeignAdds(m) \/ ForeignRelease(m) \/ Boot(m)
               \/ NodeDies(m) \/ HandEdit(m)
        PROVE  UNCHANGED Gate!vars /\ Undecided'
    <2>1. mc' = mc /\ wiped' = wiped /\ armed' = armed
      BY <1>2 DEF MarkLeaving, ScaleDownLeave, ForeignAdds, ForeignRelease, Boot, NodeDies, HandEdit
    <2>2. ASSUME NEW n \in Machines PROVE Quiet(n)
      BY <1>0, <1>2, <2>1
      DEF MarkLeaving, ScaleDownLeave, ForeignAdds, ForeignRelease, Boot, NodeDies, HandEdit, MachineType, Quiet
    <2>3. QED
      BY <2>1, <2>2, QuietStep
  <1>3. ASSUME NEW m \in Machines,
               \/ McNotice(m) \/ McDrained(m) \/ McRepark(m) \/ McReport(m) \/ PowerOff(m)
               \/ McFinish(m)
        PROVE  UNCHANGED Gate!vars /\ Undecided'
    <2>1. wiped' = wiped /\ armed' = armed
      BY <1>3 DEF McNotice, McDrained, McRepark, Park, McReport, PowerOff, McFinish, McUnchanged
    <2>2. ASSUME NEW n \in Machines PROVE mc'[n] = "infra" <=> mc[n] = "infra"
      <3>1. mc \in [Machines -> {"none", "drain", "gate", "infra"}]
        BY DEF TypeInv, TypeOK
      <3>2. QED
        BY <1>3, <3>1 DEF McNotice, McDrained, McRepark, Park, McReport, PowerOff, McFinish
    <2>3. ASSUME NEW n \in Machines PROVE Quiet(n)
      BY <1>0, <1>3, <2>2
      DEF McNotice, McDrained, McRepark, Park, McReport, PowerOff, McFinish, MachineType, Quiet
    <2>4. QED
      BY <2>1, <2>3, QuietStep
  <1>4. QED
    BY <1>1, <1>2, <1>3, DeleteGate, InfraGate DEF Environment, MachineController, DrainEnds

\* Every step of the system is a step of the gate or a stutter, and no Machine
\* is decided before it is deleted.
LEMMA GateStep ==
  TypeInv /\ TeardownInv /\ Undecided /\ [Next]_vars => [Gate!Next]_(Gate!vars) /\ Undecided'
  <1> SUFFICES ASSUME TypeInv, TeardownInv, Undecided, [Next]_vars
               PROVE  (Gate!Next \/ UNCHANGED Gate!vars) /\ Undecided'
    OBVIOUS
  <1>1. CASE \E m \in Machines : ReconcileStep(m)
    BY <1>1, ReconcileGate
  <1>2. CASE CacheSync \/ ClusterSync \/ CredentialGC \/ Tick \/ Crash
    BY <1>2, BackgroundGate
  <1>3. CASE Environment
    BY <1>3, EnvironmentGate
  <1>4. CASE UNCHANGED vars
    <2>1. api' = api /\ mc' = mc /\ wiped' = wiped /\ armed' = armed
      BY <1>4 DEF vars
    <2>2. QED
      BY <2>1, QuietStep DEF Quiet
  <1>5. QED
    BY <1>1, <1>2, <1>3, <1>4 DEF Next, ControllerStep

\* The teardown implements the deletion gate, for every set of Machines, every
\* timeout and every number of faults: out of etcd, cleared, powered off.
THEOREM TeardownImplementsGate == Spec => ImplementsGate
  <1>1. Init => Undecided
    <2>1. \A m \in Machines : Initial(m).etcd = "none" /\ Initial(m).reset = "none"
      BY DEF Initial, Blank
    <2>2. QED
      BY <2>1 DEF Init, Undecided
  <1>2. QED
    BY <1>1, GateInit, GateStep, TypeInvariant, TeardownInvariant, PTL
    DEF Spec, ImplementsGate, Gate!Spec

=============================================================================
