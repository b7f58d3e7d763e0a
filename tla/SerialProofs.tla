---------------------------- MODULE SerialProofs ----------------------------
(***************************************************************************)
(* Serialized etcd removals (serializeControlPlane), for any number of     *)
(* Machines and reconciles and any cache lag.                              *)
(*                                                                         *)
(* Deletion timestamps order the deletions, and the cache shows all        *)
(* Machines as of one moment: once it shows the deletion of n it shows     *)
(* every older one.  A Machine it then shows without the hook, or not at   *)
(* all, has its etcd phase on record (Dated, Ordered).  So a reconcile     *)
(* that passes Held has no unconcluded elder, and no later deletion is     *)
(* one.                                                                    *)
(*                                                                         *)
(* The hypotheses are the cases the code does not serialize: deletions in  *)
(* the same second that the cache shows one after the other, and Machines  *)
(* deleted before they carry the hook.                                     *)
(***************************************************************************)
EXTENDS ConclusionProofs

USE DEF local, etcdVars, nodeVars, clusterVars

Removal == {"member", "leave", "remove"}

(* A copy r of m that would hold nobody back: its etcd phase is on record.   *)
Spent(m, r) == (r.del > 0 /\ ~r.hook) \/ ~Exists(r) => api[m].etcd # "none"

(* A deletion is of a hooked Machine and has one timestamp in every copy.    *)
Dated(m) ==
  /\ api[m].del > 0 => m \in armed
  /\ cache[m].del > 0 => cache[m].del = api[m].del
  /\ view[m].del > 0 => view[m].del = api[m].del
  /\ pc[m] \in Removal => m \in ControlPlane
  /\ m \in ControlPlane => Spent(m, api[m]) /\ Spent(m, cache[m])

(* The deletion of m against the deletion of n.                              *)
Ordered(m, n) ==
  /\ api[m].del > 0 /\ api[m].del = api[n].del => m = n
  /\ 0 < api[m].del /\ api[m].del < api[n].del =>
       /\ cache[n].del > 0 => cache[m].del > 0
       /\ m \in ControlPlane /\ pc[n] \in Removal => api[m].etcd # "none"

SerialInv ==
  /\ \A m \in Machines : Dated(m)
  /\ \A m, n \in Machines : Ordered(m, n)

-----------------------------------------------------------------------------
(* What a step does to the copies of a Machine *)

\* A patch stores what the reconcile asked for or nothing, and goes on with the
\* object it was given or with none.
LEMMA PatchMoves ==
  ASSUME TypeInv, NEW m \in Machines, NEW stored, NEW next, NEW v,
         PatchAnnotations(m, stored, next, v)
  PROVE  /\ api'[m] = api[m] \/ api'[m] = stored
         /\ (pc'[m] = next /\ view'[m] = v) \/ (pc'[m] = "idle" /\ view'[m] = Blank)
  BY DEF PatchAnnotations, Continue, Requeue, TypeInv, TypeOK

\* How the helpers that end a step move the reconcile.
LEMMA HelperMoves ==
  ASSUME TypeInv, NEW m \in Machines
  PROVE  /\ \A next, v, o, p : Continue(m, next, v, o, p) => pc'[m] = next /\ view'[m] = v
         /\ Return(m) \/ Requeue(m) => pc'[m] = "idle" /\ view'[m] = Blank
         /\ \A next : Goto(m, next) => pc'[m] = next /\ view'[m] = view[m]
         /\ EtcdFailed(m) => \/ pc'[m] = "idle" /\ view'[m] = Blank
                             \/ pc'[m] = "stampEtcd" /\ view'[m] = view[m]
         /\ ResetFailed(m) => \/ pc'[m] = "idle" /\ view'[m] = Blank
                              \/ pc'[m] = "stampReset" /\ view'[m] = view[m]
  <1>1. \A next, v, o, p : Continue(m, next, v, o, p) => pc'[m] = next /\ view'[m] = v
    BY DEF Continue, TypeInv, TypeOK
  <1>2. QED
    BY <1>1 DEF Return, Requeue, Goto, EtcdFailed, ResetFailed

(* The deletion a local object shows was there before, or is read from the   *)
(* cache.                                                                    *)
ViewMoves(n) ==
  \/ view'[n].del \in {view[n].del, 0}
  \/ view'[n].del = cache[n].del /\ UNCHANGED <<api, cache>>

(* The etcd phase is only entered past the serialization.                    *)
PhaseMoves(n) ==
  pc'[n] \in Removal =>
    \/ pc[n] \in Removal
    \/ /\ pc[n] = "etcd" /\ pc'[n] = "member" /\ n \in ControlPlane /\ ~Held(n)
       /\ clusterCache = "live" /\ UNCHANGED <<api, cache, clusterCache>>

(* The server keeps deletions, leaving marks and conclusions.                *)
ServerMoves(n) ==
  /\ api'[n].del = api[n].del \/ DeleteMachine(n)
  /\ api[n].etcd # "none" => api'[n].etcd # "none"
  /\ api[n].leaving => api'[n].leaving
  /\ ~Exists(api'[n]) => ~Exists(api[n]) \/ mc[n] = "infra"

\* The steps of the reconcile of a Machine.
LEMMA OwnMoves ==
  ASSUME TypeInv, NEW m \in Machines, ReconcileStep(m)
  PROVE  ViewMoves(m) /\ PhaseMoves(m) /\ ServerMoves(m)
  <1> USE DEF Removal
  <1>0. /\ api[m] \in MachineType /\ view[m] \in MachineType /\ cache[m] \in MachineType
        /\ Blank.del = 0
    BY DEF TypeInv, TypeOK, Blank
  <1>1. ASSUME UNCHANGED api PROVE ServerMoves(m)
    BY <1>1 DEF ServerMoves
  <1>2. ASSUME pc'[m] = "idle", view'[m] = Blank PROVE ViewMoves(m) /\ PhaseMoves(m)
    BY <1>0, <1>2 DEF ViewMoves, PhaseMoves
  <1>3. ASSUME view'[m] = view[m], pc'[m] \in Removal => pc[m] \in Removal
        PROVE  ViewMoves(m) /\ PhaseMoves(m)
    BY <1>3 DEF ViewMoves, PhaseMoves
  <1>4. ASSUME NEW stored, NEW next, NEW v, PatchAnnotations(m, stored, next, v),
               stored.del = api[m].del, api[m].etcd # "none" => stored.etcd # "none",
               stored.leaving = api[m].leaving, stored.reason = api[m].reason,
               v.del \in {view[m].del, 0}, next \notin Removal
        PROVE  ViewMoves(m) /\ PhaseMoves(m) /\ ServerMoves(m)
    BY <1>0, <1>4, PatchMoves DEF ViewMoves, PhaseMoves, ServerMoves, Exists
  <1>a. CASE Reconcile(m)
    <2>1. UNCHANGED <<api, cache>>
      BY <1>a DEF Reconcile
    <2>2. \/ UNCHANGED local
          \/ \E first \in {"hook", "creds", "gate"} : Continue(m, first, cache[m], "none", 0)
      BY <1>a DEF Reconcile
    <2>3. \/ UNCHANGED <<pc, view>>
          \/ pc'[m] \in {"hook", "creds", "gate"} /\ view'[m] = cache[m]
      BY <2>2, HelperMoves
    <2>4. QED
      BY <1>1, <2>1, <2>3 DEF ViewMoves, PhaseMoves
  <1>b. CASE EnsureHook(m)
    <2> DEFINE stored == [api[m] EXCEPT !.hook = TRUE, !.legacy = @ /\ ~view[m].legacy]
    <2> DEFINE v == [view[m] EXCEPT !.hook = TRUE, !.legacy = FALSE]
    <2>1. /\ stored.del = api[m].del /\ stored.etcd = api[m].etcd /\ stored.leaving = api[m].leaving
          /\ stored.reason = api[m].reason /\ v.del \in {view[m].del, 0}
      BY <1>0 DEF MachineType
    <2>2. PatchAnnotations(m, stored, "creds", v)
      BY <1>b DEF EnsureHook
    <2> HIDE DEF stored, v
    <2>3. QED
      BY <1>4, <2>1, <2>2
  <1>c. CASE EnsureCredentials(m)
    <2>1. /\ UNCHANGED api
          /\ \/ pc'[m] = "idle" /\ view'[m] = Blank
             \/ pc'[m] = "gate" /\ view'[m] = view[m]
      BY <1>c, HelperMoves DEF EnsureCredentials
    <2>2. QED
      BY <1>1, <1>2, <1>3, <2>1
  <1>d. CASE EnsureObservedAt(m)
    <2> DEFINE stored == [api[m] EXCEPT !.obs = 0]
    <2> DEFINE v == [view[m] EXCEPT !.obs = 0]
    <2>1. /\ stored.del = api[m].del /\ stored.etcd = api[m].etcd /\ stored.leaving = api[m].leaving
          /\ stored.reason = api[m].reason /\ v.del \in {view[m].del, 0}
      BY <1>0 DEF MachineType
    <2>2. CASE PatchAnnotations(m, stored, "etcd", v)
      <3> HIDE DEF stored, v
      <3> QED BY <1>4, <2>1, <2>2
    <2>3. CASE UNCHANGED api /\ (Return(m) \/ Requeue(m) \/ Goto(m, "etcd"))
      BY <1>1, <1>2, <1>3, <2>3, HelperMoves
    <2>4. QED
      BY <1>d, <2>2, <2>3 DEF EnsureObservedAt
  <1>e. CASE EtcdPhase(m)
    <2>1. UNCHANGED <<api, cache, clusterCache>> /\ pc[m] = "etcd"
      BY <1>e DEF EtcdPhase
    <2>2. \/ pc'[m] = "idle" /\ view'[m] = Blank
          \/ pc'[m] \in {"reset", "stampEtcd"} /\ view'[m] = view[m]
          \/ /\ pc'[m] = "member" /\ view'[m] = view[m]
             /\ m \in ControlPlane /\ ~Held(m) /\ clusterCache = "live"
      BY <1>e, HelperMoves DEF EtcdPhase
    <2>3. QED
      BY <1>1, <1>2, <1>3, <2>1, <2>2 DEF ViewMoves, PhaseMoves
  <1>f. CASE FindHealthyPeer(m) \/ LeaveViaVictim(m) \/ RemoveViaPeer(m)
    <2>1. UNCHANGED api /\ pc[m] \in Removal
      BY <1>f DEF FindHealthyPeer, LeaveViaVictim, RemoveViaPeer
    <2>2. \/ pc'[m] = "idle" /\ view'[m] = Blank
          \/ view'[m] = view[m]
      <3>1. CASE FindHealthyPeer(m)
        BY <3>1, HelperMoves DEF FindHealthyPeer
      <3>2. CASE LeaveViaVictim(m)
        BY <3>2, HelperMoves DEF LeaveViaVictim
      <3>3. CASE RemoveViaPeer(m)
        BY <3>3, HelperMoves DEF RemoveViaPeer
      <3>4. QED
        BY <1>f, <3>1, <3>2, <3>3
    <2>3. QED
      BY <1>1, <1>2, <1>3, <2>1, <2>2
  <1>g. CASE StampEtcd(m)
    <2> DEFINE stored == [api[m] EXCEPT !.etcd = out[m]]
    <2> DEFINE v == [view[m] EXCEPT !.etcd = out[m]]
    <2>1. /\ stored.del = api[m].del /\ stored.etcd = out[m] /\ stored.leaving = api[m].leaving
          /\ stored.reason = api[m].reason /\ v.del \in {view[m].del, 0}
      BY <1>0 DEF MachineType
    <2>2. PatchAnnotations(m, stored, "reset", v)
      BY <1>g DEF StampEtcd
    <2>3. out[m] # "none"
      BY <1>g DEF StampEtcd, TypeInv, OutFits
    <2> HIDE DEF stored, v
    <2>4. QED
      BY <1>4, <2>1, <2>2, <2>3
  <1>h. CASE TryReset(m)
    <2>1. UNCHANGED api
      BY <1>h DEF TryReset
    <2>2. \/ pc'[m] = "idle" /\ view'[m] = Blank
          \/ pc'[m] \in {"stampReset", "release"} /\ view'[m] = view[m]
      BY <1>h, HelperMoves DEF TryReset
    <2>3. QED
      BY <1>1, <1>2, <1>3, <2>1, <2>2
  <1>i. CASE StampReset(m)
    <2> DEFINE stored == [api[m] EXCEPT !.reset = out[m]]
    <2> DEFINE v == [view[m] EXCEPT !.reset = out[m]]
    <2>1. /\ stored.del = api[m].del /\ stored.etcd = api[m].etcd /\ stored.leaving = api[m].leaving
          /\ stored.reason = api[m].reason /\ v.del \in {view[m].del, 0}
      BY <1>0 DEF MachineType
    <2>2. PatchAnnotations(m, stored, "release", v)
      BY <1>i DEF StampReset
    <2> HIDE DEF stored, v
    <2>3. QED
      BY <1>4, <2>1, <2>2
  <1>j. CASE Release(m)
    <2> DEFINE stored == [api[m] EXCEPT !.hook = FALSE, !.legacy = @ /\ ~view[m].legacy]
    <2> DEFINE v == Blank
    <2>1. /\ stored.del = api[m].del /\ stored.etcd = api[m].etcd /\ stored.leaving = api[m].leaving
          /\ stored.reason = api[m].reason /\ v.del \in {view[m].del, 0}
      BY <1>0 DEF MachineType
    <2>2. PatchAnnotations(m, stored, "idle", v)
      BY <1>j DEF Release
    <2> HIDE DEF stored, v
    <2>3. QED
      BY <1>4, <2>1, <2>2
  <1>k. QED
    BY <1>a, <1>b, <1>c, <1>d, <1>e, <1>f, <1>g, <1>h, <1>i, <1>j DEF ReconcileStep

(* The cache becomes the server's state or stays as it is.                   *)
SameShown(n) ==
  /\ cache'[n].del = cache[n].del /\ cache'[n].hook = cache[n].hook
  /\ cache'[n].reason = cache[n].reason /\ cache'[n].leaving = cache[n].leaving
CacheMoves == (UNCHANGED api /\ cache' = api) \/ \A n \in Machines : SameShown(n)

Moves ==
  /\ CacheMoves
  /\ \A n \in Machines : ViewMoves(n) /\ PhaseMoves(n) /\ ServerMoves(n)

\* A Machine whose copies and reconcile a step does not touch.
LEMMA StillMoves ==
  ASSUME NEW n, view'[n] = view[n], pc'[n] = pc[n], api'[n] = api[n]
  PROVE  ViewMoves(n) /\ PhaseMoves(n) /\ ServerMoves(n)
  BY DEF ViewMoves, PhaseMoves, ServerMoves

\* Every step moves the copies of the Machines in these ways only.
LEMMA StepMoves ==
  ASSUME TypeInv, Next
  PROVE  Moves
  <1>0. /\ api \in [Machines -> MachineType] /\ cache \in [Machines -> MachineType]
        /\ view \in [Machines -> MachineType]
    BY DEF TypeInv, TypeOK
  <1>1. cache' = cache => CacheMoves
    BY DEF CacheMoves, SameShown
  <1>2. ASSUME NEW m \in Machines, ReconcileStep(m) PROVE Moves
    <2>1. cache' = cache
      BY <1>2 DEF ReconcileStep, Reconcile, EnsureHook, EnsureCredentials, EnsureObservedAt,
                  EtcdPhase, FindHealthyPeer, LeaveViaVictim, RemoveViaPeer, StampEtcd, TryReset,
                  StampReset, Release
    <2>2. ASSUME NEW n \in Machines PROVE ViewMoves(n) /\ PhaseMoves(n) /\ ServerMoves(n)
      <3>1. CASE n = m
        BY <1>2, <3>1, OwnMoves
      <3>2. CASE n # m
        BY <1>2, <3>2, OnlyOwn, StillMoves
      <3>3. QED
        BY <3>1, <3>2
    <2>3. QED
      BY <1>1, <2>1, <2>2 DEF Moves
  <1>3. CASE ClusterSync \/ CredentialGC \/ DeleteCluster \/ ClusterGone \/ SecretCollected
    <2>1. UNCHANGED <<api, cache, pc, view>>
      BY <1>3 DEF ClusterSync, CredentialGC, DeleteCluster, ClusterGone, SecretCollected
    <2>2. QED
      BY <1>1, <2>1, StillMoves DEF Moves
  <1>4. CASE CacheSync
    <2>1. UNCHANGED <<api, pc, view>> /\ cache' = api
      BY <1>4 DEF CacheSync
    <2>2. QED
      BY <2>1, StillMoves DEF Moves, CacheMoves
  <1>5. CASE Crash
    <2>1. /\ UNCHANGED api /\ cache' = api
          /\ \A n \in Machines : pc'[n] = "idle" /\ view'[n].del = 0
      BY <1>5 DEF Crash, Blank
    <2>2. QED
      BY <2>1 DEF Moves, CacheMoves, ViewMoves, PhaseMoves, ServerMoves, Removal
  <1>6. CASE Tick
    <2>1. \A r \in MachineType :
            /\ Age(r).del = r.del /\ Age(r).reason = r.reason /\ Age(r).hook = r.hook
            /\ Age(r).etcd = r.etcd /\ Age(r).leaving = r.leaving
      BY DEF Age, MachineType
    <2>2. \A n \in Machines : /\ api'[n] = Age(api[n]) /\ cache'[n] = Age(cache[n])
                              /\ view'[n] = Age(view[n]) /\ pc'[n] = pc[n]
      BY <1>6 DEF Tick
    <2>3. CacheMoves
      BY <1>0, <2>1, <2>2 DEF CacheMoves, SameShown
    <2>4. ASSUME NEW n \in Machines PROVE ViewMoves(n) /\ PhaseMoves(n) /\ ServerMoves(n)
      BY <1>0, <2>1, <2>2 DEF ViewMoves, PhaseMoves, ServerMoves, Exists
    <2>5. QED
      BY <2>3, <2>4 DEF Moves
  <1>7. ASSUME NEW m \in Machines,
               \/ DeleteMachine(m) \/ MarkLeaving(m) \/ ScaleDownLeave(m)
               \/ ForeignAdds(m) \/ ForeignRelease(m) \/ Boot(m) \/ NodeDies(m) \/ HandEdit(m)
        PROVE  Moves
    <2>1. UNCHANGED <<cache, pc, view>>
      BY <1>7 DEF DeleteMachine, MarkLeaving, ScaleDownLeave, ForeignAdds, ForeignRelease, Boot, NodeDies,
                  HandEdit
    <2>2. ASSUME NEW n \in Machines
          PROVE  /\ api'[n].del = api[n].del \/ DeleteMachine(n)
                 /\ api'[n].etcd = api[n].etcd /\ api'[n].reason = api[n].reason
                 /\ api[n].leaving => api'[n].leaving
      <3>0. api[n] \in MachineType
        BY <1>0
      <3>1. CASE DeleteMachine(m)
        <4>1. PICK t : api' = [api EXCEPT ![m].del = t]
          BY <3>1 DEF DeleteMachine
        <4>2. QED
          BY <1>0, <3>0, <3>1, <4>1 DEF MachineType
      <3>2. CASE MarkLeaving(m)
        BY <1>0, <3>0, <3>2 DEF MarkLeaving, MachineType
      <3>3. CASE ForeignRelease(m)
        BY <1>0, <3>0, <3>3 DEF ForeignRelease, MachineType
      <3>4. CASE HandEdit(m)
        BY <1>0, <3>0, <3>4 DEF HandEdit, MachineType
      <3>5. CASE ScaleDownLeave(m) \/ Boot(m) \/ NodeDies(m)
        BY <3>5 DEF ScaleDownLeave, Boot, NodeDies
      <3>6. CASE ForeignAdds(m)
        BY <1>0, <3>0, <3>6 DEF ForeignAdds, MachineType
      <3>7. QED
        BY <1>7, <3>1, <3>2, <3>3, <3>4, <3>5, <3>6
    <2>3. QED
      BY <1>1, <2>1, <2>2 DEF Moves, ViewMoves, PhaseMoves, ServerMoves, Exists
  <1>8. ASSUME NEW m \in Machines, MachineController(m) \/ DrainEnds(m) PROVE Moves
    <2>1. UNCHANGED <<cache, pc, view>>
      BY <1>8 DEF MachineController, DrainEnds, McNotice, McDrained, McRepark, Park,
                  McDeleteInfra, McReport, PowerOff, McFinish, McUnchanged
    <2>2. ASSUME NEW n \in Machines
          PROVE  /\ api'[n].del = api[n].del /\ api'[n].etcd = api[n].etcd
                 /\ api'[n].leaving = api[n].leaving
                 /\ ~Exists(api'[n]) => ~Exists(api[n]) \/ mc[n] = "infra"
      BY <1>0, <1>8 DEF MachineController, DrainEnds, McNotice, McDrained, McRepark, Park,
                        McDeleteInfra, McReport, PowerOff, McFinish, MachineType, Exists
    <2>3. QED
      BY <1>1, <2>1, <2>2 DEF Moves, ViewMoves, PhaseMoves, ServerMoves
  <1>9. QED
    BY <1>2, <1>3, <1>4, <1>5, <1>6, <1>7, <1>8 DEF Next, ControllerStep, Environment

-----------------------------------------------------------------------------
(* The order of the deletions *)

\* A deletion that is granted is of a live hooked Machine and the latest one.
LEMMA DeletionIsLatest ==
  ASSUME DeleteNeedsHook, ~SameSecond, TypeInv, NEW m \in Machines, DeleteMachine(m)
  PROVE  /\ UNCHANGED <<cache, pc, view>> /\ m \in armed' /\ api[m].del = 0 /\ api'[m].del > 0
         /\ \A n \in Machines : n # m => api'[n] = api[n]
         /\ \A n \in Machines : api[n].del < api'[m].del
         /\ api'[m].hook /\ Exists(api'[m])
  <1>1. PICK t \in 1..Cardinality(Machines) : NextStamp(t) /\ api' = [api EXCEPT ![m].del = t]
    BY DEF DeleteMachine
  <1>2. t \in Nat /\ t > 0 /\ \A n \in Machines : api[n].del < t
    BY <1>1, MachinesAssumption, FS_CardinalityType DEF NextStamp
  <1>3. api'[m].del = t /\ api'[m].hook = api[m].hook /\ api'[m].reason = api[m].reason
    BY <1>1 DEF TypeInv, TypeOK, MachineType
  <1>4. QED
    BY <1>1, <1>2, <1>3 DEF DeleteMachine, TypeInv, TypeOK, Exists

\* The invariant holds at the start: nothing is deleted.
LEMMA InitSerial == Init => SerialInv
  <1> SUFFICES ASSUME Init PROVE SerialInv
    OBVIOUS
  <1>1. \A m \in Machines : /\ api[m].del = 0 /\ api[m].reason = "none" /\ cache[m] = api[m]
                            /\ view[m].del = 0 /\ pc[m] = "idle"
    BY DEF Init, Initial, Blank
  <1>2. QED
    BY <1>1 DEF SerialInv, Dated, Ordered, Spent, Exists, Removal

\* Every step keeps the deletions dated.
LEMMA DatedStep ==
  ASSUME DeleteNeedsHook, ~SameSecond, TypeInv, TypeInv', TeardownInv, TeardownInv', SerialInv,
         Next, NEW m \in Machines
  PROVE  Dated(m)'
  <1>0. /\ Moves /\ Dated(m) /\ MachineInv(m) /\ MachineInv(m)'
        /\ api[m].del \in Nat /\ cache[m].del \in Nat /\ view[m].del \in Nat
        /\ ViewMoves(m) /\ PhaseMoves(m) /\ ServerMoves(m)
    BY StepMoves DEF TeardownInv, SerialInv, TypeInv, TypeOK, MachineType, Moves
  <1>1. armed \subseteq armed'
    BY DEF Next, ControllerStep, ReconcileStep, Reconcile, EnsureHook, EnsureCredentials,
           EnsureObservedAt, EtcdPhase, FindHealthyPeer, LeaveViaVictim, RemoveViaPeer, StampEtcd,
           TryReset, StampReset, Release, CacheSync, ClusterSync, CredentialGC, Tick, Crash,
           Environment, DeleteCluster, ClusterGone, SecretCollected, DeleteMachine, MarkLeaving,
           ScaleDownLeave, MachineController, DrainEnds, McNotice, McDrained, McRepark, Park,
           McDeleteInfra, McReport, PowerOff, McFinish, McUnchanged, ForeignAdds, ForeignRelease, Boot,
           NodeDies, HandEdit
  <1>2. api'[m].del > 0 => m \in armed'
    BY <1>0, <1>1, DeletionIsLatest DEF ServerMoves, Dated
  <1>3. m \in ControlPlane => Spent(m, api[m])'
    <2>1. m \in armed' /\ m \in ControlPlane /\ ~api'[m].hook => api'[m].etcd # "none"
      BY <1>0 DEF MachineInv, Guarded, Concluded
    <2>2. m \in ControlPlane /\ mc[m] = "infra" => api[m].etcd # "none"
      BY <1>0 DEF MachineInv, Guarded, Concluded, Dated
    <2>3. QED
      BY <1>0, <1>2, <2>1, <2>2 DEF Spent, ServerMoves, Dated
  <1>4. CASE DeleteMachine(m)
    <2>1. cache[m].del = 0 /\ view[m].del = 0
      BY <1>0, <1>4, DeletionIsLatest DEF MachineInv, Behind
    <2>2. QED
      BY <1>0, <1>2, <1>3, <1>4, <2>1, DeletionIsLatest DEF Dated, Spent, ServerMoves
  <1>5. CASE ~DeleteMachine(m)
    <2>1. api'[m].del = api[m].del /\ (api[m].etcd # "none" => api'[m].etcd # "none")
      BY <1>0, <1>5 DEF ServerMoves
    <2>2. CASE UNCHANGED api /\ cache' = api
      <3>1. m \in ControlPlane => Spent(m, cache[m])'
        BY <1>0, <2>2 DEF Dated, Spent
      <3>2. cache'[m].del > 0 => cache'[m].del = api'[m].del
        BY <2>2
      <3>3. view'[m].del > 0 => view'[m].del = api'[m].del
        BY <1>0, <2>1 DEF ViewMoves, Dated
      <3>4. QED
        BY <1>0, <1>2, <1>3, <3>1, <3>2, <3>3 DEF Dated, PhaseMoves
    <2>3. CASE SameShown(m)
      <3>1. m \in ControlPlane => Spent(m, cache[m])'
        BY <1>0, <2>1, <2>3 DEF Dated, Spent, SameShown, Exists
      <3>2. cache'[m].del > 0 => cache'[m].del = api'[m].del
        BY <1>0, <2>1, <2>3 DEF SameShown, Dated
      <3>3. view'[m].del > 0 => view'[m].del = api'[m].del
        BY <1>0, <2>1 DEF ViewMoves, Dated
      <3>4. QED
        BY <1>0, <1>2, <1>3, <3>1, <3>2, <3>3 DEF Dated, PhaseMoves
    <2>4. QED
      BY <1>0, <2>2, <2>3 DEF Moves, CacheMoves
  <1>6. QED
    BY <1>4, <1>5

\* A reconcile that passes the serialization has no unconcluded elder.
LEMMA PassesElders ==
  ASSUME TypeInv, SerialInv, TeardownInv, NEW n \in ControlPlane, ~Held(n), pc[n] = "etcd",
         NEW m \in ControlPlane, 0 < api[m].del, api[m].del < api[n].del
  PROVE  api[m].etcd # "none"
  <1>0. /\ m \in Machines /\ n \in Machines
        /\ Dated(m) /\ Dated(n) /\ Ordered(m, n) /\ MachineInv(n)
        /\ api[m].del \in Nat /\ api[n].del \in Nat
    BY SubsetAssumption DEF SerialInv, TeardownInv, TypeInv, TypeOK, MachineType
  <1>1. view[n].del > 0 /\ cache[n].del > 0
    BY <1>0 DEF MachineInv, Progress, Behind, Deleting
  <1>2. cache[m].del > 0 /\ cache[m].del = api[m].del /\ view[n].del = api[n].del /\ m # n
    BY <1>0, <1>1 DEF Ordered, Dated
  <1>3. ~Exists(cache[m]) \/ ~cache[m].hook
    BY <1>0, <1>2 DEF Held, Precedes
  <1>4. QED
    BY <1>0, <1>2, <1>3 DEF Dated, Spent

\* Every step keeps the deletions ordered.
LEMMA OrderedStep ==
  ASSUME DeleteNeedsHook, ~SameSecond, TypeInv, TypeInv', TeardownInv, SerialInv, Next,
         NEW m \in Machines, NEW n \in Machines
  PROVE  Ordered(m, n)'
  <1>0. /\ Moves /\ Ordered(m, n) /\ Dated(m) /\ Dated(n) /\ MachineInv(m) /\ MachineInv(n)
        /\ api[m].del \in Nat /\ api[n].del \in Nat /\ cache[m].del \in Nat
        /\ cache[n].del \in Nat /\ view[n].del \in Nat
        /\ api'[m].del \in Nat /\ api'[n].del \in Nat
        /\ PhaseMoves(n) /\ ServerMoves(m) /\ ServerMoves(n)
    BY StepMoves DEF TeardownInv, SerialInv, TypeInv, TypeOK, MachineType, Moves
  <1>1. CASE DeleteMachine(m)
    BY <1>0, <1>1, DeletionIsLatest DEF Ordered
  <1>2. CASE DeleteMachine(n) /\ n # m
    <2>1. cache[n].del = 0 /\ view[n].del = 0 /\ pc[n] \notin Removal
      BY <1>0, <1>2, DeletionIsLatest DEF MachineInv, Behind, Progress, Removal, Deleting
    <2>2. QED
      BY <1>0, <1>2, <2>1, DeletionIsLatest DEF Ordered
  <1>3. CASE ~DeleteMachine(m) /\ ~DeleteMachine(n)
    <2>1. api'[m].del = api[m].del /\ api'[n].del = api[n].del
      BY <1>0, <1>3 DEF ServerMoves
    <2>2. 0 < api[m].del /\ api[m].del < api[n].del /\ cache'[n].del > 0 => cache'[m].del > 0
      BY <1>0 DEF Moves, CacheMoves, SameShown, Ordered
    <2>3. /\ 0 < api[m].del /\ api[m].del < api[n].del
          /\ m \in ControlPlane /\ pc'[n] \in Removal
          => api'[m].etcd # "none"
      BY <1>0, PassesElders DEF PhaseMoves, ServerMoves, Ordered
    <2>4. QED
      BY <1>0, <2>1, <2>2, <2>3 DEF Ordered
  <1>4. QED
    BY <1>1, <1>2, <1>3

\* The invariant holds in every reachable state.
LEMMA SerialInvariant ==
  ASSUME DeleteNeedsHook, ~SameSecond
  PROVE  Spec => []SerialInv
  <1>1. TypeInv /\ TypeInv' /\ TeardownInv /\ TeardownInv' /\ SerialInv /\ [Next]_vars => SerialInv'
    <2>1. TypeInv /\ TypeInv' /\ TeardownInv /\ TeardownInv' /\ SerialInv /\ Next => SerialInv'
      BY DatedStep, OrderedStep DEF SerialInv
    <2>2. SerialInv /\ UNCHANGED vars => SerialInv'
      BY DEF SerialInv, Dated, Ordered, Spent, vars
    <2>3. QED
      BY <2>1, <2>2
  <1>2. QED
    BY <1>1, InitSerial, TypeInvariant, TeardownInvariant, PTL DEF Spec

\* Two reconciles are only ever past the serialization together when one of
\* them replays an etcd phase that is already on record: whatever crashes,
\* faults, lost answers and stale caches, the phases of two Machines that are
\* both still to be concluded never overlap.
OpenPhasesAlone ==
  \A m, n \in Machines :
    /\ pc[m] \in Removal /\ api[m].etcd = "none"
    /\ pc[n] \in Removal /\ api[n].etcd = "none"
    => m = n

\* serializeControlPlane keeps the open etcd phases of a cluster apart.
THEOREM OpenPhasesSerialized ==
  ASSUME DeleteNeedsHook, ~SameSecond
  PROVE  Spec => []OpenPhasesAlone
  <1>1. TypeInv /\ TeardownInv /\ SerialInv => OpenPhasesAlone
    <2> SUFFICES ASSUME TypeInv, TeardownInv, SerialInv, NEW m \in Machines, NEW n \in Machines,
                        pc[m] \in Removal, api[m].etcd = "none",
                        pc[n] \in Removal, api[n].etcd = "none"
                 PROVE  m = n
      BY DEF OpenPhasesAlone
    <2>1. /\ api[m].del \in Nat /\ api[n].del \in Nat /\ Dated(m) /\ Dated(n)
          /\ Ordered(m, n) /\ Ordered(n, m) /\ MachineInv(m) /\ MachineInv(n)
      BY DEF TypeInv, TypeOK, MachineType, SerialInv, TeardownInv
    <2>2. api[m].del > 0 /\ api[n].del > 0
      BY <2>1 DEF MachineInv, Progress, Behind, Removal, Deleting
    <2>3. m \in ControlPlane /\ n \in ControlPlane
      BY <2>1 DEF Dated
    <2>4. QED
      BY <2>1, <2>2, <2>3 DEF Ordered
  <1>2. QED
    BY <1>1, SerialInvariant, TypeInvariant, TeardownInvariant, PTL

-----------------------------------------------------------------------------
(* Without faults, nothing on record is replayed to the point of a removal  *)
(*                                                                          *)
(* A reconcile that works from a copy older than the conclusion repeats the *)
(* etcd phase.  When every node has booted and nothing fails, each reason   *)
(* for a conclusion lasts: a member that left does not return, credentials  *)
(* and healthy peers only become fewer, a cluster does not stop being       *)
(* deleted.  So the repetition ends before it removes anything, and the     *)
(* removals that run are of open phases.                                    *)

(* No attempt to remove m gets as far as a removal.                          *)
Hopeless(m) == m \notin members \/ ~HasCredentials \/ \A p \in Machines : ~HealthyPeer(p, m)

(* A Machine that is gone was deleted; a leaving mark stays.                 *)
Shown(m) ==
  /\ ~Exists(api[m]) => api[m].del > 0
  /\ ~Exists(cache[m]) => cache[m].del > 0
  /\ cache[m].leaving => api[m].leaving

(* Conclusions last, removals are of open phases.                            *)
Lasts(m) ==
  /\ m \in ControlPlane /\ api[m].etcd = "none" => node[m] = "up"
  /\ pc[m] = "stampEtcd" => Hopeless(m) \/ clusterCache # "live"
  /\ api[m].etcd # "none" => Hopeless(m) \/ (clusterCache # "live" /\ pc[m] \notin Removal)
  /\ pc[m] \in Leaving => api[m].etcd = "none"
  /\ pc[m] = "remove" => m \notin members

LastInv == \A m \in Machines : node[m] # "booting" /\ Shown(m) /\ Lasts(m)

\* Without a budget there are no faults.
LEMMA NoFault == ASSUME MaxFaults = 0, TypeInv PROVE ~Fault
  BY DEF Fault, TypeInv, TypeOK

\* Members, running nodes and credentials only become fewer.
LEMMA Dwindles ==
  ASSUME TypeInv, Next, \A m \in Machines : node[m] # "booting"
  PROVE  /\ members' \subseteq members
         /\ \A p \in Machines : node'[p] # "booting" /\ (node'[p] = "up" => node[p] = "up")
         /\ HasCredentials' => HasCredentials
  <1>0. /\ node \in [Machines -> {"booting", "up", "down"}]
        /\ secret \in [live : BOOLEAN, cached : BOOLEAN]
    BY DEF TypeInv, TypeOK
  <1>1. ASSUME NEW m \in Machines, ReconcileStep(m)
        PROVE  /\ members' \subseteq members
               /\ node' = node \/ node' = [node EXCEPT ![m] = "down"]
               /\ secret' = secret \/ EnsureCredentials(m)
    BY <1>1 DEF ReconcileStep, Reconcile, EnsureHook, EnsureCredentials, EnsureObservedAt,
                EtcdPhase, FindHealthyPeer, LeaveViaVictim, RemoveViaPeer, StampEtcd, TryReset,
                StampReset, Release
  <1>2. ASSUME NEW m \in Machines, EnsureCredentials(m) PROVE HasCredentials' => HasCredentials
    <2>1. secret' = secret \/ secret' = [secret EXCEPT !.cached = secret.cached \/ secret.live]
      BY <1>2 DEF EnsureCredentials
    <2>2. secret'.live = secret.live /\ (secret'.cached => secret.cached \/ secret.live)
      BY <1>0, <2>1
    <2>3. QED
      BY <2>2 DEF HasCredentials
  <1>3. ASSUME NEW m \in Machines, ReconcileStep(m)
        PROVE  /\ members' \subseteq members
               /\ \A p \in Machines : node'[p] # "booting" /\ (node'[p] = "up" => node[p] = "up")
               /\ HasCredentials' => HasCredentials
    BY <1>0, <1>1, <1>2, <1>3 DEF HasCredentials
  <1>4. CASE CredentialGC \/ SecretCollected
    <2>1. /\ UNCHANGED <<members, node>>
          /\ \/ secret' = [secret EXCEPT !.cached = FALSE]
             \/ secret' = [secret EXCEPT !.live = FALSE]
      BY <1>4 DEF CredentialGC, SecretCollected
    <2>2. (secret'.live => secret.live) /\ (secret'.cached => secret.cached)
      BY <1>0, <2>1
    <2>3. QED
      BY <2>1, <2>2 DEF HasCredentials
  <1>5. CASE CacheSync \/ ClusterSync \/ Tick \/ Crash \/ DeleteCluster \/ ClusterGone
    BY <1>5 DEF CacheSync, ClusterSync, Tick, Crash, DeleteCluster, ClusterGone, HasCredentials
  <1>6. ASSUME NEW m \in Machines,
               \/ DeleteMachine(m) \/ MarkLeaving(m) \/ ScaleDownLeave(m)
               \/ ForeignAdds(m) \/ ForeignRelease(m) \/ Boot(m) \/ NodeDies(m) \/ HandEdit(m)
        PROVE  /\ members' \subseteq members /\ secret' = secret
               /\ \A p \in Machines : node'[p] # "booting" /\ (node'[p] = "up" => node[p] = "up")
    BY <1>0, <1>6 DEF DeleteMachine, MarkLeaving, ScaleDownLeave, ForeignAdds, ForeignRelease, Boot, NodeDies,
                      HandEdit
  <1>7. ASSUME NEW m \in Machines, MachineController(m) \/ DrainEnds(m)
        PROVE  /\ members' \subseteq members /\ secret' = secret
               /\ \A p \in Machines : node'[p] # "booting" /\ (node'[p] = "up" => node[p] = "up")
    BY <1>0, <1>7 DEF MachineController, DrainEnds, McNotice, McDrained, McRepark, Park,
                      McDeleteInfra, McReport, PowerOff, McFinish, McUnchanged
  <1>8. QED
    BY <1>3, <1>4, <1>5, <1>6, <1>7 DEF Next, ControllerStep, Environment, HasCredentials

\* What the copies show of a Machine that leaves or goes stays true.
LEMMA ShownStep ==
  ASSUME TypeInv, TeardownInv, TeardownInv', Next, NEW m \in Machines, Shown(m)
  PROVE  Shown(m)'
  <1>0. /\ Moves /\ MachineInv(m) /\ ServerMoves(m)
    BY StepMoves DEF TeardownInv, Moves
  <1>1. api[m].del > 0 => api'[m].del > 0
    <2>1. CASE DeleteMachine(m)
      BY <2>1 DEF DeleteMachine, TypeInv, TypeOK, MachineType
    <2>2. CASE ~DeleteMachine(m)
      BY <1>0, <2>2 DEF ServerMoves
    <2>3. QED
      BY <2>1, <2>2
  <1>2. ~Exists(api'[m]) => api'[m].del > 0
    BY <1>0, <1>1 DEF Shown, ServerMoves, MachineInv, Guarded
  <1>3. CASE UNCHANGED api /\ cache' = api
    BY <1>2, <1>3 DEF Shown
  <1>4. CASE SameShown(m)
    BY <1>0, <1>2, <1>4 DEF Shown, SameShown, ServerMoves, Exists
  <1>5. QED
    BY <1>0, <1>3, <1>4 DEF Moves, CacheMoves

\* No peer becomes healthy, so what is hopeless stays hopeless.
LEMMA StaysHopeless ==
  ASSUME TypeInv, TeardownInv, LastInv, Next, NEW m \in Machines, Hopeless(m)
  PROVE  Hopeless(m)'
  <1>1. Moves /\ \A p \in Machines : Shown(p) /\ MachineInv(p) /\ node[p] # "booting"
    BY StepMoves DEF LastInv, TeardownInv
  <1>2. /\ members' \subseteq members
        /\ \A p \in Machines : node'[p] = "up" => node[p] = "up"
        /\ HasCredentials' => HasCredentials
    BY <1>1, Dwindles
  <1>3. ASSUME NEW p \in Machines, HealthyPeer(p, m)' PROVE HealthyPeer(p, m)
    <2>1. cache'[p].del = 0 /\ ~cache'[p].leaving /\ node'[p] = "up" /\ p \in members'
          /\ p \in ControlPlane \ {m}
      BY <1>3 DEF HealthyPeer
    <2>2. cache[p].del = 0 /\ ~cache[p].leaving
      <3>1. CASE UNCHANGED api /\ cache' = api
        <4>1. cache[p].del \in Nat
          BY DEF TypeInv, TypeOK, MachineType
        <4>2. QED
          BY <1>1, <2>1, <3>1, <4>1 DEF Shown, MachineInv, Behind
      <3>2. CASE SameShown(p)
        BY <2>1, <3>2 DEF SameShown
      <3>3. QED
        BY <1>1, <3>1, <3>2 DEF Moves, CacheMoves
    <2>3. Exists(cache[p])
      BY <1>1, <2>2 DEF Shown
    <2>4. QED
      BY <1>2, <2>1, <2>2, <2>3 DEF HealthyPeer
  <1>4. QED
    BY <1>2, <1>3 DEF Hopeless

\* How a reconcile comes to leave, to remove and to record, without faults.
LEMMA AttemptMoves ==
  ASSUME MaxFaults = 0, TypeInv, Next, NEW m \in Machines
  PROVE  /\ pc'[m] = "leave" => pc[m] = "leave" \/ (pc[m] = "member" /\ ~Hopeless(m))
         /\ pc'[m] = "remove" =>
              \/ pc[m] = "remove"
              \/ pc[m] = "leave" /\ (node[m] # "up" \/ m \notin members)
         /\ pc'[m] = "stampEtcd" =>
              \/ pc[m] \in {"stampEtcd", "remove"}
              \/ clusterCache # "live" \/ Hopeless(m) \/ m \notin members'
  <1> DEFINE Goal ==
        /\ pc'[m] = "leave" => pc[m] = "leave" \/ (pc[m] = "member" /\ ~Hopeless(m))
        /\ pc'[m] = "remove" =>
             \/ pc[m] = "remove"
             \/ pc[m] = "leave" /\ (node[m] # "up" \/ m \notin members)
        /\ pc'[m] = "stampEtcd" =>
             \/ pc[m] \in {"stampEtcd", "remove"}
             \/ clusterCache # "live" \/ Hopeless(m) \/ m \notin members'
  <1>0. pc'[m] \in {pc[m], "idle", "hook", "creds", "gate", "etcd", "member", "reset", "stampReset",
                    "release"} => Goal
    OBVIOUS
  <1>1. CASE ReconcileStep(m)
    <2>1. ~Fault
      BY NoFault
    <2>2. CASE EtcdPhase(m)
      BY <2>2, HelperMoves DEF EtcdPhase
    <2>3. CASE FindHealthyPeer(m)
      <3>1. CASE HasCredentials /\ \E p \in Machines : HealthyPeer(p, m)
        <4>1. m \in members => ~Hopeless(m)
          BY <3>1 DEF Hopeless
        <4>2. \/ pc'[m] = "leave" /\ m \in members
              \/ pc'[m] = "stampEtcd" /\ m \notin members
          BY <2>1, <2>3, <3>1, HelperMoves DEF FindHealthyPeer
        <4>3. QED
          BY <2>3, <4>1, <4>2 DEF FindHealthyPeer, Hopeless
      <3>2. CASE ~(HasCredentials /\ \E p \in Machines : HealthyPeer(p, m))
        <4>1. Hopeless(m) /\ pc'[m] \in {"idle", "stampEtcd"}
          BY <2>1, <2>3, <3>2, HelperMoves DEF FindHealthyPeer, Hopeless
        <4>2. QED
          BY <4>1
      <3>3. QED
        BY <3>1, <3>2
    <2>4. CASE LeaveViaVictim(m)
      BY <2>1, <2>4, HelperMoves DEF LeaveViaVictim
    <2>5. CASE RemoveViaPeer(m)
      BY <2>1, <2>5, HelperMoves DEF RemoveViaPeer
    <2>6. CASE EnsureHook(m) \/ EnsureObservedAt(m) \/ StampEtcd(m) \/ StampReset(m) \/ Release(m)
      <3>1. \/ pc'[m] = "idle"
            \/ \E next \in {"creds", "etcd", "reset", "release", "idle"} : pc'[m] = next
        BY <2>6, PatchMoves, HelperMoves
        DEF EnsureHook, EnsureObservedAt, StampEtcd, StampReset, Release
      <3>2. QED
        BY <1>0, <3>1
    <2>7. CASE Reconcile(m) \/ EnsureCredentials(m) \/ TryReset(m)
      <3>1. pc'[m] \in {pc[m], "idle", "hook", "creds", "gate", "stampReset", "release"}
        BY <2>7, HelperMoves DEF Reconcile, EnsureCredentials, TryReset
      <3>2. QED
        BY <1>0, <3>1
    <2>8. QED
      BY <1>1, <2>2, <2>3, <2>4, <2>5, <2>6, <2>7 DEF ReconcileStep
  <1>2. ASSUME NEW n \in Machines, n # m, ReconcileStep(n) PROVE pc'[m] = pc[m]
    BY <1>2, OnlyOwn
  <1>3. CASE CacheSync \/ ClusterSync \/ CredentialGC \/ Tick \/ Crash \/ Environment
    <2>1. pc'[m] \in {pc[m], "idle"}
      BY <1>3 DEF CacheSync, ClusterSync, CredentialGC, Tick, Crash, Environment, DeleteCluster,
                  ClusterGone, SecretCollected, DeleteMachine, MarkLeaving, ScaleDownLeave,
                  MachineController, DrainEnds, McNotice, McDrained, McRepark, Park, McDeleteInfra,
                  McReport, PowerOff, McFinish, McUnchanged, ForeignAdds, ForeignRelease, Boot, NodeDies,
                  HandEdit
    <2>2. QED
      BY <1>0, <2>1
  <1>4. QED
    BY <1>0, <1>1, <1>2, <1>3 DEF Next, ControllerStep

\* The node of a Machine goes down only with its conclusions on record.
LEMMA NodeStep ==
  ASSUME MaxFaults = 0, TypeInv, TeardownInv, SerialInv, Next, NEW m \in ControlPlane,
         node[m] = "up", api[m].etcd = "none"
  PROVE  node'[m] = "up"
  <1>0. /\ m \in Machines /\ node \in [Machines -> {"booting", "up", "down"}]
        /\ MachineInv(m) /\ Dated(m) /\ ~Fault
    BY SubsetAssumption, NoFault DEF TypeInv, TypeOK, TeardownInv, SerialInv
  <1>1. CASE TryReset(m)
    BY <1>0, <1>1 DEF TryReset, MachineInv, Progress, Behind
  <1>2. CASE PowerOff(m)
    BY <1>0, <1>2 DEF PowerOff, MachineInv, Guarded, Concluded, Dated
  <1>3. ASSUME NEW n \in Machines, n # m, TryReset(n) \/ PowerOff(n) PROVE node'[m] = node[m]
    BY <1>0, <1>3 DEF TryReset, PowerOff
  <1>4. ASSUME NEW n \in Machines, Boot(n) \/ NodeDies(n) PROVE node'[m] = "up"
    BY <1>0, <1>4 DEF Boot, NodeDies
  <1>5. ASSUME NEW n \in Machines, ReconcileStep(n), ~TryReset(n) PROVE node' = node
    BY <1>5 DEF ReconcileStep, Reconcile, EnsureHook, EnsureCredentials, EnsureObservedAt,
                EtcdPhase, FindHealthyPeer, LeaveViaVictim, RemoveViaPeer, StampEtcd, StampReset,
                Release
  <1>6. CASE \/ CacheSync \/ ClusterSync \/ CredentialGC \/ Tick \/ Crash
             \/ DeleteCluster \/ ClusterGone \/ SecretCollected
    BY <1>6 DEF CacheSync, ClusterSync, CredentialGC, Tick, Crash, DeleteCluster, ClusterGone,
                SecretCollected
  <1>7. ASSUME NEW n \in Machines,
               \/ DeleteMachine(n) \/ MarkLeaving(n) \/ ScaleDownLeave(n)
               \/ ForeignAdds(n) \/ ForeignRelease(n) \/ HandEdit(n)
        PROVE  node' = node
    BY <1>7 DEF DeleteMachine, MarkLeaving, ScaleDownLeave, ForeignAdds, ForeignRelease, HandEdit
  <1>8. ASSUME NEW n \in Machines, MachineController(n) \/ DrainEnds(n), ~PowerOff(n)
        PROVE  node' = node
    BY <1>8 DEF MachineController, DrainEnds, McNotice, McDrained, McRepark, Park, McDeleteInfra,
                McReport, McFinish
  <1>9. QED
    BY <1>1, <1>2, <1>3, <1>4, <1>5, <1>6, <1>7, <1>8
    DEF Next, ControllerStep, Environment

\* Only the stamp of the etcd phase concludes it.
LEMMA ConcludedByStamp ==
  ASSUME TypeInv, Next, NEW m \in Machines, api[m].etcd = "none", api'[m].etcd # "none"
  PROVE  pc[m] = "stampEtcd" /\ pc'[m] \in {"idle", "reset"}
  <1>0. api \in [Machines -> MachineType] /\ api[m] \in MachineType
    BY DEF TypeInv, TypeOK
  <1>1. PICK n \in Machines : ReconcileStep(n)
    BY OthersRecordNothing DEF Next, ControllerStep
  <1>2. n = m
    BY <1>1, OnlyOwn
  <1>3. ASSUME NEW stored, NEW next, NEW v, PatchAnnotations(m, stored, next, v),
               stored.etcd = api[m].etcd
        PROVE  FALSE
    BY <1>3, PatchMoves
  <1>4. /\ [api[m] EXCEPT !.hook = TRUE, !.legacy = @ /\ ~view[m].legacy].etcd = api[m].etcd
        /\ [api[m] EXCEPT !.obs = 0].etcd = api[m].etcd
        /\ [api[m] EXCEPT !.reset = out[m]].etcd = api[m].etcd
        /\ [api[m] EXCEPT !.hook = FALSE, !.legacy = @ /\ ~view[m].legacy].etcd = api[m].etcd
    BY <1>0 DEF MachineType
  <1>5. ~EnsureHook(m)
    BY <1>3, <1>4 DEF EnsureHook
  <1>6. ~EnsureObservedAt(m)
    BY <1>3, <1>4 DEF EnsureObservedAt
  <1>7. ~StampReset(m) /\ ~Release(m)
    BY <1>3, <1>4 DEF StampReset, Release
  <1>8. StampEtcd(m)
    BY <1>1, <1>2, <1>5, <1>6, <1>7
    DEF ReconcileStep, Reconcile, EnsureCredentials, EtcdPhase, FindHealthyPeer, LeaveViaVictim,
        RemoveViaPeer, TryReset
  <1>9. QED
    BY <1>8, PatchMoves DEF StampEtcd

\* The Cluster, once seen deleting, is never seen live again.
LEMMA ClusterStep ==
  ASSUME World, Next, clusterCache # "live"
  PROVE  clusterCache' # "live"
  <1>1. clusterCache' \in {clusterCache, cluster}
    BY DEF Next, ControllerStep, ReconcileStep, Reconcile, EnsureHook, EnsureCredentials,
           EnsureObservedAt, EtcdPhase, FindHealthyPeer, LeaveViaVictim, RemoveViaPeer, StampEtcd,
           TryReset, StampReset, Release, CacheSync, ClusterSync, CredentialGC, Tick, Crash,
           Environment, DeleteCluster, ClusterGone, SecretCollected, DeleteMachine, MarkLeaving,
           ScaleDownLeave, MachineController, DrainEnds, McNotice, McDrained, McRepark, Park,
           McDeleteInfra, McReport, PowerOff, McFinish, McUnchanged, ForeignAdds, ForeignRelease, Boot,
           NodeDies, HandEdit
  <1>2. QED
    BY <1>1 DEF World

\* Every step keeps the conclusions lasting and the removals open.
LEMMA LastsStep ==
  ASSUME MaxFaults = 0, TypeInv, TeardownInv, SerialInv, World, LastInv, Next, NEW m \in Machines
  PROVE  Lasts(m)'
  <1>0. /\ Lasts(m) /\ Dated(m) /\ MachineInv(m) /\ PhaseMoves(m) /\ ServerMoves(m)
        /\ members' \subseteq members
    BY StepMoves, Dwindles DEF LastInv, SerialInv, TeardownInv, Moves
  <1>1. m \in ControlPlane /\ api'[m].etcd = "none" => node'[m] = "up"
    BY <1>0, NodeStep DEF Lasts, ServerMoves
  <1>2. pc'[m] = "stampEtcd" => Hopeless(m)' \/ clusterCache' # "live"
    <2>1. Hopeless(m) => Hopeless(m)'
      BY StaysHopeless
    <2>2. clusterCache # "live" => clusterCache' # "live"
      BY ClusterStep
    <2>3. m \notin members' => Hopeless(m)'
      BY DEF Hopeless
    <2>4. QED
      BY <1>0, <2>1, <2>2, <2>3, AttemptMoves DEF Lasts
  <1>3. api'[m].etcd # "none" => Hopeless(m)' \/ (clusterCache' # "live" /\ pc'[m] \notin Removal)
    <2>1. CASE api[m].etcd # "none"
      BY <1>0, <2>1, StaysHopeless, ClusterStep DEF Lasts, PhaseMoves
    <2>2. CASE api[m].etcd = "none" /\ api'[m].etcd # "none"
      BY <1>0, <2>2, ConcludedByStamp, StaysHopeless, ClusterStep DEF Lasts, Removal
    <2>3. QED
      BY <2>1, <2>2
  <1>4. pc'[m] \in Leaving => api'[m].etcd = "none"
    <2>1. ASSUME pc'[m] \in Leaving PROVE api[m].etcd = "none"
      BY <1>0, <2>1, AttemptMoves DEF Lasts, Leaving, Removal
    <2>2. QED
      BY <2>1, ConcludedByStamp DEF Leaving
  <1>5. pc'[m] = "remove" => m \notin members'
    BY <1>0, AttemptMoves DEF Lasts, Leaving, Dated, Removal
  <1>6. QED
    BY <1>1, <1>2, <1>3, <1>4, <1>5 DEF Lasts

\* At the start every node is up and nothing is concluded.
LEMMA InitLast == ASSUME Booting = {} PROVE Init => LastInv
  <1> SUFFICES ASSUME Init, NEW m \in Machines PROVE node[m] # "booting" /\ Shown(m) /\ Lasts(m)
    BY DEF LastInv
  <1>1. /\ node[m] = "up" /\ pc[m] = "idle" /\ cache[m] = api[m] /\ api[m].etcd = "none"
        /\ api[m].reason = "none"
    BY DEF Init, Initial, Blank
  <1>2. QED
    BY <1>1 DEF Shown, Lasts, Exists, Leaving

\* No two Machines of a cluster have an etcd leave or removal in flight, when
\* deletions meet hooked Machines and their timestamps differ, every node has
\* booted and nothing fails.  A replay after a fault can: its conclusion may
\* have been recorded for a reason that is over.
THEOREM EtcdOpsSerialized ==
  ASSUME DeleteNeedsHook, ~SameSecond, Booting = {}, MaxFaults = 0
  PROVE  Spec => []OneEtcdOpAtATime
  <1>1. /\ TypeInv /\ TeardownInv /\ TeardownInv' /\ SerialInv /\ World /\ LastInv /\ [Next]_vars
        => LastInv'
    <2>1. ASSUME TypeInv, TeardownInv, TeardownInv', SerialInv, World, LastInv, Next
          PROVE  LastInv'
      <3>1. ASSUME NEW m \in Machines PROVE node'[m] # "booting" /\ Shown(m)' /\ Lasts(m)'
        BY <2>1, Dwindles, ShownStep, LastsStep DEF LastInv
      <3>2. QED
        BY <3>1 DEF LastInv
    <2>2. LastInv /\ UNCHANGED vars => LastInv'
      BY DEF LastInv, Shown, Lasts, Hopeless, HealthyPeer, HasCredentials, vars
    <2>3. QED
      BY <2>1, <2>2
  <1>2. TruthInv => World
    BY DEF TruthInv
  <1>3. LastInv /\ OpenPhasesAlone => OneEtcdOpAtATime
    BY DEF LastInv, Lasts, OpenPhasesAlone, OneEtcdOpAtATime, Leaving, Removal
  <1>4. QED
    BY <1>1, <1>2, <1>3, InitLast, SerialInvariant, OpenPhasesSerialized, TruthInvariant,
       TypeInvariant, TeardownInvariant, PTL DEF Spec
=============================================================================
