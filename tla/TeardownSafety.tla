--------------------------- MODULE TeardownSafety ---------------------------
(***************************************************************************)
(* The safety theorems of TeardownSystem.                                  *)
(*                                                                         *)
(* A reconcile acts on a local object read from a lagging cache and never  *)
(* read back, so the invariant has to say what a stale object still tells: *)
(* what was recorded stays recorded, a deletion is not undone, no hook     *)
(* owner comes once the drain is over (Behind).  On top of it come what a  *)
(* reconcile knows at each step (Progress) and what a Machine without the  *)
(* hook has behind it (Guarded).                                           *)
(***************************************************************************)
EXTENDS TeardownProofs

USE DEF local, etcdVars, nodeVars, clusterVars

Deleting == {"gate", "etcd", "member", "leave", "remove", "stampEtcd", "reset",
             "stampReset", "release"}
Acting == Deleting \ {"gate"}

(* Reasons under which another hook owner may still come, and an object that *)
(* shows none although it is past them.                                      *)
Early == {"none", "early"}
Alone(r) == AtPreTerminate(r) /\ ~r.foreign

(* Older copies of Machine m against the server's.                           *)
Behind(m) ==
  /\ cache[m].del > 0 => api[m].del > 0
  /\ view[m].del > 0 => cache[m].del > 0
  /\ cache[m].etcd # "none" => api[m].etcd # "none"
  /\ view[m].etcd # "none" => api[m].etcd # "none"
  /\ cache[m].reset # "none" => api[m].reset # "none"
  /\ view[m].reset # "none" => api[m].reset # "none"
  /\ Alone(cache[m]) \/ Alone(view[m]) => ~api[m].foreign
  /\ AtPreTerminate(cache[m]) \/ AtPreTerminate(view[m]) => api[m].reason \notin Early
  /\ AtPreTerminate(api[m]) \/ AtPreTerminate(cache[m]) \/ AtPreTerminate(view[m])
       => mc[m] \notin {"none", "drain"}

(* What the reconcile of m has established.                                  *)
Progress(m) ==
  /\ pc[m] \in Deleting => view[m].del > 0
  /\ pc[m] \in Acting => AtPreTerminate(view[m]) /\ ~view[m].foreign
  /\ pc[m] \in {"reset", "stampReset", "release"} /\ m \in ControlPlane => view[m].etcd # "none"
  /\ pc[m] = "release" => view[m].reset # "none"

(* What a Machine that was hooked when deleted has behind it.                *)
Guarded(m) ==
  /\ m \in armed /\ ~api[m].hook => Concluded(m)
  /\ m \in armed /\ mc[m] = "infra" => Concluded(m)
  /\ m \in wiped => mc[m] \notin {"none", "drain"} /\ ~api[m].foreign /\ api[m].reason \notin Early
  /\ mc[m] # "none" => api[m].del > 0

MachineInv(m) == Behind(m) /\ Progress(m) /\ Guarded(m)
TeardownInv == \A m \in Machines : MachineInv(m)

\* A Machine that a step does not touch keeps its invariant.
LEMMA Untouched ==
  ASSUME NEW n, MachineInv(n),
         api[n]' = api[n], cache[n]' = cache[n], view[n]' = view[n], pc[n]' = pc[n],
         mc[n]' = mc[n], (n \in armed)' <=> n \in armed, (n \in wiped)' <=> n \in wiped
  PROVE  MachineInv(n)'
  BY DEF MachineInv, Behind, Progress, Guarded, Concluded, AtPreTerminate, Alone, Early

\* The invariant holds at the start.
LEMMA InitInv == Init => TeardownInv
  <1> SUFFICES ASSUME Init, NEW m \in Machines PROVE MachineInv(m)
    BY DEF TeardownInv
  <1>1. /\ api[m] = Initial(m) /\ cache[m] = api[m] /\ view[m] = Blank
        /\ pc[m] = "idle" /\ mc[m] = "none" /\ armed = {} /\ wiped = {}
    BY DEF Init
  <1>2. /\ Initial(m).del = 0 /\ Initial(m).reason = "none"
        /\ Initial(m).etcd = "none" /\ Initial(m).reset = "none"
        /\ Blank.del = 0 /\ Blank.reason = "none" /\ Blank.etcd = "none" /\ Blank.reset = "none"
    BY DEF Initial, Blank
  <1>3. Behind(m)
    BY <1>1, <1>2 DEF Behind, AtPreTerminate, Alone
  <1>4. Progress(m) /\ Guarded(m)
    BY <1>1 DEF Progress, Guarded, Deleting, Acting
  <1>5. QED
    BY <1>3, <1>4 DEF MachineInv

-----------------------------------------------------------------------------
(* Steps of a reconcile *)

\* A reconcile of m writes no other Machine and moves no other reconcile.
LEMMA OnlyOwn ==
  ASSUME TypeInv, NEW m \in Machines, ReconcileStep(m), NEW n \in Machines, n # m
  PROVE  api[n]' = api[n] /\ pc[n]' = pc[n] /\ view[n]' = view[n]
  <1>2. \A stored, next, v : PatchAnnotations(m, stored, next, v) => api[n]' = api[n]
    BY DEF PatchAnnotations, TypeInv, TypeOK
  <1>3. api[n]' = api[n]
    BY <1>2 DEF ReconcileStep, Reconcile, EnsureHook, EnsureCredentials, EnsureObservedAt,
                EtcdPhase, FindHealthyPeer, LeaveViaVictim, RemoveViaPeer, StampEtcd, TryReset,
                StampReset, Release
  <1>4. ASSUME NEW next, NEW v, NEW o, NEW p, Continue(m, next, v, o, p)
        PROVE  pc[n]' = pc[n] /\ view[n]' = view[n]
    BY <1>4 DEF Continue, TypeInv, TypeOK
  <1>5. UNCHANGED local \/ \E next, v, o, p : Continue(m, next, v, o, p)
    <2>1. (Return(m) \/ Requeue(m) \/ (\E next : Goto(m, next)) \/ EtcdFailed(m) \/ ResetFailed(m))
            => \E next, v, o, p : Continue(m, next, v, o, p)
      BY DEF Return, Requeue, Goto, EtcdFailed, ResetFailed
    <2>2. (\E stored, next, v : PatchAnnotations(m, stored, next, v))
            => \E next, v, o, p : Continue(m, next, v, o, p)
      BY <2>1 DEF PatchAnnotations
    <2>3. CASE Reconcile(m)
      BY <2>3 DEF Reconcile
    <2>4. CASE EnsureHook(m) \/ StampEtcd(m) \/ StampReset(m) \/ Release(m)
      BY <2>4, <2>2 DEF EnsureHook, StampEtcd, StampReset, Release
    <2>5. CASE EnsureCredentials(m)
      BY <2>5, <2>1 DEF EnsureCredentials
    <2>6. CASE EnsureObservedAt(m)
      BY <2>6, <2>1, <2>2 DEF EnsureObservedAt
    <2>7. CASE EtcdPhase(m)
      BY <2>7, <2>1 DEF EtcdPhase
    <2>8. CASE FindHealthyPeer(m)
      BY <2>8, <2>1 DEF FindHealthyPeer
    <2>9. CASE LeaveViaVictim(m)
      BY <2>9, <2>1 DEF LeaveViaVictim
    <2>10. CASE RemoveViaPeer(m)
      BY <2>10, <2>1 DEF RemoveViaPeer
    <2>11. CASE TryReset(m)
      BY <2>11, <2>1 DEF TryReset
    <2>12. QED
      BY <2>3, <2>4, <2>5, <2>6, <2>7, <2>8, <2>9, <2>10, <2>11 DEF ReconcileStep
  <1>6. UNCHANGED local => pc[n]' = pc[n] /\ view[n]' = view[n]
    OBVIOUS
  <1>7. QED
    BY <1>3, <1>4, <1>5, <1>6

\* A reconcile step that keeps its own Machine's part of the invariant keeps all
\* of it.
LEMMA OthersUntouched ==
  ASSUME TypeInv, TeardownInv, NEW m \in Machines, ReconcileStep(m), MachineInv(m)'
  PROVE  TeardownInv'
  <1> SUFFICES ASSUME NEW n \in Machines, n # m PROVE MachineInv(n)'
    BY DEF TeardownInv
  <1>1. /\ cache' = cache /\ mc' = mc /\ armed' = armed
        /\ wiped' = wiped \/ wiped' = wiped \cup {m}
    <2>1. CASE TryReset(m)
      BY <2>1 DEF TryReset
    <2>2. CASE ~TryReset(m)
      BY <2>2 DEF ReconcileStep, Reconcile, EnsureHook, EnsureCredentials, EnsureObservedAt,
                  EtcdPhase, FindHealthyPeer, LeaveViaVictim, RemoveViaPeer, StampEtcd,
                  StampReset, Release
    <2>3. QED
      BY <2>1, <2>2
  <1>2. QED
    BY <1>1, OnlyOwn, Untouched DEF TeardownInv

(* A step by which the server's copy of m only gains conclusions, and loses  *)
(* the hook only when it has them.                                           *)
Recorded(m) ==
  /\ api'[m].del = api[m].del /\ api'[m].foreign = api[m].foreign
  /\ api'[m].reason = api[m].reason
  /\ api[m].etcd # "none" => api'[m].etcd # "none"
  /\ api[m].reset # "none" => api'[m].reset # "none"
  /\ ~api'[m].hook => ~api[m].hook \/ Concluded(m)

(* The object v a reconcile carries to step next is backed by the server's   *)
(* copy and fits the step.                                                   *)
Carries(m, next, v) ==
  /\ v.del > 0 => cache[m].del > 0
  /\ v.etcd # "none" => api'[m].etcd # "none"
  /\ v.reset # "none" => api'[m].reset # "none"
  /\ Alone(v) => ~api[m].foreign
  /\ AtPreTerminate(v) => mc[m] \notin {"none", "drain"} /\ api[m].reason \notin Early
  /\ next \in Deleting => v.del > 0
  /\ next \in Acting => AtPreTerminate(v) /\ ~v.foreign
  /\ next \in {"reset", "stampReset", "release"} /\ m \in ControlPlane => v.etcd # "none"
  /\ next = "release" => v.reset # "none"

\* A reconcile that goes on with what the server already shows keeps the invariant.
LEMMA Carried ==
  ASSUME TypeInv, NEW m \in Machines, MachineInv(m),
         cache' = cache, mc' = mc, armed' = armed, Recorded(m),
         wiped' = wiped \/ (wiped' = wiped \cup {m} /\ pc[m] \in Acting),
         NEW next, NEW v, NEW o, NEW p, Continue(m, next, v, o, p), Carries(m, next, v)
  PROVE  MachineInv(m)'
  <1>1. pc'[m] = next /\ view'[m] = v
    BY DEF Continue, TypeInv, TypeOK
  <1>2. Behind(m)'
    BY <1>1 DEF MachineInv, Behind, Carries, Recorded, AtPreTerminate, Alone
  <1>3. Progress(m)'
    BY <1>1 DEF Progress, Carries, AtPreTerminate
  <1>4. Guarded(m)'
    <2>1. Concluded(m) => Concluded(m)'
      BY DEF Recorded, Concluded
    <2>2. pc[m] \in Acting
            => mc[m] \notin {"none", "drain"} /\ ~api[m].foreign /\ api[m].reason \notin Early
      BY DEF MachineInv, Behind, Progress, Acting, Deleting, Alone
    <2>3. QED
      BY <2>1, <2>2 DEF MachineInv, Guarded, Recorded
  <1>5. QED
    BY <1>2, <1>3, <1>4 DEF MachineInv

\* A reconcile that ends carries nothing.
LEMMA CarriesBlank == ASSUME NEW m PROVE Carries(m, "idle", Blank)
  BY DEF Carries, Blank, Deleting, Acting, AtPreTerminate, Alone

\* The local object of a running reconcile stays backed while the server's
\* copy only gains.
LEMMA CarriesView ==
  ASSUME NEW m \in Machines, MachineInv(m), Recorded(m), pc[m] # "idle",
         NEW next, next \in Deleting => pc[m] \in Deleting \/ view[m].del > 0,
         next \in Acting => pc[m] \in Acting \/ (AtPreTerminate(view[m]) /\ ~view[m].foreign),
         next \in {"reset", "stampReset", "release"} /\ m \in ControlPlane
           => pc[m] \in {"reset", "stampReset", "release"} \/ view[m].etcd # "none",
         next = "release" => view[m].reset # "none"
  PROVE  Carries(m, next, view[m])
  BY DEF Carries, MachineInv, Behind, Progress, Recorded

\* Nothing is forgotten where the server does not change.
LEMMA SameApi == ASSUME NEW m, UNCHANGED api PROVE Recorded(m)
  BY DEF Recorded

\* A patch of m, when its object is there, stores what the reconcile asked for.
LEMMA PatchStep ==
  ASSUME TypeInv, NEW m \in Machines, MachineInv(m),
         cache' = cache, mc' = mc, armed' = armed, wiped' = wiped,
         NEW stored, NEW next, NEW v, PatchAnnotations(m, stored, next, v),
         api'[m] = stored => Recorded(m) /\ Carries(m, next, v)
  PROVE  MachineInv(m)'
  <1>1. CASE UNCHANGED api /\ Requeue(m)
    BY <1>1, SameApi, CarriesBlank, Carried DEF Requeue
  <1>2. CASE api' = [api EXCEPT ![m] = stored] /\ Requeue(m)
    <2>1. api'[m] = stored
      BY <1>2 DEF TypeInv, TypeOK
    <2>2. QED
      BY <1>2, <2>1, CarriesBlank, Carried DEF Requeue
  <1>3. CASE api' = [api EXCEPT ![m] = stored] /\ Continue(m, next, v, "none", 0)
    <2>1. api'[m] = stored
      BY <1>3 DEF TypeInv, TypeOK
    <2>2. QED
      BY <1>3, <2>1, Carried
  <1>4. QED
    BY <1>1, <1>2, <1>3 DEF PatchAnnotations

\* Every step of a reconcile keeps the invariant of its Machine.
LEMMA ReconcileStepInv ==
  ASSUME TypeInv, NEW m \in Machines, MachineInv(m), ReconcileStep(m)
  PROVE  MachineInv(m)'
  <1> USE DEF Deleting, Acting
  <1>0. /\ UNCHANGED api /\ (Return(m) \/ Requeue(m)) => Recorded(m) /\ Carries(m, "idle", Blank)
        /\ UNCHANGED api => Recorded(m)
    BY SameApi, CarriesBlank
  <1>1. ASSUME UNCHANGED <<api, cache, mc, armed, wiped>>, Return(m) \/ Requeue(m)
        PROVE  MachineInv(m)'
    BY <1>0, <1>1, Carried DEF Return, Requeue
  <1>2. ASSUME UNCHANGED <<api, cache, mc, armed, wiped>>, NEW next, NEW o, NEW p,
               Continue(m, next, view[m], o, p), Carries(m, next, view[m])
        PROVE  MachineInv(m)'
    BY <1>0, <1>2, Carried
  <1>a. CASE Reconcile(m)
    <2>1. CASE UNCHANGED local
      BY <1>a, <2>1, Untouched DEF Reconcile
    <2>2. CASE ~UNCHANGED local
      <3>1. PICK first \in {"hook", "creds", "gate"} :
              Continue(m, first, cache[m], "none", 0) /\ (first = "gate" => cache[m].del > 0)
        <4>1. cache[m].del \in Nat
          BY DEF TypeInv, TypeOK, MachineType
        <4>2. QED
          BY <1>a, <2>2, <4>1 DEF Reconcile
      <3>2. Carries(m, first, cache[m])
        BY <1>a, <3>1 DEF Reconcile, Carries, MachineInv, Behind
      <3>3. QED
        BY <1>a, <1>0, <3>1, <3>2, Carried DEF Reconcile
    <2>3. QED
      BY <2>1, <2>2
  <1>b. CASE EnsureHook(m)
    <2> DEFINE stored == [api[m] EXCEPT !.hook = TRUE, !.legacy = @ /\ ~view[m].legacy]
    <2> DEFINE v == [view[m] EXCEPT !.hook = TRUE, !.legacy = FALSE]
    <2>1. /\ stored.del = api[m].del /\ stored.foreign = api[m].foreign
          /\ stored.reason = api[m].reason /\ stored.etcd = api[m].etcd
          /\ stored.reset = api[m].reset /\ stored.hook
          /\ v.del = view[m].del /\ v.foreign = view[m].foreign /\ v.reason = view[m].reason
          /\ v.etcd = view[m].etcd /\ v.reset = view[m].reset
      BY DEF TypeInv, TypeOK, MachineType
    <2>2. ASSUME api'[m] = stored PROVE Recorded(m) /\ Carries(m, "creds", v)
      <3>1. Recorded(m)
        BY <2>1, <2>2 DEF Recorded
      <3>2. Carries(m, "creds", v)
        BY <1>b, <2>1, <2>2 DEF EnsureHook, Carries, MachineInv, Behind, AtPreTerminate, Alone
      <3>3. QED
        BY <3>1, <3>2
    <2>3. QED
      BY <1>b, <2>2, PatchStep DEF EnsureHook
  <1>c. CASE EnsureCredentials(m)
    <2>1. CASE Goto(m, "gate") /\ view[m].del # 0
      <3>1. view[m].del > 0
        BY <2>1 DEF TypeInv, TypeOK, MachineType
      <3>2. Carries(m, "gate", view[m])
        BY <1>c, <1>0, <3>1, CarriesView DEF EnsureCredentials
      <3>3. QED
        BY <1>c, <1>2, <2>1, <3>2 DEF EnsureCredentials, Goto
    <2>2. QED
      BY <1>c, <1>1, <2>1 DEF EnsureCredentials
  <1>d. CASE EnsureObservedAt(m)
    <2>1. CASE Goto(m, "etcd") /\ UNCHANGED api /\ AtPreTerminate(view[m]) /\ ~view[m].foreign
      <3>1. Carries(m, "etcd", view[m])
        BY <1>d, <1>0, <2>1, CarriesView DEF EnsureObservedAt
      <3>2. QED
        BY <1>d, <1>2, <2>1, <3>1 DEF EnsureObservedAt, Goto
    <2>2. CASE PatchAnnotations(m, [api[m] EXCEPT !.obs = 0], "etcd", [view[m] EXCEPT !.obs = 0])
               /\ AtPreTerminate(view[m]) /\ ~view[m].foreign
      <3> DEFINE stored == [api[m] EXCEPT !.obs = 0]
      <3> DEFINE v == [view[m] EXCEPT !.obs = 0]
      <3>1. /\ stored.del = api[m].del /\ stored.foreign = api[m].foreign
            /\ stored.reason = api[m].reason /\ stored.etcd = api[m].etcd
            /\ stored.reset = api[m].reset /\ stored.hook = api[m].hook
            /\ v.del = view[m].del /\ v.foreign = view[m].foreign /\ v.reason = view[m].reason
            /\ v.etcd = view[m].etcd /\ v.reset = view[m].reset
        BY DEF TypeInv, TypeOK, MachineType
      <3>2. ASSUME api'[m] = stored PROVE Recorded(m) /\ Carries(m, "etcd", v)
        <4>1. Recorded(m)
          BY <3>1, <3>2 DEF Recorded
        <4>2. Carries(m, "etcd", v)
          BY <1>d, <2>2, <3>1, <3>2
          DEF EnsureObservedAt, Carries, MachineInv, Behind, Progress, AtPreTerminate, Alone
        <4>3. QED
          BY <4>1, <4>2
      <3>3. QED
        BY <1>d, <2>2, <3>2, PatchStep DEF EnsureObservedAt
    <2>3. QED
      BY <1>d, <1>1, <2>1, <2>2 DEF EnsureObservedAt, HasOtherPreTerminateHooks
  <1>e. CASE EtcdPhase(m)
    <2>1. ASSUME NEW next \in {"stampEtcd", "member"} PROVE Carries(m, next, view[m])
      BY <1>e, <1>0, CarriesView DEF EtcdPhase
    <2>2. view[m].etcd # "none" \/ m \notin ControlPlane => Carries(m, "reset", view[m])
      BY <1>e, <1>0, CarriesView DEF EtcdPhase
    <2>3. QED
      BY <1>e, <1>1, <1>2, <2>1, <2>2 DEF EtcdPhase, Goto
  <1>f. CASE FindHealthyPeer(m)
    <2>1. ASSUME NEW next \in {"stampEtcd", "leave"} PROVE Carries(m, next, view[m])
      BY <1>f, <1>0, CarriesView DEF FindHealthyPeer
    <2>2. QED
      BY <1>f, <1>1, <1>2, <2>1 DEF FindHealthyPeer, EtcdFailed
  <1>g. CASE LeaveViaVictim(m)
    <2>1. ASSUME NEW next \in {"stampEtcd", "remove"} PROVE Carries(m, next, view[m])
      BY <1>g, <1>0, CarriesView DEF LeaveViaVictim
    <2>2. QED
      BY <1>g, <1>2, <2>1 DEF LeaveViaVictim
  <1>h. CASE RemoveViaPeer(m)
    <2>1. Carries(m, "stampEtcd", view[m])
      BY <1>h, <1>0, CarriesView DEF RemoveViaPeer
    <2>2. QED
      BY <1>h, <1>1, <1>2, <2>1 DEF RemoveViaPeer, EtcdFailed
  <1>i. CASE StampEtcd(m)
    <2> DEFINE stored == [api[m] EXCEPT !.etcd = out[m]]
    <2> DEFINE v == [view[m] EXCEPT !.etcd = out[m]]
    <2>1. /\ stored.del = api[m].del /\ stored.foreign = api[m].foreign
          /\ stored.reason = api[m].reason /\ stored.etcd = out[m]
          /\ stored.reset = api[m].reset /\ stored.hook = api[m].hook
          /\ v.del = view[m].del /\ v.foreign = view[m].foreign /\ v.reason = view[m].reason
          /\ v.etcd = out[m] /\ v.reset = view[m].reset
      BY DEF TypeInv, TypeOK, MachineType
    <2>2. out[m] # "none"
      BY <1>i DEF StampEtcd, TypeInv, OutFits
    <2>3. ASSUME api'[m] = stored PROVE Recorded(m) /\ Carries(m, "reset", v)
      <3>1. Recorded(m)
        BY <2>1, <2>2, <2>3 DEF Recorded
      <3>2. Carries(m, "reset", v)
        BY <1>i, <2>1, <2>2, <2>3
        DEF StampEtcd, Carries, MachineInv, Behind, Progress, AtPreTerminate, Alone
      <3>3. QED
        BY <3>1, <3>2
    <2>4. QED
      BY <1>i, <2>3, PatchStep DEF StampEtcd
  <1>j. CASE TryReset(m)
    <2>1. Carries(m, "stampReset", view[m])
      BY <1>j, <1>0, CarriesView DEF TryReset
    <2>2. view[m].reset # "none" => Carries(m, "release", view[m])
      BY <1>j, <1>0, CarriesView DEF TryReset
    <2>3. /\ UNCHANGED <<api, cache, mc, armed>> /\ pc[m] \in Acting
          /\ wiped' = wiped \/ wiped' = wiped \cup {m}
      BY <1>j DEF TryReset
    <2>4. \/ Requeue(m)
          \/ \E o : Continue(m, "stampReset", view[m], o, 0)
          \/ view[m].reset # "none" /\ Continue(m, "release", view[m], "none", 0)
      BY <1>j DEF TryReset, ResetFailed, Goto
    <2>5. QED
      BY <1>0, <2>1, <2>2, <2>3, <2>4, CarriesBlank, Carried DEF Requeue
  <1>k. CASE StampReset(m)
    <2> DEFINE stored == [api[m] EXCEPT !.reset = out[m]]
    <2> DEFINE v == [view[m] EXCEPT !.reset = out[m]]
    <2>1. /\ stored.del = api[m].del /\ stored.foreign = api[m].foreign
          /\ stored.reason = api[m].reason /\ stored.reset = out[m]
          /\ stored.etcd = api[m].etcd /\ stored.hook = api[m].hook
          /\ v.del = view[m].del /\ v.foreign = view[m].foreign /\ v.reason = view[m].reason
          /\ v.reset = out[m] /\ v.etcd = view[m].etcd
      BY DEF TypeInv, TypeOK, MachineType
    <2>2. out[m] # "none"
      BY <1>k DEF StampReset, TypeInv, OutFits
    <2>3. ASSUME api'[m] = stored PROVE Recorded(m) /\ Carries(m, "release", v)
      <3>1. Recorded(m)
        BY <2>1, <2>2, <2>3 DEF Recorded
      <3>2. Carries(m, "release", v)
        BY <1>k, <2>1, <2>2, <2>3
        DEF StampReset, Carries, MachineInv, Behind, Progress, AtPreTerminate, Alone
      <3>3. QED
        BY <3>1, <3>2
    <2>4. QED
      BY <1>k, <2>3, PatchStep DEF StampReset
  <1>l. CASE Release(m)
    <2> DEFINE stored == [api[m] EXCEPT !.hook = FALSE, !.legacy = @ /\ ~view[m].legacy]
    <2>1. /\ stored.del = api[m].del /\ stored.foreign = api[m].foreign
          /\ stored.reason = api[m].reason /\ stored.etcd = api[m].etcd
          /\ stored.reset = api[m].reset
      BY DEF TypeInv, TypeOK, MachineType
    <2>2. Concluded(m)
      BY <1>l DEF Release, MachineInv, Progress, Behind, Concluded
    <2>3. ASSUME api'[m] = stored PROVE Recorded(m) /\ Carries(m, "idle", Blank)
      BY <2>1, <2>2, <2>3, CarriesBlank DEF Recorded
    <2>4. QED
      BY <1>l, <2>3, PatchStep DEF Release
  <1>m. QED
    BY <1>a, <1>b, <1>c, <1>d, <1>e, <1>f, <1>g, <1>h, <1>i, <1>j, <1>k, <1>l DEF ReconcileStep

-----------------------------------------------------------------------------
(* The other steps *)

\* Informers, clock, collector and crashes preserve the invariant.
LEMMA BackgroundInv ==
  ASSUME TypeInv, TeardownInv, CacheSync \/ ClusterSync \/ CredentialGC \/ Tick \/ Crash
  PROVE  TeardownInv'
  <1> SUFFICES ASSUME NEW m \in Machines PROVE MachineInv(m)'
    BY DEF TeardownInv
  <1>0. MachineInv(m)
    BY DEF TeardownInv
  <1>1. CASE CacheSync
    BY <1>0, <1>1 DEF CacheSync, MachineInv, Behind, Progress, Guarded, Concluded, AtPreTerminate, Alone, Early
  <1>2. CASE ClusterSync \/ CredentialGC
    BY <1>0, <1>2, Untouched DEF ClusterSync, CredentialGC
  <1>3. CASE Tick
    <2>1. \A r \in MachineType :
            /\ Age(r).del = r.del /\ Age(r).reason = r.reason /\ Age(r).hook = r.hook
            /\ Age(r).foreign = r.foreign /\ Age(r).etcd = r.etcd /\ Age(r).reset = r.reset
      BY DEF Age, MachineType
    <2>2. /\ api'[m] = Age(api[m]) /\ cache'[m] = Age(cache[m]) /\ view'[m] = Age(view[m])
          /\ UNCHANGED <<pc, mc, armed, wiped>>
      BY <1>3 DEF Tick
    <2>3. api[m] \in MachineType /\ cache[m] \in MachineType /\ view[m] \in MachineType
      BY DEF TypeInv, TypeOK
    <2>4. Behind(m)'
      BY <1>0, <2>1, <2>2, <2>3 DEF MachineInv, Behind, AtPreTerminate, Alone
    <2>5. Progress(m)'
      BY <1>0, <2>1, <2>2, <2>3 DEF MachineInv, Progress, AtPreTerminate
    <2>6. Guarded(m)'
      BY <1>0, <2>1, <2>2, <2>3 DEF MachineInv, Guarded, Concluded
    <2>7. QED
      BY <2>4, <2>5, <2>6 DEF MachineInv
  <1>4. CASE Crash
    <2>1. cache'[m] = api[m] /\ pc'[m] = "idle" /\ view'[m] = Blank /\ UNCHANGED <<api, mc, armed, wiped>>
      BY <1>4 DEF Crash
    <2>2. Blank.del = 0 /\ Blank.etcd = "none" /\ Blank.reset = "none" /\ Blank.reason = "none"
      BY DEF Blank
    <2>3. QED
      BY <1>0, <2>1, <2>2 DEF MachineInv, Behind, Progress, Guarded, Concluded, AtPreTerminate, Alone, Early,
                              Deleting, Acting
  <1>5. QED
    BY <1>1, <1>2, <1>3, <1>4

(* The outside world changes of the server's copy of n only what is not     *)
(* recorded by the controller, adds a hook owner only before the drain is   *)
(* over, and parks or drops the infrastructure only past the drain.         *)
WorldStep(n) ==
  /\ UNCHANGED <<cache, view, pc, wiped>>
  /\ api[n].del > 0 => api'[n].del > 0
  /\ api'[n].etcd = api[n].etcd /\ api'[n].reset = api[n].reset /\ api'[n].hook = api[n].hook
  /\ ~api[n].foreign => ~api'[n].foreign \/ api[n].reason \in Early
  /\ api[n].reason \notin Early /\ mc[n] # "none" => api'[n].reason \notin Early
  /\ mc[n] \notin {"none", "drain"} => mc'[n] \notin {"none", "drain"}
  /\ AtPreTerminate(api'[n]) => AtPreTerminate(api[n]) \/ mc'[n] \notin {"none", "drain"}
  /\ n \in armed' => n \in armed \/ (api[n].hook /\ mc'[n] # "infra")
  /\ mc'[n] = "infra" => mc[n] = "infra" \/ ~api[n].hook
  /\ mc'[n] # "none" => mc[n] # "none" \/ api[n].del > 0

\* A step of the world preserves each Machine's part of the invariant.
LEMMA WorldStepInv ==
  ASSUME NEW n \in Machines, MachineInv(n), WorldStep(n)
  PROVE  MachineInv(n)'
  <1>1. Behind(n)'
    BY DEF MachineInv, Behind, WorldStep, AtPreTerminate, Alone, Early
  <1>2. Progress(n)'
    BY DEF MachineInv, Progress, WorldStep, AtPreTerminate
  <1>3. Guarded(n)'
    BY DEF MachineInv, Guarded, WorldStep, Concluded
  <1>4. QED
    BY <1>1, <1>2, <1>3 DEF MachineInv

\* The machine controller and the rest of the world preserve the invariant.
LEMMA EnvironmentInv ==
  ASSUME TypeInv, TeardownInv, Environment
  PROVE  TeardownInv'
  <1> SUFFICES ASSUME NEW n \in Machines PROVE MachineInv(n)'
    BY DEF TeardownInv
  <1>0. MachineInv(n) /\ api[n] \in MachineType /\ api \in [Machines -> MachineType]
    BY DEF TeardownInv, TypeInv, TypeOK
  <1>1. CASE DeleteCluster \/ ClusterGone \/ SecretCollected
    BY <1>0, <1>1, Untouched DEF DeleteCluster, ClusterGone, SecretCollected
  <1>2. ASSUME NEW m \in Machines, ScaleDownLeave(m) \/ Boot(m) \/ NodeDies(m) PROVE MachineInv(n)'
    BY <1>0, <1>2, Untouched DEF ScaleDownLeave, Boot, NodeDies
  <1>3. ASSUME NEW m \in Machines, DeleteMachine(m) PROVE WorldStep(n)
    <2>1. PICK t \in 1..Cardinality(Machines) : api' = [api EXCEPT ![m].del = t]
      BY <1>3 DEF DeleteMachine
    <2>2. Cardinality(Machines) \in Nat
      BY MachinesAssumption, FS_CardinalityType
    <2>3. /\ api'[n].del = api[n].del \/ (n = m /\ api'[n].del > 0)
          /\ api'[n].reason = api[n].reason /\ api'[n].foreign = api[n].foreign
          /\ api'[n].hook = api[n].hook /\ api'[n].etcd = api[n].etcd /\ api'[n].reset = api[n].reset
      BY <1>0, <2>1, <2>2 DEF MachineType
    <2>4. n = m => mc[n] = "none"
      BY <1>0, <1>3 DEF DeleteMachine, MachineInv, Guarded, MachineType
    <2>5. n \in armed' => n \in armed \/ (n = m /\ api[n].hook)
      BY <1>3 DEF DeleteMachine
    <2>6. UNCHANGED <<cache, view, pc, wiped, mc>>
      BY <1>3 DEF DeleteMachine
    <2>7. QED
      BY <2>3, <2>4, <2>5, <2>6 DEF WorldStep, AtPreTerminate
  <1>4. ASSUME NEW m \in Machines,
               MarkLeaving(m) \/ ForeignAdds(m) \/ ForeignRelease(m) \/ HandEdit(m)
        PROVE  WorldStep(n)
    <2>1. /\ api'[n].del = api[n].del /\ api'[n].reason = api[n].reason
          /\ ~api[n].foreign => ~api'[n].foreign \/ api[n].reason \in Early
          /\ api'[n].hook = api[n].hook /\ api'[n].etcd = api[n].etcd /\ api'[n].reset = api[n].reset
      <3>1. CASE MarkLeaving(m)
        BY <1>0, <3>1 DEF MarkLeaving, MachineType
      <3>2. CASE ForeignRelease(m)
        BY <1>0, <3>2 DEF ForeignRelease, MachineType
      <3>3. CASE HandEdit(m)
        BY <1>0, <3>3 DEF HandEdit, MachineType
      <3>4. CASE ForeignAdds(m)
        BY <1>0, <3>4 DEF ForeignAdds, MachineType, Early
      <3>5. QED
        BY <1>4, <3>1, <3>2, <3>3, <3>4
    <2>2. UNCHANGED <<cache, view, pc, wiped, mc, armed>>
      BY <1>4 DEF MarkLeaving, ForeignAdds, ForeignRelease, HandEdit
    <2>3. QED
      BY <2>1, <2>2 DEF WorldStep, AtPreTerminate
  <1>5. ASSUME NEW m \in Machines, MachineController(m) \/ DrainEnds(m) PROVE WorldStep(n)
    <2>1. PICK c \in Reasons : UNCHANGED api \/ api' = [api EXCEPT ![m].reason = c]
      BY <1>5 DEF MachineController, DrainEnds, McNotice, McDrained, McRepark, Park,
                  McDeleteInfra, McReport, PowerOff, McFinish, Reasons
    <2>2. /\ api'[n].del = api[n].del /\ api'[n].foreign = api[n].foreign
          /\ api'[n].hook = api[n].hook /\ api'[n].etcd = api[n].etcd /\ api'[n].reset = api[n].reset
          /\ n # m => api'[n] = api[n]
      BY <1>0, <2>1 DEF MachineType
    <2>3. UNCHANGED <<cache, view, pc, wiped, armed>>
      BY <1>5 DEF MachineController, DrainEnds, McNotice, McDrained, McRepark, Park,
                  McDeleteInfra, McReport, PowerOff, McFinish, McUnchanged
    <2>4. mc \in [Machines -> {"none", "drain", "gate", "infra"}]
      BY DEF TypeInv, TypeOK
    <2>5. /\ mc[n] \notin {"none", "drain"} => mc'[n] \notin {"none", "drain"}
          /\ mc'[n] = "infra" => mc[n] = "infra" \/ ~api[n].hook
          /\ mc'[n] # "none" => mc[n] # "none" \/ api[n].del > 0
      BY <1>5, <2>4 DEF MachineController, DrainEnds, McNotice, McDrained, McRepark, Park,
                        McDeleteInfra, McReport, PowerOff, McFinish, AnyHook
    <2>6. AtPreTerminate(api'[n]) => AtPreTerminate(api[n]) \/ mc'[n] \notin {"none", "drain"}
      <3>1. CASE McNotice(m)
        BY <1>0, <2>2, <3>1 DEF McNotice, AtPreTerminate, MachineType
      <3>2. CASE McRepark(m) \/ McDrained(m)
        BY <1>0, <2>2, <2>4, <3>2 DEF McRepark, McDrained, AtPreTerminate
      <3>3. CASE McDeleteInfra(m) \/ PowerOff(m)
        BY <3>3 DEF McDeleteInfra, PowerOff
      <3>4. CASE McReport(m) \/ McFinish(m)
        BY <1>0, <2>2, <3>4 DEF McReport, McFinish, AtPreTerminate, MachineType
      <3>5. QED
        BY <1>5, <3>1, <3>2, <3>3, <3>4 DEF MachineController, DrainEnds
    <2>7. api[n].reason \notin Early /\ mc[n] # "none" => api'[n].reason \notin Early
      <3>1. CASE McNotice(m)
        BY <1>0, <2>2, <3>1 DEF McNotice
      <3>2. CASE McRepark(m) \/ McDrained(m) \/ McReport(m) \/ McFinish(m)
        BY <1>0, <3>2 DEF McRepark, McDrained, Park, McReport, McFinish, MachineType, Early
      <3>3. CASE McDeleteInfra(m) \/ PowerOff(m)
        BY <3>3 DEF McDeleteInfra, PowerOff
      <3>4. QED
        BY <1>5, <3>1, <3>2, <3>3 DEF MachineController, DrainEnds
    <2>8. QED
      BY <2>2, <2>3, <2>5, <2>6, <2>7 DEF WorldStep
  <1>6. QED
    BY <1>0, <1>1, <1>2, <1>3, <1>4, <1>5, WorldStepInv DEF Environment

\* Every step preserves the invariant.
LEMMA TeardownStep == TypeInv /\ TeardownInv /\ [Next]_vars => TeardownInv'
  <1>1. ASSUME TypeInv, TeardownInv, NEW m \in Machines, ReconcileStep(m) PROVE TeardownInv'
    BY <1>1, ReconcileStepInv, OthersUntouched DEF TeardownInv
  <1>2. TypeInv /\ TeardownInv /\ Next => TeardownInv'
    BY <1>1, BackgroundInv, EnvironmentInv DEF Next, ControllerStep
  <1>3. TeardownInv /\ UNCHANGED vars => TeardownInv'
    BY Untouched DEF vars, TeardownInv
  <1>4. QED
    BY <1>2, <1>3

\* The invariant holds in every reachable state.
LEMMA TeardownInvariant == Spec => []TeardownInv
  BY InitInv, TeardownStep, TypeInvariant, PTL DEF Spec

-----------------------------------------------------------------------------
(* The theorems *)

\* Infrastructure of a Machine that was hooked when deleted goes only after
\* both teardown phases are concluded, for any number of Machines, crashes,
\* lost answers and any cache lag.
THEOREM TeardownPrecedesPowerOff == Spec => []TeardownBeforePowerOff
  <1>1. TypeInv /\ TeardownInv => TeardownBeforePowerOff
    BY DEF TypeInv, TypeOK, TeardownInv, MachineInv, Guarded, TeardownBeforePowerOff
  <1>2. QED
    BY <1>1, TypeInvariant, TeardownInvariant, PTL

\* No node is wiped before its drain ended or while another hook owner waits.
THEOREM ActsLate == Spec => []NeverActsEarly
  <1>1. TypeInv /\ TeardownInv => NeverActsEarly
    BY DEF TypeInv, TypeOK, TeardownInv, MachineInv, Guarded, NeverActsEarly
  <1>2. QED
    BY <1>1, TypeInvariant, TeardownInvariant, PTL

\* Only release takes the hook off a Machine, and it comes last.
LEMMA HookStep ==
  ASSUME TypeInv, TeardownInv, Next, NEW n \in Machines, api[n].hook, ~api'[n].hook
  PROVE  Concluded(n)
  <1>0. api \in [Machines -> MachineType] /\ api[n] \in MachineType
    BY DEF TypeInv, TypeOK
  <1>1. ASSUME NEW m \in Machines, NEW stored, NEW next, NEW v,
               PatchAnnotations(m, stored, next, v), stored.hook \/ (stored.hook = api[m].hook)
        PROVE  FALSE
    BY <1>0, <1>1 DEF PatchAnnotations
  <1>2. ASSUME NEW m \in Machines, ReconcileStep(m) PROVE Concluded(n)
    <2>1. CASE EnsureHook(m)
      <3>1. [api[m] EXCEPT !.hook = TRUE, !.legacy = @ /\ ~view[m].legacy].hook
        BY <1>0 DEF MachineType
      <3>2. QED
        BY <1>1, <2>1, <3>1 DEF EnsureHook
    <2>2. CASE EnsureObservedAt(m)
      <3>1. [api[m] EXCEPT !.obs = 0].hook = api[m].hook
        BY <1>0 DEF MachineType
      <3>2. QED
        BY <1>0, <1>1, <2>2, <3>1 DEF EnsureObservedAt
    <2>3. CASE StampEtcd(m)
      <3>1. [api[m] EXCEPT !.etcd = out[m]].hook = api[m].hook
        BY <1>0 DEF MachineType
      <3>2. QED
        BY <1>1, <2>3, <3>1 DEF StampEtcd
    <2>4. CASE StampReset(m)
      <3>1. [api[m] EXCEPT !.reset = out[m]].hook = api[m].hook
        BY <1>0 DEF MachineType
      <3>2. QED
        BY <1>1, <2>4, <3>1 DEF StampReset
    <2>5. CASE Release(m)
      <3>1. n = m
        BY <1>0, <2>5 DEF Release, PatchAnnotations
      <3>2. QED
        BY <2>5, <3>1 DEF Release, TeardownInv, MachineInv, Progress, Behind, Concluded
    <2>6. QED
      BY <1>2, <2>1, <2>2, <2>3, <2>4, <2>5
      DEF ReconcileStep, Reconcile, EnsureCredentials, EtcdPhase, FindHealthyPeer, LeaveViaVictim,
          RemoveViaPeer, TryReset
  <1>3. CASE CacheSync \/ ClusterSync \/ CredentialGC \/ Crash
    BY <1>3 DEF CacheSync, ClusterSync, CredentialGC, Crash
  <1>4. CASE Tick
    BY <1>0, <1>4 DEF Tick, Age, MachineType
  <1>5. CASE Environment
    <2>1. CASE DeleteCluster \/ ClusterGone \/ SecretCollected
      BY <2>1 DEF DeleteCluster, ClusterGone, SecretCollected
    <2>2. ASSUME NEW m \in Machines,
                 \/ DeleteMachine(m) \/ MarkLeaving(m) \/ ScaleDownLeave(m)
                 \/ ForeignAdds(m) \/ ForeignRelease(m) \/ Boot(m) \/ NodeDies(m) \/ HandEdit(m)
          PROVE  FALSE
      BY <1>0, <2>2 DEF DeleteMachine, MarkLeaving, ScaleDownLeave, ForeignAdds, ForeignRelease, Boot, NodeDies,
                        HandEdit, MachineType
    <2>3. ASSUME NEW m \in Machines, MachineController(m) \/ DrainEnds(m) PROVE FALSE
      BY <1>0, <2>3 DEF MachineController, DrainEnds, McNotice, McDrained, McRepark, Park,
                        McDeleteInfra, McReport, PowerOff, McFinish, MachineType
    <2>4. QED
      BY <1>5, <2>1, <2>2, <2>3 DEF Environment
  <1>6. QED
    BY <1>2, <1>3, <1>4, <1>5 DEF Next, ControllerStep

\* The hook is only ever taken off a Machine whose conclusions are recorded.
THEOREM HookComesOffLast == Spec => HookOutlivesTeardown
  <1>1. TypeInv /\ TeardownInv /\ [Next]_vars
          => [\A m \in Machines : api[m].hook /\ ~api'[m].hook => Concluded(m)]_vars
    BY HookStep
  <1>2. QED
    BY <1>1, TypeInvariant, TeardownInvariant, PTL DEF Spec, HookOutlivesTeardown

-----------------------------------------------------------------------------
(* The last etcd member *)

Leaving == {"leave", "remove"}

(* Some member is not being removed by the controller.                       *)
Survivor ==
  /\ \A m \in Machines : api[m].leaving => ScaleDown
  /\ ~ScaleDown /\ ~(ControlPlane \subseteq Booting) => \E p \in members : pc[p] \notin Leaving

\* At the start some member is not leaving.
LEMMA InitSurvivor == Init => Survivor
  <1> SUFFICES ASSUME Init PROVE Survivor
    OBVIOUS
  <1>1. \A m \in Machines : ~api[m].leaving
    BY DEF Init, Initial, Blank
  <1>2. \A m \in Machines : pc[m] \notin Leaving
    BY DEF Init, Leaving
  <1>3. QED
    BY <1>1, <1>2, SubsetAssumption DEF Init, Survivor

\* An object of the server keeps its leaving mark unless CACPPT sets one.
LEMMA LeavingStep ==
  ASSUME TypeInv, Next, NEW n \in Machines, api'[n].leaving
  PROVE  api[n].leaving \/ ScaleDown
  <1>0. api \in [Machines -> MachineType] /\ api[n] \in MachineType
    BY DEF TypeInv, TypeOK
  <1>1. ASSUME NEW m \in Machines, ReconcileStep(m) PROVE api[n].leaving
    <2>1. CASE n # m
      BY <1>1, <2>1, OnlyOwn
    <2>2. CASE n = m /\ UNCHANGED api
      BY <2>2
    <2>3. CASE n = m /\ ~UNCHANGED api
      <3>1. ASSUME NEW stored, NEW next, NEW v, PatchAnnotations(m, stored, next, v)
            PROVE  api'[m] = stored
        BY <1>0, <2>3, <3>1 DEF PatchAnnotations
      <3>2. CASE EnsureHook(m)
        BY <1>0, <2>3, <3>1, <3>2 DEF EnsureHook, MachineType
      <3>3. CASE EnsureObservedAt(m)
        BY <1>0, <2>3, <3>1, <3>3 DEF EnsureObservedAt, MachineType
      <3>4. CASE StampEtcd(m)
        BY <1>0, <2>3, <3>1, <3>4 DEF StampEtcd, MachineType
      <3>5. CASE StampReset(m)
        BY <1>0, <2>3, <3>1, <3>5 DEF StampReset, MachineType
      <3>6. CASE Release(m)
        BY <1>0, <2>3, <3>1, <3>6 DEF Release, MachineType
      <3>7. QED
        BY <1>1, <2>3, <3>2, <3>3, <3>4, <3>5, <3>6
        DEF ReconcileStep, Reconcile, EnsureCredentials, EtcdPhase, FindHealthyPeer,
            LeaveViaVictim, RemoveViaPeer, TryReset
    <2>4. QED
      BY <2>1, <2>2, <2>3
  <1>2. CASE CacheSync \/ ClusterSync \/ CredentialGC \/ Crash
    BY <1>2 DEF CacheSync, ClusterSync, CredentialGC, Crash
  <1>3. CASE Tick
    BY <1>0, <1>3 DEF Tick, Age, MachineType
  <1>4. CASE Environment
    <2>1. CASE DeleteCluster \/ ClusterGone \/ SecretCollected
      BY <2>1 DEF DeleteCluster, ClusterGone, SecretCollected
    <2>2. ASSUME NEW m \in Machines,
                 \/ DeleteMachine(m) \/ ScaleDownLeave(m)
                 \/ ForeignAdds(m) \/ ForeignRelease(m) \/ Boot(m) \/ NodeDies(m) \/ HandEdit(m)
          PROVE  api[n].leaving
      BY <1>0, <2>2 DEF DeleteMachine, ScaleDownLeave, ForeignAdds, ForeignRelease, Boot, NodeDies,
                        HandEdit, MachineType
    <2>3. ASSUME NEW m \in Machines, MachineController(m) \/ DrainEnds(m) PROVE api[n].leaving
      BY <1>0, <2>3 DEF MachineController, DrainEnds, McNotice, McDrained, McRepark, Park,
                        McDeleteInfra, McReport, PowerOff, McFinish, MachineType
    <2>4. QED
      BY <1>4, <2>1, <2>2, <2>3 DEF Environment, MarkLeaving
  <1>5. QED
    BY <1>1, <1>2, <1>3, <1>4 DEF Next, ControllerStep

\* Every step leaves etcd a member that nobody is removing.
LEMMA SurvivorStep == TypeInv /\ TeardownInv /\ Survivor /\ [Next]_vars => Survivor'
  <1> SUFFICES ASSUME TypeInv, TeardownInv, Survivor, Next PROVE Survivor'
    BY DEF Survivor, vars
  <1>1. \A m \in Machines : api'[m].leaving => ScaleDown
    BY LeavingStep DEF Survivor
  <1> SUFFICES ASSUME ~ScaleDown, ~(ControlPlane \subseteq Booting)
               PROVE  \E p \in members' : pc'[p] \notin Leaving
    BY <1>1 DEF Survivor
  <1>2. PICK p \in members : pc[p] \notin Leaving
    BY DEF Survivor
  <1>3. members \subseteq Machines
    BY SubsetAssumption DEF TypeInv, TypeOK
  <1>4. \A q \in Machines : cache[q].del = 0 => pc[q] \notin Leaving
    BY DEF TypeInv, TypeOK, MachineType, TeardownInv, MachineInv, Behind, Progress, Deleting, Leaving
  <1>5. ASSUME NEW m \in Machines, ReconcileStep(m) PROVE \E q \in members' : pc'[q] \notin Leaving
    <2>1. members' = members \/ (members' = members \ {m} /\ pc[m] \in Leaving)
      BY <1>5 DEF ReconcileStep, Reconcile, EnsureHook, EnsureCredentials, EnsureObservedAt,
                  EtcdPhase, FindHealthyPeer, LeaveViaVictim, RemoveViaPeer, StampEtcd, TryReset,
                  StampReset, Release, Leaving
    <2>2. CASE p # m
      BY <1>2, <1>3, <1>5, <2>1, <2>2, OnlyOwn
    <2>3. CASE p = m /\ pc'[m] \notin Leaving
      BY <1>2, <2>1, <2>3
    <2>4. CASE p = m /\ pc'[m] \in Leaving
      <3>1. /\ \A next, v, o, r : Continue(m, next, v, o, r) => pc'[m] = next
            /\ UNCHANGED local => pc'[m] = pc[m]
        BY DEF Continue, TypeInv, TypeOK
      <3>2. FindHealthyPeer(m)
        <4>1. ~Return(m) /\ ~Requeue(m)
          BY <2>4, <3>1 DEF Return, Requeue, Leaving
        <4>2. \A next : Goto(m, next) => next \in Leaving
          BY <2>4, <3>1 DEF Goto
        <4>3. \A next, stored, v : PatchAnnotations(m, stored, next, v) => next \in Leaving
          BY <2>4, <3>1, <4>1 DEF PatchAnnotations
        <4>4. ~EtcdFailed(m) /\ ~ResetFailed(m)
          BY <2>4, <3>1, <4>1 DEF EtcdFailed, ResetFailed, Leaving
        <4>5. ~Reconcile(m)
          BY <1>2, <2>4, <3>1 DEF Reconcile, Leaving
        <4>6. ~EnsureHook(m) /\ ~StampEtcd(m) /\ ~StampReset(m) /\ ~Release(m)
          BY <4>3 DEF EnsureHook, StampEtcd, StampReset, Release, Leaving
        <4>7. ~EnsureCredentials(m) /\ ~EnsureObservedAt(m)
          BY <4>1, <4>2, <4>3 DEF EnsureCredentials, EnsureObservedAt, Leaving
        <4>8. ~EtcdPhase(m) /\ ~TryReset(m)
          BY <2>4, <3>1, <4>1, <4>2, <4>4 DEF EtcdPhase, TryReset, Leaving
        <4>9. ~LeaveViaVictim(m) /\ ~RemoveViaPeer(m)
          BY <1>2, <2>4 DEF LeaveViaVictim, RemoveViaPeer, Leaving
        <4>10. QED
          BY <1>5, <4>5, <4>6, <4>7, <4>8, <4>9 DEF ReconcileStep
      <3>3. PICK q \in Machines : HealthyPeer(q, m)
        <4>1. ~EtcdFailed(m)
          BY <2>4, <3>1 DEF EtcdFailed, Requeue, Leaving
        <4>2. QED
          BY <3>2, <4>1 DEF FindHealthyPeer
      <3>4. q # m /\ q \in members /\ pc[q] \notin Leaving
        BY <1>4, <3>3 DEF HealthyPeer
      <3>5. members' = members
        BY <3>2 DEF FindHealthyPeer
      <3>6. QED
        BY <1>5, <3>4, <3>5, OnlyOwn
    <2>5. QED
      BY <2>2, <2>3, <2>4
  <1>6. CASE CacheSync \/ ClusterSync \/ CredentialGC \/ Tick
    BY <1>2, <1>6 DEF CacheSync, ClusterSync, CredentialGC, Tick
  <1>7. CASE Crash
    BY <1>2, <1>3, <1>7 DEF Crash, Leaving
  <1>8. CASE Environment
    <2>1. UNCHANGED pc
      BY <1>8 DEF Environment, DeleteCluster, ClusterGone, SecretCollected, DeleteMachine, MarkLeaving,
           ScaleDownLeave, MachineController, DrainEnds, ForeignAdds, ForeignRelease, Boot, NodeDies, HandEdit,
           McNotice, McDrained, McRepark, Park, McDeleteInfra, McReport, PowerOff, McFinish, McUnchanged
    <2>2. members \subseteq members'
      <3>1. \A m \in Machines : ~ScaleDownLeave(m)
        BY DEF ScaleDownLeave, Survivor
      <3>2. QED
        BY <1>8, <3>1 DEF Environment, DeleteCluster, ClusterGone, SecretCollected, DeleteMachine,
           MarkLeaving, MachineController, DrainEnds, ForeignAdds, ForeignRelease, Boot, NodeDies, HandEdit,
           McNotice, McDrained, McRepark, Park, McDeleteInfra, McReport, PowerOff, McFinish, McUnchanged
    <2>3. QED
      BY <1>2, <2>1, <2>2
  <1>9. QED
    BY <1>5, <1>6, <1>7, <1>8 DEF Next, ControllerStep

\* However many control-plane Machines are torn down at once and however late
\* the caches are, the controller never removes the last etcd member.
THEOREM EtcdSurvives == Spec => []LastMemberKept
  <1>1. Survivor => LastMemberKept
    BY DEF Survivor, LastMemberKept
  <1>2. Spec => []Survivor
    BY InitSurvivor, SurvivorStep, TypeInvariant, TeardownInvariant, PTL DEF Spec
  <1>3. QED
    BY <1>1, <1>2, PTL

=============================================================================
