------------------------------ MODULE Teardown ------------------------------
(***************************************************************************)
(* talos-machine-teardown (C3): the pre-terminate state machine that       *)
(* removes a Talos node from etcd and wipes it before Cluster API deletes  *)
(* the infrastructure under it (internal/teardown, reconciler.go).         *)
(*                                                                         *)
(* The controller reads Machines and the Cluster from informer caches that *)
(* lag the API server, and writes merge patches straight to the server.    *)
(* One Reconcile call is a sequence of atomic steps: every patch, every    *)
(* Talos RPC and every cache read that a decision rests on is a step of    *)
(* its own, so other Machines' reconciles, the machine controller, the     *)
(* informers and a crash can come between any two of them.                 *)
(*                                                                         *)
(* Abstractions                                                            *)
(*  - An annotation is a field of the Machine record; absence is "none",   *)
(*    FALSE or Unset.  A Machine is named by a number, numbers order       *)
(*    names.                                                               *)
(*  - pre-terminate-observed-at is kept as the time passed since it was    *)
(*    stamped: only now() - observedAt is ever used.  Tick ages every copy *)
(*    of it (server, cache, reconcile-local) together.                     *)
(*  - CacheSync brings the cached Machines to the server's present state:  *)
(*    the cache only ever shows a state all Machines once had together.    *)
(*    The Cluster informer lags independently.                             *)
(*  - EtcdPhase reads the Cluster and the list of its Machines from their  *)
(*    caches in one step.                                                  *)
(*  - "booting" nodes have no address in any of the three sources of       *)
(*    resolveAddress; every other node has one.                            *)
(*  - Faults (a failed call, a lost answer, a crash, a dead node, a hand   *)
(*    edit) share the budget MaxFaults.  A dead node fails every call      *)
(*    made to it and costs one fault.                                      *)
(***************************************************************************)
EXTENDS Integers, FiniteSets

CONSTANTS
  Machines,        \* Machines of one cluster, as the naturals that order names
  ControlPlane,    \* Machines with the control-plane label
  Qualifying,      \* TalosConfig + TinkerbellMachine Machines
  EtcdTimeout,     \* --etcd-timeout, in ticks
  ResetTimeout,    \* --reset-timeout, in ticks
  Concurrency,     \* --concurrency
  MaxFaults        \* bound on the faults of a behaviour

ASSUME MachinesAssumption == Machines \subseteq Nat \ {0} /\ IsFiniteSet(Machines)
ASSUME SubsetAssumption == ControlPlane \subseteq Machines /\ Qualifying \subseteq Machines
ASSUME TimeAssumption ==
  /\ EtcdTimeout \in Nat /\ ResetTimeout \in Nat
  /\ Concurrency \in Nat /\ MaxFaults \in Nat

VARIABLES
  api,          \* the Machines as the API server stores them
  cache,        \* the Machines as the informer cache shows them
  cluster,      \* the Cluster: live, deleting or gone
  clusterCache, \* the Cluster as the informer cache shows it
  secret,       \* <cluster>-talosconfig exists / the controller's copy exists
  queue,        \* the workqueue (rate-limited and delayed entries included)
  pc, view, out, peer, \* per Machine: step, local object, outcome, dialed peer
  node,         \* the node of each Machine: booting, up or down
  wiped,        \* nodes whose STATE and EPHEMERAL were wiped by a reset
  members,      \* etcd members
  mc,           \* where the CAPI machine controller is with each Machine
  armed,        \* ghost: Machines that carried the hook when deleted
  acked,        \* ghost: Machines whose reset the controller saw succeed
  faults        \* faults so far

local == <<pc, view, out, peer>>
etcdVars == <<members>>
nodeVars == <<node, wiped, acked>>
clusterVars == <<cluster, clusterCache>>
vars == <<api, cache, cluster, clusterCache, secret, queue, pc, view, out, peer,
          node, wiped, members, mc, armed, acked, faults>>

-----------------------------------------------------------------------------
(* The Machine object *)

Unset == -1    \* pre-terminate-observed-at absent
Garbled == -2  \* present but not RFC 3339 (hand-edited)
MaxAge == IF EtcdTimeout > ResetTimeout THEN EtcdTimeout + 1 ELSE ResetTimeout + 1

Reasons == {"none", "early", "preTerminate", "infra", "gone"}
EtcdOutcomes == {"none", "not-member", "left", "removed", "orphaned", "skipped-cluster-delete"}
ResetOutcomes == {"none", "done", "skipped-timeout", "skipped-no-address"}

MachineType ==
  [del : Nat,              \* deletionTimestamp, 0 when absent
   reason : Reasons,       \* reason of the Deleting condition; "gone": no object
   hook : BOOLEAN, foreign : BOOLEAN, legacy : BOOLEAN, leaving : BOOLEAN,
   obs : {Unset, Garbled} \cup 0..MaxAge,
   etcd : EtcdOutcomes, reset : ResetOutcomes]

\* A Machine with no annotation of this controller; also the local object of
\* a reconcile that is not running.
Blank ==
  [del |-> 0, reason |-> "none", hook |-> FALSE, foreign |-> FALSE,
   legacy |-> FALSE, leaving |-> FALSE, obs |-> Unset,
   etcd |-> "none", reset |-> "none"]

Exists(r) == r.reason # "gone"
AnyHook(r) == r.hook \/ r.foreign \/ r.legacy

\* machinePredicate and the entry test of Reconcile.
Admitted(m, r) == m \in Qualifying \/ r.hook

StampAllowed(r) == r.del = 0 \/ r.reason \in {"none", "early", "preTerminate"}
AtPreTerminate(r) == r.reason = "preTerminate"
\* Faulty variant: other hooks are not waited for.
HasOtherIgnored(r) == FALSE
HasOtherPreTerminateHooks(r) == r.foreign

HasCredentials == secret.live \/ secret.cached

-----------------------------------------------------------------------------
(* How a step of a reconcile ends *)

Steps == {"idle", "hook", "creds", "gate", "etcd", "member", "leave", "remove",
          "stampEtcd", "reset", "stampReset", "release"}

Fault == faults < MaxFaults /\ faults' = faults + 1

\* The reconcile of m goes on at step `next' with local object v.
Continue(m, next, v, o, p) ==
  /\ pc' = [pc EXCEPT ![m] = next]
  /\ view' = [view EXCEPT ![m] = v]
  /\ out' = [out EXCEPT ![m] = o]
  /\ peer' = [peer EXCEPT ![m] = p]

Goto(m, next) == Continue(m, next, view[m], "none", 0)

\* Return with an empty result: only a watch event brings m back.
Return(m) == Continue(m, "idle", Blank, "none", 0) /\ UNCHANGED queue

\* Return with an error or RequeueAfter: the workqueue brings m back.
Requeue(m) == Continue(m, "idle", Blank, "none", 0) /\ queue' = queue \cup {m}

\* patchAnnotations: a merge patch of the keys the reconcile changed, with no
\* resourceVersion in it; `stored' is the server's object after it, `v' the
\* local one.  The object may be gone, the call may fail, and the answer of a
\* call that took effect may be lost.
PatchAnnotations(m, stored, next, v) ==
  \/ /\ Exists(api[m])
     /\ api' = [api EXCEPT ![m] = stored]
     /\ \/ Continue(m, next, v, "none", 0) /\ UNCHANGED <<queue, faults>>
        \/ Fault /\ Requeue(m)
  \/ /\ UNCHANGED api
     /\ Requeue(m)
     /\ Fault \/ (~Exists(api[m]) /\ UNCHANGED faults)

-----------------------------------------------------------------------------
(* Reconcile: entry, hook and credentials *)

\* Faulty variant: a Machine without the hook is always stamped, a released one
\* included.
ReconcileRestamps(m) ==
  /\ m \in queue /\ pc[m] = "idle"
  /\ queue' = queue \ {m}
  /\ LET v == cache[m]
         first == IF ~v.hook THEN "hook" ELSE IF v.del = 0 THEN "creds" ELSE "gate"
     IN  IF Exists(v) /\ Admitted(m, v) /\ (v.hook \/ StampAllowed(v))
         THEN Continue(m, first, v, "none", 0)
         ELSE UNCHANGED local
  /\ UNCHANGED <<api, cache, secret, mc, armed, faults>>
  /\ UNCHANGED <<clusterVars, nodeVars, etcdVars>>

\* Reconcile reads m from the cache and either returns at once or enters
\* reconcileNormal / reconcileDeleting.
Reconcile(m) ==
  /\ m \in queue /\ pc[m] = "idle"
  /\ Cardinality({n \in Machines : pc[n] # "idle"}) < Concurrency
  /\ queue' = queue \ {m}
  /\ LET v == cache[m]
         ignored == ~Exists(v) \/ ~Admitted(m, v)
         released == v.del > 0 /\ ~v.hook /\ (v.reset # "none" \/ ~StampAllowed(v))
         first == CASE ~v.hook -> "hook"
                    [] v.hook /\ v.del = 0 -> "creds"
                    [] OTHER -> "gate"
     IN  IF ignored \/ released
         THEN UNCHANGED local
         ELSE Continue(m, first, v, "none", 0)
  /\ UNCHANGED <<api, cache, secret, mc, armed, faults>>
  /\ UNCHANGED <<clusterVars, nodeVars, etcdVars>>

EnsureHook(m) ==
  /\ pc[m] = "hook"
  /\ PatchAnnotations(m,
       [api[m] EXCEPT !.hook = TRUE, !.legacy = @ /\ ~view[m].legacy],
       "creds",
       [view[m] EXCEPT !.hook = TRUE, !.legacy = FALSE])
  /\ UNCHANGED <<cache, secret, mc, armed, clusterVars, nodeVars, etcdVars>>

\* ensureCredentials ends reconcileNormal; in reconcileDeleting it follows the
\* late stamp.  The answer of a copy that was written may be lost.
EnsureCredentials(m) ==
  /\ pc[m] = "creds"
  /\ \/ /\ secret' = [secret EXCEPT !.cached = @ \/ secret.live]
        /\ IF view[m].del = 0 THEN Return(m)
                              ELSE Goto(m, "gate") /\ UNCHANGED queue
        /\ UNCHANGED faults
     \/ /\ Fault /\ Requeue(m)
        /\ secret' \in {secret, [secret EXCEPT !.cached = @ \/ secret.live]}
  /\ UNCHANGED <<api, cache, mc, armed, clusterVars, nodeVars, etcdVars>>

\* The gates of reconcileDeleting (wait for the pre-terminate phase, run last)
\* and ensureObservedAt.
EnsureObservedAt(m) ==
  /\ pc[m] = "gate"
  /\ \/ /\ ~AtPreTerminate(view[m])
        /\ Return(m) /\ UNCHANGED <<api, faults>>
     \/ /\ AtPreTerminate(view[m]) /\ HasOtherPreTerminateHooks(view[m])
        /\ Requeue(m) /\ UNCHANGED <<api, faults>>
     \/ /\ AtPreTerminate(view[m]) /\ ~HasOtherPreTerminateHooks(view[m])
        /\ IF view[m].obs >= 0
           THEN Goto(m, "etcd") /\ UNCHANGED <<api, queue, faults>>
           ELSE PatchAnnotations(m, [api[m] EXCEPT !.obs = 0], "etcd",
                                    [view[m] EXCEPT !.obs = 0])
  /\ UNCHANGED <<cache, secret, mc, armed, clusterVars, nodeVars, etcdVars>>

-----------------------------------------------------------------------------
(* The etcd phase *)

\* Faulty variant: any two deleting Machines hold each other.
PrecedesAlways(p, m) == cache[p].del > 0 /\ view[m].del > 0
\* Faulty variant: only a strictly later deletion holds.
PrecedesYounger(p, m) == cache[p].del > view[m].del

\* serializeControlPlane: an older-deleting hooked control-plane Machine of
\* the cluster, as the cache shows them, holds m back.
Precedes(p, m) ==
  \/ cache[p].del < view[m].del
  \/ cache[p].del = view[m].del /\ p < m
Held(m) ==
  \E p \in ControlPlane \ {m} :
    Exists(cache[p]) /\ cache[p].del > 0 /\ cache[p].hook /\ Precedes(p, m)

\* clusterDeleting, etcdPhase and serializeControlPlane.
EtcdPhase(m) ==
  /\ pc[m] = "etcd"
  /\ \/ /\ view[m].etcd # "none"
        /\ Goto(m, "reset") /\ UNCHANGED queue
     \/ /\ view[m].etcd = "none" /\ clusterCache # "live"
        /\ Continue(m, "stampEtcd", view[m], "skipped-cluster-delete", 0)
        /\ UNCHANGED queue
     \/ /\ view[m].etcd = "none" /\ clusterCache = "live"
        /\ CASE m \notin ControlPlane -> Goto(m, "reset") /\ UNCHANGED queue
             [] m \in ControlPlane /\ Held(m) -> Requeue(m)
             [] OTHER -> Goto(m, "member") /\ UNCHANGED queue
  /\ UNCHANGED <<api, cache, secret, mc, armed, faults>>
  /\ UNCHANGED <<clusterVars, nodeVars, etcdVars>>

\* Faulty variant: an expired etcd phase is not recorded.
EtcdFailedUnstamped(m) ==
  IF view[m].obs > EtcdTimeout THEN Goto(m, "reset") /\ UNCHANGED queue ELSE Requeue(m)

\* ensureEtcdRemoved on a failed attempt: retry before the deadline, orphan the
\* member after it.
EtcdFailed(m) ==
  IF view[m].obs > EtcdTimeout
  THEN Continue(m, "stampEtcd", view[m], "orphaned", 0) /\ UNCHANGED queue
  ELSE Requeue(m)

\* Faulty variant: a peer that is being deleted itself is a candidate.
HealthyPeerDeleting(p, m) ==
  /\ p \in ControlPlane \ {m}
  /\ Exists(cache[p]) /\ ~cache[p].leaving
  /\ node[p] = "up" /\ p \in members

\* orderPeers and probePeer: p is a candidate in the cache and its etcd answers.
HealthyPeer(p, m) ==
  /\ p \in ControlPlane \ {m}
  /\ Exists(cache[p]) /\ cache[p].del = 0 /\ ~cache[p].leaving
  /\ node[p] = "up" /\ p \in members

\* The verify half of tryEtcdRemoval: credentials, a healthy peer, its member
\* list.
FindHealthyPeer(m) ==
  /\ pc[m] = "member"
  /\ \/ /\ HasCredentials
        /\ \E p \in Machines :
             /\ HealthyPeer(p, m)
             /\ IF m \in members
                THEN Continue(m, "leave", view[m], "none", p)
                ELSE Continue(m, "stampEtcd", view[m], "not-member", 0)
        /\ UNCHANGED <<queue, faults>>
     \/ /\ ~HasCredentials \/ (\A p \in Machines : ~HealthyPeer(p, m))
        /\ EtcdFailed(m) /\ UNCHANGED faults
     \/ Fault /\ EtcdFailed(m)
  /\ UNCHANGED <<api, cache, secret, mc, armed, clusterVars, nodeVars, etcdVars>>

\* Faulty variant: an attempted leave counts as a leave.
LeaveUnconfirmed(m) ==
  /\ pc[m] = "leave"
  /\ members' = IF node[m] = "up" THEN members \ {m} ELSE members
  /\ Continue(m, "stampEtcd", view[m], "left", 0)
  /\ UNCHANGED <<api, cache, secret, queue, mc, armed, faults, clusterVars, nodeVars>>

\* leaveViaVictim: any failure, one that took effect included, falls through
\* to the removal via the peer.
LeaveViaVictim(m) ==
  /\ pc[m] = "leave"
  /\ \/ /\ node[m] = "up" /\ m \in members
        /\ members' = members \ {m}
        /\ \/ Continue(m, "stampEtcd", view[m], "left", 0) /\ UNCHANGED faults
           \/ Fault /\ Continue(m, "remove", view[m], "none", peer[m])
     \/ /\ Fault \/ ((node[m] # "up" \/ m \notin members) /\ UNCHANGED faults)
        /\ Continue(m, "remove", view[m], "none", peer[m])
        /\ UNCHANGED members
  /\ UNCHANGED <<api, cache, secret, queue, mc, armed, clusterVars, nodeVars>>

\* EtcdRemoveMemberByID via the peer dialed in FindHealthyPeer.
PeerAnswers(m) == peer[m] \in members /\ node[peer[m]] = "up"
RemoveViaPeer(m) ==
  /\ pc[m] = "remove"
  /\ \/ /\ PeerAnswers(m) /\ m \in members
        /\ members' = members \ {m}
        /\ \/ Continue(m, "stampEtcd", view[m], "removed", 0) /\ UNCHANGED <<queue, faults>>
           \/ Fault /\ EtcdFailed(m)
     \/ /\ Fault \/ (~(PeerAnswers(m) /\ m \in members) /\ UNCHANGED faults)
        /\ EtcdFailed(m) /\ UNCHANGED members
  /\ UNCHANGED <<api, cache, secret, mc, armed, clusterVars, nodeVars>>

StampEtcd(m) ==
  /\ pc[m] = "stampEtcd"
  /\ PatchAnnotations(m, [api[m] EXCEPT !.etcd = out[m]], "reset",
                         [view[m] EXCEPT !.etcd = out[m]])
  /\ UNCHANGED <<cache, secret, mc, armed, clusterVars, nodeVars, etcdVars>>

-----------------------------------------------------------------------------
(* The reset phase and the release *)

\* Faulty variants: an expired reset goes straight to the release; a failed
\* reset counts as done.
ResetFailedUnstamped(m) ==
  IF view[m].obs > ResetTimeout THEN Goto(m, "release") /\ UNCHANGED queue ELSE Requeue(m)
ResetFailedAsDone(m) ==
  IF view[m].obs > ResetTimeout
  THEN Continue(m, "stampReset", view[m], "done", 0) /\ UNCHANGED queue
  ELSE Requeue(m)

\* resetPhase on a failed attempt.
ResetFailed(m) ==
  IF view[m].obs > ResetTimeout
  THEN Continue(m, "stampReset", view[m], "skipped-timeout", 0) /\ UNCHANGED queue
  ELSE Requeue(m)

\* resetPhase and tryReset: ResetGeneric wipes the node and halts it.
TryReset(m) ==
  /\ pc[m] = "reset"
  /\ \/ /\ view[m].reset # "none"
        /\ Goto(m, "release") /\ UNCHANGED <<queue, faults, nodeVars>>
     \/ /\ view[m].reset = "none" /\ node[m] = "booting"
        /\ Continue(m, "stampReset", view[m], "skipped-no-address", 0)
        /\ UNCHANGED <<queue, faults, nodeVars>>
     \/ /\ view[m].reset = "none" /\ HasCredentials /\ node[m] = "up"
        /\ node' = [node EXCEPT ![m] = "down"]
        /\ wiped' = wiped \cup {m}
        /\ \/ /\ Continue(m, "stampReset", view[m], "done", 0)
              /\ acked' = acked \cup {m}
              /\ UNCHANGED <<queue, faults>>
           \/ Fault /\ ResetFailed(m) /\ UNCHANGED acked
     \/ /\ view[m].reset = "none"
        /\ Fault \/ ((node[m] = "down" \/ (node[m] = "up" /\ ~HasCredentials)) /\ UNCHANGED faults)
        /\ ResetFailed(m) /\ UNCHANGED nodeVars
  /\ UNCHANGED <<api, cache, secret, mc, armed, clusterVars, etcdVars>>

\* Faulty variant: the outcome is written under the etcd key.
StampResetWrongKey(m) ==
  /\ pc[m] = "stampReset"
  /\ PatchAnnotations(m, [api[m] EXCEPT !.etcd = out[m]], "release",
                         [view[m] EXCEPT !.etcd = out[m]])
  /\ UNCHANGED <<cache, secret, mc, armed, clusterVars, nodeVars, etcdVars>>

StampReset(m) ==
  /\ pc[m] = "stampReset"
  /\ PatchAnnotations(m, [api[m] EXCEPT !.reset = out[m]], "release",
                         [view[m] EXCEPT !.reset = out[m]])
  /\ UNCHANGED <<cache, secret, mc, armed, clusterVars, nodeVars, etcdVars>>

Release(m) ==
  /\ pc[m] = "release"
  /\ PatchAnnotations(m,
       [api[m] EXCEPT !.hook = FALSE, !.legacy = @ /\ ~view[m].legacy],
       "idle", Blank)
  /\ UNCHANGED <<cache, secret, mc, armed, clusterVars, nodeVars, etcdVars>>

ReconcileStep(m) ==
  \/ Reconcile(m) \/ EnsureHook(m) \/ EnsureCredentials(m) \/ EnsureObservedAt(m)
  \/ EtcdPhase(m) \/ FindHealthyPeer(m) \/ LeaveViaVictim(m) \/ RemoveViaPeer(m)
  \/ StampEtcd(m) \/ TryReset(m) \/ StampReset(m) \/ Release(m)

-----------------------------------------------------------------------------
(* Watches, the credential collector, the clock, the process *)

\* The Machine informer catches up; machinePredicate admits the events.
CacheSync ==
  /\ cache # api
  /\ cache' = api
  /\ queue' = queue \cup {m \in Machines : cache[m] # api[m] /\ Admitted(m, api[m])}
  /\ UNCHANGED <<api, secret, local, mc, armed, faults>>
  /\ UNCHANGED <<clusterVars, nodeVars, etcdVars>>

\* The Cluster informer catches up; clusterToMachines fans the event out.
ClusterSync ==
  /\ clusterCache # cluster
  /\ clusterCache' = cluster
  /\ queue' = queue \cup {m \in Machines : Exists(cache[m]) /\ Admitted(m, cache[m])}
  /\ UNCHANGED <<api, cache, cluster, secret, local, mc, armed, faults>>
  /\ UNCHANGED <<nodeVars, etcdVars>>

\* CredentialCache.GC, as one step (CredentialCache.tla has its races).
CredentialGC ==
  /\ secret.cached /\ clusterCache = "gone"
  /\ \A m \in Qualifying : ~Exists(cache[m])
  /\ secret' = [secret EXCEPT !.cached = FALSE]
  /\ UNCHANGED <<api, cache, queue, local, mc, armed, faults>>
  /\ UNCHANGED <<clusterVars, nodeVars, etcdVars>>

Age(r) == IF r.obs \in 0..(MaxAge - 1) THEN [r EXCEPT !.obs = @ + 1] ELSE r
Tick ==
  /\ \E m \in Machines : Age(api[m]) # api[m]
  /\ api' = [m \in Machines |-> Age(api[m])]
  /\ cache' = [m \in Machines |-> Age(cache[m])]
  /\ view' = [m \in Machines |-> Age(view[m])]
  /\ UNCHANGED <<secret, queue, pc, out, peer, mc, armed, faults>>
  /\ UNCHANGED <<clusterVars, nodeVars, etcdVars>>

\* The process dies and a new one starts with freshly listed caches.
Crash ==
  /\ Fault
  /\ \E m \in Machines : pc[m] # "idle"
  /\ pc' = [m \in Machines |-> "idle"]
  /\ view' = [m \in Machines |-> Blank]
  /\ out' = [m \in Machines |-> "none"]
  /\ peer' = [m \in Machines |-> 0]
  /\ cache' = api /\ clusterCache' = cluster
  /\ queue' = {m \in Machines : Exists(api[m]) /\ Admitted(m, api[m])}
  /\ UNCHANGED <<api, secret, mc, armed, cluster, nodeVars, etcdVars>>

ControllerStep ==
  \/ \E m \in Machines : ReconcileStep(m)
  \/ CacheSync \/ ClusterSync \/ CredentialGC \/ Tick \/ Crash
=============================================================================
