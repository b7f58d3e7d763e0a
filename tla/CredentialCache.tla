-------------------------- MODULE CredentialCache --------------------------
(***************************************************************************)
(* The copies of the clusters' talosconfig secrets that the teardown       *)
(* controller keeps in its own namespace (internal/teardown,               *)
(* credentials.go): Ensure, called by concurrent reconciles, Config, and   *)
(* the periodic GC.  Secrets are read from the API server directly,        *)
(* Clusters and Machines from informer caches that lag.                    *)
(*                                                                         *)
(* Abstractions: a namespace or a name is the sequence of its              *)
(* dash-separated parts, so joining two with a dash is concatenation; the  *)
(* fixed prefix of the copies' names is left out.  A secret's material is  *)
(* the cluster it is for and its generation.  The Machines of a cluster    *)
(* are one value: none, live (one at least is not deleting) or deleting.   *)
(***************************************************************************)
EXTENDS Integers, Sequences, FiniteSets

CONSTANTS
  Clusters,     \* [ns, name] records
  Workers,      \* concurrent reconciles
  Recreates,    \* whether a Cluster may be created again under its old name
  MaxRewrites,  \* bound on the version CABPT's rewrites bring a source secret to
  MaxFaults     \* bound on failed calls and hand-stripped finalizers

ASSUME CredentialAssumption ==
  /\ Clusters \subseteq [ns : Seq(STRING), name : Seq(STRING)]
  /\ Recreates \in BOOLEAN /\ MaxRewrites \in Nat /\ MaxFaults \in Nat

VARIABLES
  cluster, clusterSeen,    \* whether the Cluster exists / is in the cache
  machines, machinesSeen,  \* its qualifying Machines, on the server / in the cache
  source,                  \* <cluster>-talosconfig
  copy,                    \* the copies, by name
  worker,                  \* the Ensure call each worker is in
  gc,                      \* the GC pass
  reborn,                  \* ghost: the clusters that came back under their name
  faults

vars == <<cluster, clusterSeen, machines, machinesSeen, source, copy, worker, gc, reborn, faults>>
world == <<cluster, clusterSeen, machines, machinesSeen, source, reborn>>

cachedSecretName(c) == c.ns \o c.name
Names == {cachedSecretName(c) : c \in Clusters}

NoCluster == [ns |-> <<>>, name |-> <<>>]
NoSource == [there |-> FALSE, gen |-> 0, rv |-> 0]
\* of: the cluster labels; key: the cluster whose material it is.
NoCopy == [there |-> FALSE, of |-> NoCluster, key |-> NoCluster, gen |-> 0, src |-> 0, rv |-> 0]
Idle == [at |-> "idle", c |-> NoCluster, src |-> NoSource, old |-> 0]
NoPass == [at |-> "idle", todo |-> {}, name |-> <<>>, c |-> NoCluster]

Fault == faults < MaxFaults /\ faults' = faults + 1

-----------------------------------------------------------------------------
(* Ensure *)

\* The read of the source secret, in a reconcile of a Machine the cache shows.
EnsureStart(w, c) ==
  /\ worker[w].at = "idle" /\ machinesSeen[c] # "none"
  /\ source[c].there
  /\ worker' = [worker EXCEPT ![w] = [at |-> "read", c |-> c, src |-> source[c], old |-> 0]]
  /\ UNCHANGED <<world, copy, gc, faults>>

\* Faulty variant: an existing copy is never refreshed.
EnsureReadNoRefresh(w) ==
  /\ worker[w].at = "read"
  /\ worker' = [worker EXCEPT ![w] =
       IF copy[cachedSecretName(worker[w].c)].there THEN Idle ELSE [@ EXCEPT !.at = "create"]]
  /\ UNCHANGED <<world, copy, gc, faults>>

\* The read of the copy decides: create, nothing to do (same source version, or
\* same material), or update.  No two secrets share a version or material.
EnsureRead(w) ==
  LET do == worker[w]
      existing == copy[cachedSecretName(do.c)]
      same == existing.key = do.c /\ (existing.src = do.src.rv \/ existing.gen = do.src.gen)
  IN
  /\ do.at = "read"
  /\ worker' = [worker EXCEPT ![w] =
       CASE ~existing.there -> [do EXCEPT !.at = "create"]
         [] existing.there /\ same -> Idle
         [] OTHER -> [do EXCEPT !.at = "update", !.old = existing.rv]]
  /\ UNCHANGED <<world, copy, gc, faults>>

\* The object Ensure writes.
Cached(do, version) ==
  [there |-> TRUE, of |-> do.c, key |-> do.c, gen |-> do.src.gen, src |-> do.src.rv,
   rv |-> version]

\* Create and Update; AlreadyExists, Conflict and NotFound are errors, and the
\* reconcile starts over.
EnsureCreate(w) ==
  LET do == worker[w]  n == cachedSecretName(do.c) IN
  /\ do.at = "create"
  /\ copy' = IF copy[n].there THEN copy
             ELSE [copy EXCEPT ![n] = Cached(do, copy[n].rv + 1)]
  /\ worker' = [worker EXCEPT ![w] = Idle]
  /\ UNCHANGED <<world, gc, faults>>
EnsureUpdate(w) ==
  LET do == worker[w]  n == cachedSecretName(do.c) IN
  /\ do.at = "update"
  /\ copy' = IF copy[n].there /\ copy[n].rv = do.old
             THEN [copy EXCEPT ![n] = Cached(do, copy[n].rv + 1)] ELSE copy
  /\ worker' = [worker EXCEPT ![w] = Idle]
  /\ UNCHANGED <<world, gc, faults>>

\* A call fails or the process dies: the reconcile starts over.
EnsureFails(w) ==
  /\ Fault
  /\ worker[w].at # "idle"
  /\ worker' = [worker EXCEPT ![w] = Idle]
  /\ UNCHANGED <<world, copy, gc>>

\* Config prefers the live secret and falls back to the copy: the cluster whose
\* material it returns, if any.
Config(c) ==
  IF source[c].there THEN {c}
  ELSE LET fallback == copy[cachedSecretName(c)]
       IN  IF fallback.there THEN {fallback.key} ELSE {}

-----------------------------------------------------------------------------
(* GC *)

GCList ==
  /\ gc.at = "idle"
  /\ \E n \in Names : copy[n].there
  /\ gc' = [NoPass EXCEPT !.at = "next",
                          !.todo = {<<n, copy[n].of>> : n \in {k \in Names : copy[k].there}}]
  /\ UNCHANGED <<world, copy, worker, faults>>

\* Faulty variant: a Cluster that is not found keeps its copy.
GCClusterKeeps ==
  /\ gc.at = "next" /\ gc.todo # {}
  /\ \E item \in gc.todo : gc' = [gc EXCEPT !.todo = @ \ {item}]
  /\ UNCHANGED <<world, copy, worker, faults>>

\* clusterGone, first half: the Cluster, from the cache.
GCCluster ==
  /\ gc.at = "next" /\ gc.todo # {}
  /\ \E item \in gc.todo :
       gc' = [at |-> IF clusterSeen[item[2]] THEN "next" ELSE "machines",
              todo |-> gc.todo \ {item}, name |-> item[1], c |-> item[2]]
  /\ UNCHANGED <<world, copy, worker, faults>>

\* Faulty variant: Machines are not looked for.
GCMachinesIgnored ==
  /\ gc.at = "machines"
  /\ gc' = [gc EXCEPT !.at = "delete"]
  /\ UNCHANGED <<world, copy, worker, faults>>

\* clusterGone, second half: its qualifying Machines, from the cache.
GCMachines ==
  /\ gc.at = "machines"
  /\ gc' = [gc EXCEPT !.at = IF machinesSeen[gc.c] = "none" THEN "delete" ELSE "next"]
  /\ UNCHANGED <<world, copy, worker, faults>>

\* Delete by name, without a precondition.
GCDelete ==
  /\ gc.at = "delete"
  /\ copy' = [copy EXCEPT ![gc.name] = [NoCopy EXCEPT !.rv = copy[gc.name].rv]]
  /\ gc' = [gc EXCEPT !.at = "next"]
  /\ UNCHANGED <<world, worker, faults>>

\* The pass is over, or an error ends it early; the ticker starts the next.
GCEnds ==
  /\ gc.at # "idle"
  /\ Fault \/ (gc.at = "next" /\ gc.todo = {} /\ UNCHANGED faults)
  /\ gc' = NoPass
  /\ UNCHANGED <<world, copy, worker>>

GC == GCList \/ GCCluster \/ GCMachines \/ GCDelete \/ GCEnds

-----------------------------------------------------------------------------
(* Clusters, Machines, CABPT's secrets, the informers *)

\* CABPT rewrites the source on its reconciles, mostly without changing it.
Rewrite(c) ==
  /\ cluster[c] /\ source[c].there /\ source[c].rv < MaxRewrites
  /\ \E g \in {source[c].gen, source[c].gen + 1} :
       source' = [source EXCEPT ![c].gen = g, ![c].rv = @ + 1]
  /\ UNCHANGED <<cluster, clusterSeen, machines, machinesSeen, copy, worker, gc, reborn, faults>>

MachinesChange(c) ==
  /\ \/ machines[c] = "live" /\ machines' = [machines EXCEPT ![c] = "deleting"]
     \/ machines[c] = "deleting" /\ machines' = [machines EXCEPT ![c] = "none"]
  /\ UNCHANGED <<cluster, clusterSeen, machinesSeen, source, copy, worker, gc, reborn, faults>>

\* A Cluster goes after its Machines, or before when its finalizer is stripped.
ClusterGoes(c) ==
  /\ cluster[c]
  /\ Fault \/ (machines[c] = "none" /\ UNCHANGED faults)
  /\ cluster' = [cluster EXCEPT ![c] = FALSE]
  /\ UNCHANGED <<clusterSeen, machines, machinesSeen, source, copy, worker, gc, reborn>>

SourceCollected(c) ==
  /\ source[c].there /\ machines[c] # "live"
  /\ source' = [source EXCEPT ![c].there = FALSE]
  /\ UNCHANGED <<cluster, clusterSeen, machines, machinesSeen, copy, worker, gc, reborn, faults>>

\* A Cluster of the same name comes back, with new credentials and Machines; the
\* bound is once.
Recreate(c) ==
  /\ Recreates /\ c \notin reborn /\ ~cluster[c] /\ ~source[c].there
  /\ cluster' = [cluster EXCEPT ![c] = TRUE]
  /\ machines' = [machines EXCEPT ![c] = "live"]
  /\ source' = [source EXCEPT ![c] = [there |-> TRUE, gen |-> @.gen + 1, rv |-> @.rv + 1]]
  /\ reborn' = reborn \cup {c}
  /\ UNCHANGED <<clusterSeen, machinesSeen, copy, worker, gc, faults>>

Sync(c) ==
  /\ \/ /\ clusterSeen[c] # cluster[c]
        /\ clusterSeen' = [clusterSeen EXCEPT ![c] = cluster[c]]
        /\ UNCHANGED machinesSeen
     \/ /\ machinesSeen[c] # machines[c]
        /\ machinesSeen' = [machinesSeen EXCEPT ![c] = machines[c]]
        /\ UNCHANGED clusterSeen
  /\ UNCHANGED <<cluster, machines, source, copy, worker, gc, reborn, faults>>

Init ==
  /\ cluster = [c \in Clusters |-> TRUE] /\ clusterSeen = cluster
  /\ machines = [c \in Clusters |-> "live"] /\ machinesSeen = machines
  /\ source = [c \in Clusters |-> [there |-> TRUE, gen |-> 1, rv |-> 1]]
  /\ copy = [n \in Names |-> NoCopy]
  /\ worker = [w \in Workers |-> Idle]
  /\ gc = NoPass
  /\ reborn = {} /\ faults = 0

EnsureStep(w) == EnsureRead(w) \/ EnsureCreate(w) \/ EnsureUpdate(w)

Next ==
  \/ \E w \in Workers :
       EnsureStep(w) \/ EnsureFails(w) \/ \E c \in Clusters : EnsureStart(w, c)
  \/ GC
  \/ \E c \in Clusters :
       \/ Rewrite(c) \/ MachinesChange(c) \/ ClusterGoes(c) \/ SourceCollected(c)
       \/ Recreate(c) \/ Sync(c)

Spec == Init /\ [][Next]_vars

\* Calls return, informers deliver, the ticker ticks, and the resync of the
\* Machine informer reconciles every live Machine again and again.
FairSpec ==
  /\ Spec
  /\ WF_vars(GC)
  /\ \A c \in Clusters : WF_vars(Sync(c))
  /\ \A w \in Workers : WF_vars(EnsureStep(w))
  /\ \A c \in Clusters :
       SF_vars(\E w \in Workers : machinesSeen[c] = "live" /\ EnsureStart(w, c))

-----------------------------------------------------------------------------
(* Properties *)

\* Teardown of a cluster never dials with another cluster's credentials: what
\* Config falls back to is the copy of "each cluster's talosconfig secret"
\* (CredentialCache).
OwnCredentials == \A c \in Clusters : Config(c) \subseteq {c}

\* GC only "deletes cached copies whose Cluster no longer exists and for which
\* no qualifying Machine remains", although it reads two lagging caches and
\* deletes by name; only a cluster that came back may lose a copy it needs.
OnlyStraysCollected ==
  [][\A n \in Names :
       copy[n].there /\ ~copy'[n].there =>
         LET c == copy[n].of
         IN  c \in reborn \/ (~cluster[c] /\ machines[c] = "none")]_vars

\* While a cluster has live Machines its copy ends up with the live material,
\* whatever concurrent refreshes did in between.
CopyCatchesUp ==
  \A c \in Clusters :
    <>[](machines[c] = "live" /\ source[c].there =>
           /\ copy[cachedSecretName(c)].there
           /\ copy[cachedSecretName(c)].gen = source[c].gen)

\* The credentials of a cluster that is gone with its Machines do not stay
\* behind, even when a late Ensure brings the copy back.
StraysCollected ==
  \A c \in Clusters :
    <>[](~cluster[c] /\ machines[c] = "none" => ~copy[cachedSecretName(c)].there)
=============================================================================
