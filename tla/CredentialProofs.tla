-------------------------- MODULE CredentialProofs --------------------------
(***************************************************************************)
(* TLAPS proofs about CredentialCache.tla: any clusters, any number of     *)
(* concurrent reconciles, any rewrites, faults and rounds of collection.   *)
(*                                                                         *)
(* The code joins a cluster's namespace and name with a dash, and both may *)
(* contain dashes, so two clusters may share one copy (OwnCredentials is   *)
(* violated then).  The hypothesis of the theorems, NamespacesAligned, is  *)
(* about namespaces only: all have the same number of parts, as when none  *)
(* contains a dash, or all clusters live in one.                           *)
(***************************************************************************)
EXTENDS CredentialCache, SequenceTheorems, TLAPS

NamespacesAligned == \A c, d \in Clusters : Len(c.ns) = Len(d.ns)

UnambiguousNames ==
  \A c, d \in Clusters : cachedSecretName(c) = cachedSecretName(d) => c = d

SourceType == [there : BOOLEAN, gen : Nat, rv : Nat]
CopyType == [there : BOOLEAN, of : Clusters \cup {NoCluster}, key : Clusters \cup {NoCluster},
             gen : Nat, src : Nat, rv : Nat]
WorkerType == [at : {"idle", "read", "create", "update"}, c : Clusters \cup {NoCluster},
               src : SourceType, old : Nat]
PassType == [at : {"idle", "next", "machines", "delete"}, todo : SUBSET (Names \X Clusters),
             name : Names \cup {<<>>}, c : Clusters \cup {NoCluster}]
MachinesState == {"live", "deleting", "none"}

TypeOK ==
  /\ cluster \in [Clusters -> BOOLEAN] /\ clusterSeen \in [Clusters -> BOOLEAN]
  /\ machines \in [Clusters -> MachinesState] /\ machinesSeen \in [Clusters -> MachinesState]
  /\ source \in [Clusters -> SourceType]
  /\ copy \in [Names -> CopyType]
  /\ worker \in [Workers -> WorkerType]
  /\ gc \in PassType
  /\ faults \in Nat

\* A call in flight is for a cluster; a copy is labelled for, and holds the
\* material of, a cluster that its name is made from.
InFlight(w) == worker[w].at # "idle" => worker[w].c \in Clusters
Labelled(n) ==
  copy[n].there => /\ copy[n].of \in Clusters /\ copy[n].key = copy[n].of
                   /\ n = cachedSecretName(copy[n].of)

\* What a pass of GC carries is a copy's name with the cluster of its labels.
Carries ==
  /\ \A item \in gc.todo : item[1] = cachedSecretName(item[2])
  /\ gc.at \in {"machines", "delete"} =>
       gc.c \in Clusters /\ gc.name = cachedSecretName(gc.c)

CacheInv ==
  /\ TypeOK
  /\ \A w \in Workers : InFlight(w)
  /\ \A n \in Names : Labelled(n)
  /\ Carries

\* Of a cluster that was never created again, what a cache no longer shows is
\* gone, and so is what GC has found gone.
Lags ==
  /\ \A c \in Clusters \ reborn :
       /\ ~clusterSeen[c] => ~cluster[c]
       /\ machinesSeen[c] = "none" => machines[c] = "none"
  /\ gc.at \in {"machines", "delete"} /\ gc.c \notin reborn => ~cluster[gc.c]
  /\ gc.at = "delete" /\ gc.c \notin reborn => machines[gc.c] = "none"

-----------------------------------------------------------------------------

\* The absent objects are objects, and a cluster's copy has a name.
LEMMA Absent ==
  /\ NoCopy \in CopyType /\ ~NoCopy.there
  /\ Idle \in WorkerType /\ Idle.at = "idle"
  /\ NoPass \in PassType /\ NoPass.at = "idle" /\ NoPass.todo = {}
  /\ \A c \in Clusters : cachedSecretName(c) \in Names
  BY DEF NoCopy, CopyType, Idle, NoSource, WorkerType, SourceType, NoPass, PassType, Names

\* What Ensure writes is an object labelled for the cluster of the call, with
\* that cluster's material.
LEMMA CachedFacts ==
  ASSUME NEW do \in WorkerType, do.c \in Clusters, NEW v \in Nat
  PROVE  /\ Cached(do, v) \in CopyType
         /\ Cached(do, v).there /\ Cached(do, v).of = do.c /\ Cached(do, v).key = do.c
  BY DEF Cached, CopyType, WorkerType, SourceType

\* A write of one copy that labels it right keeps the copies right.
LEMMA CopyWritten ==
  ASSUME CacheInv, NEW n \in Names, NEW v \in CopyType,
         copy' = [copy EXCEPT ![n] = v],
         v.there => v.of \in Clusters /\ v.key = v.of /\ n = cachedSecretName(v.of)
  PROVE  copy' \in [Names -> CopyType] /\ \A k \in Names : Labelled(k)'
  <1>1. copy \in [Names -> CopyType]
    BY DEF CacheInv, TypeOK
  <1>2. \A k \in Names : copy'[k] = IF k = n THEN v ELSE copy[k]
    BY <1>1
  <1>3. copy' \in [Names -> CopyType]
    BY <1>1
  <1>4. ASSUME NEW k \in Names PROVE Labelled(k)'
    <2>1. CASE k = n
      BY <1>2, <2>1 DEF Labelled
    <2>2. CASE k # n
      BY <1>2, <2>2 DEF Labelled, CacheInv
    <2> QED BY <2>1, <2>2
  <1> QED BY <1>3, <1>4

\* A worker that moves on within its call, or ends it, keeps the calls right.
LEMMA WorkerMoves ==
  ASSUME CacheInv, NEW w \in Workers, NEW v \in WorkerType,
         worker' = [worker EXCEPT ![w] = v], v.at # "idle" => v.c \in Clusters
  PROVE  worker' \in [Workers -> WorkerType] /\ \A u \in Workers : InFlight(u)'
  <1>1. worker \in [Workers -> WorkerType]
    BY DEF CacheInv, TypeOK
  <1>2. \A u \in Workers : worker'[u] = IF u = w THEN v ELSE worker[u]
    BY <1>1
  <1>3. ASSUME NEW u \in Workers PROVE InFlight(u)'
    BY <1>2 DEF InFlight, CacheInv
  <1> QED BY <1>1, <1>3

\* The steps of Ensure.
LEMMA EnsureKeeps ==
  ASSUME CacheInv, NEW w \in Workers,
         EnsureStep(w) \/ EnsureFails(w) \/ \E c \in Clusters : EnsureStart(w, c)
  PROVE  CacheInv'
  <1> DEFINE do == worker[w]
             n == cachedSecretName(do.c)
  <1>0. /\ do \in WorkerType /\ (do.at # "idle" => do.c \in Clusters)
        /\ copy \in [Names -> CopyType] /\ source \in [Clusters -> SourceType]
        /\ faults \in Nat
    BY DEF CacheInv, TypeOK, InFlight
  <1>1. ASSUME UNCHANGED <<world, copy, gc>>, faults' \in Nat, NEW v \in WorkerType,
               worker' = [worker EXCEPT ![w] = v], v.at # "idle" => v.c \in Clusters
        PROVE  CacheInv'
    <2>1. worker' \in [Workers -> WorkerType] /\ \A u \in Workers : InFlight(u)'
      BY <1>1, WorkerMoves
    <2> QED BY <1>1, <2>1 DEF CacheInv, TypeOK, Labelled, Carries, world
  <1>2. ASSUME NEW c \in Clusters, EnsureStart(w, c) PROVE CacheInv'
    <2>1. [at |-> "read", c |-> c, src |-> source[c], old |-> 0] \in WorkerType
      BY <1>0 DEF WorkerType
    <2> QED BY <1>1, <1>2, <1>0, <2>1 DEF EnsureStart
  <1>3. CASE EnsureFails(w)
    <2>1. UNCHANGED <<world, copy, gc>> /\ worker' = [worker EXCEPT ![w] = Idle]
      BY <1>3 DEF EnsureFails
    <2>2. faults' \in Nat
      BY <1>0, <1>3 DEF EnsureFails, Fault
    <2> QED BY <1>1, <2>1, <2>2, Absent
  <1>4. CASE EnsureRead(w)
    <2>1. do.at = "read" /\ do.c \in Clusters /\ n \in Names
      BY <1>0, <1>4, Absent DEF EnsureRead
    <2>2. copy[n].rv \in Nat /\ copy[n] \in CopyType
      BY <1>0, <2>1 DEF CopyType
    <2>3. /\ [do EXCEPT !.at = "create"] \in WorkerType
          /\ [do EXCEPT !.at = "create"].c = do.c
          /\ [do EXCEPT !.at = "update", !.old = copy[n].rv] \in WorkerType
          /\ [do EXCEPT !.at = "update", !.old = copy[n].rv].c = do.c
      BY <1>0, <2>2 DEF WorkerType
    <2>4. \E v \in {[do EXCEPT !.at = "create"], Idle,
                    [do EXCEPT !.at = "update", !.old = copy[n].rv]} :
            worker' = [worker EXCEPT ![w] = v]
      BY <1>4 DEF EnsureRead
    <2>5. UNCHANGED <<world, copy, gc>> /\ faults' \in Nat
      BY <1>0, <1>4 DEF EnsureRead
    <2> QED BY <1>1, <2>1, <2>3, <2>4, <2>5, Absent
  <1>5. CASE EnsureCreate(w) \/ EnsureUpdate(w)
    <2>1. do.at \in {"create", "update"} /\ do.c \in Clusters /\ n \in Names
      BY <1>0, <1>5, Absent DEF EnsureCreate, EnsureUpdate
    <2>2. copy[n].rv + 1 \in Nat
      BY <1>0, <2>1 DEF CopyType
    <2>3. /\ worker' = [worker EXCEPT ![w] = Idle] /\ UNCHANGED <<world, gc, faults>>
          /\ copy' = copy \/ copy' = [copy EXCEPT ![n] = Cached(do, copy[n].rv + 1)]
      BY <1>5 DEF EnsureCreate, EnsureUpdate
    <2>4. worker' \in [Workers -> WorkerType] /\ \A u \in Workers : InFlight(u)'
      BY <2>3, WorkerMoves, Absent
    <2>5. copy' \in [Names -> CopyType] /\ \A k \in Names : Labelled(k)'
      <3>1. CASE copy' = copy
        BY <3>1 DEF CacheInv, TypeOK, Labelled
      <3>2. CASE copy' = [copy EXCEPT ![n] = Cached(do, copy[n].rv + 1)]
        BY <1>0, <2>1, <2>2, <3>2, CachedFacts, CopyWritten
      <3> QED BY <2>3, <3>1, <3>2
    <2> QED BY <2>3, <2>4, <2>5 DEF CacheInv, TypeOK, Carries, world
  <1> QED BY <1>2, <1>3, <1>4, <1>5 DEF EnsureStep

\* The steps of GC.
LEMMA GCKeeps ==
  ASSUME CacheInv, GC
  PROVE  CacheInv'
  <1>0. gc \in PassType /\ copy \in [Names -> CopyType] /\ faults \in Nat
    BY DEF CacheInv, TypeOK
  <1>1. ASSUME UNCHANGED <<world, copy, worker>>, faults' \in Nat, gc' \in PassType, Carries'
        PROVE  CacheInv'
    BY <1>1 DEF CacheInv, TypeOK, InFlight, Labelled, world
  <1>2. CASE GCList
    <2> DEFINE items == {<<n, copy[n].of>> : n \in {k \in Names : copy[k].there}}
    <2>1. \A i \in items : i \in Names \X Clusters /\ i[1] = cachedSecretName(i[2])
      BY DEF CacheInv, Labelled
    <2>2. gc' = [NoPass EXCEPT !.at = "next", !.todo = items]
      BY <1>2 DEF GCList
    <2> HIDE DEF items
    <2>3. gc' \in PassType /\ gc'.todo = items /\ gc'.at = "next"
      BY <2>1, <2>2 DEF NoPass, PassType
    <2>4. Carries'
      BY <2>1, <2>3 DEF Carries
    <2> QED BY <1>0, <1>1, <1>2, <2>3, <2>4 DEF GCList
  <1>3. CASE GCCluster
    <2>1. PICK item \in gc.todo :
            gc' = [at |-> IF clusterSeen[item[2]] THEN "next" ELSE "machines",
                   todo |-> gc.todo \ {item}, name |-> item[1], c |-> item[2]]
      BY <1>3 DEF GCCluster
    <2>2. item[1] \in Names /\ item[2] \in Clusters /\ item[1] = cachedSecretName(item[2])
      BY <1>0, <2>1 DEF PassType, CacheInv, Carries
    <2>3. gc' \in PassType
      BY <1>0, <2>1, <2>2 DEF PassType
    <2>4. Carries'
      BY <2>1, <2>2 DEF Carries, CacheInv
    <2> QED BY <1>0, <1>1, <1>3, <2>3, <2>4 DEF GCCluster
  <1>4. CASE GCMachines
    <2>1. gc' \in PassType /\ gc'.todo = gc.todo /\ gc'.name = gc.name /\ gc'.c = gc.c
      BY <1>0, <1>4 DEF GCMachines, PassType
    <2>2. Carries'
      BY <1>4, <2>1 DEF GCMachines, Carries, CacheInv
    <2> QED BY <1>0, <1>1, <1>4, <2>1, <2>2 DEF GCMachines
  <1>5. CASE GCDelete
    <2>1. gc.name \in Names
      BY <1>5, Absent DEF GCDelete, CacheInv, Carries
    <2> DEFINE v == [NoCopy EXCEPT !.rv = copy[gc.name].rv]
    <2>2. v \in CopyType /\ ~v.there
      BY <1>0, <2>1 DEF NoCopy, CopyType
    <2>3. copy' = [copy EXCEPT ![gc.name] = v]
      BY <1>5 DEF GCDelete
    <2> HIDE DEF v
    <2>4. copy' \in [Names -> CopyType] /\ \A k \in Names : Labelled(k)'
      BY <2>1, <2>2, <2>3, CopyWritten
    <2>5. gc' \in PassType /\ gc'.todo = gc.todo /\ gc'.at = "next"
      BY <1>0, <1>5 DEF GCDelete, PassType
    <2>6. Carries'
      BY <2>5 DEF Carries, CacheInv
    <2> QED BY <1>5, <2>4, <2>5, <2>6 DEF GCDelete, CacheInv, TypeOK, InFlight, world
  <1>6. CASE GCEnds
    <2>1. gc' = NoPass /\ UNCHANGED <<world, copy, worker>> /\ faults' \in Nat
      BY <1>0, <1>6 DEF GCEnds, Fault
    <2>2. Carries'
      BY <2>1, Absent DEF Carries
    <2> QED BY <1>1, <2>1, <2>2, Absent
  <1> QED BY <1>2, <1>3, <1>4, <1>5, <1>6 DEF GC

\* The steps of everyone else change no copy and no call.
LEMMA WorldKeeps ==
  ASSUME CacheInv, NEW c \in Clusters,
         \/ Rewrite(c) \/ MachinesChange(c) \/ ClusterGoes(c) \/ SourceCollected(c)
         \/ Recreate(c) \/ Sync(c)
  PROVE  CacheInv'
  <1>0. TypeOK
    BY DEF CacheInv
  <1>1. UNCHANGED <<copy, worker, gc>> /\ faults' \in Nat
    BY <1>0 DEF TypeOK, Rewrite, MachinesChange, ClusterGoes, SourceCollected, Recreate, Sync,
                Fault
  <1>2. /\ cluster' \in [Clusters -> BOOLEAN] /\ clusterSeen' \in [Clusters -> BOOLEAN]
        /\ machines' \in [Clusters -> MachinesState]
        /\ machinesSeen' \in [Clusters -> MachinesState]
    BY <1>0 DEF TypeOK, MachinesState, Rewrite, MachinesChange, ClusterGoes, SourceCollected,
                Recreate, Sync
  <1>3. source' \in [Clusters -> SourceType]
    <2>1. source[c] \in SourceType /\ source[c].gen \in Nat /\ source[c].rv \in Nat
      BY <1>0 DEF TypeOK, SourceType
    <2>2. CASE Rewrite(c)
      BY <1>0, <2>1, <2>2 DEF TypeOK, SourceType, Rewrite
    <2>3. CASE SourceCollected(c)
      <3>1. [source[c] EXCEPT !.there = FALSE] \in SourceType
        BY <2>1 DEF SourceType
      <3>2. source' = [source EXCEPT ![c] = [source[c] EXCEPT !.there = FALSE]]
        BY <2>3 DEF SourceCollected
      <3> QED BY <1>0, <3>1, <3>2 DEF TypeOK
    <2>4. CASE Recreate(c)
      <3> DEFINE new == [there |-> TRUE, gen |-> source[c].gen + 1, rv |-> source[c].rv + 1]
      <3>1. new \in SourceType
        BY <2>1 DEF SourceType
      <3>2. source' = [source EXCEPT ![c] = new]
        BY <2>4 DEF Recreate
      <3> QED BY <1>0, <3>1, <3>2 DEF TypeOK
    <2>5. CASE MachinesChange(c) \/ ClusterGoes(c) \/ Sync(c)
      BY <1>0, <2>5 DEF TypeOK, MachinesChange, ClusterGoes, Sync
    <2> QED BY <2>2, <2>3, <2>4, <2>5
  <1> QED BY <1>1, <1>2, <1>3 DEF CacheInv, TypeOK, InFlight, Labelled, Carries

\* The invariant holds in every reachable state.
LEMMA CacheInvariant == Spec => []CacheInv
  <1>1. Init => CacheInv
    <2> SUFFICES ASSUME Init PROVE CacheInv
      OBVIOUS
    <2>1. TypeOK
      BY Absent DEF Init, TypeOK, MachinesState, SourceType
    <2>2. (\A w \in Workers : InFlight(w)) /\ (\A n \in Names : Labelled(n)) /\ Carries
      BY Absent DEF Init, InFlight, Labelled, Carries
    <2> QED BY <2>1, <2>2 DEF CacheInv
  <1>2. CacheInv /\ [Next]_vars => CacheInv'
    <2> SUFFICES ASSUME CacheInv, [Next]_vars PROVE CacheInv'
      OBVIOUS
    <2>1. CASE Next
      BY <2>1, EnsureKeeps, GCKeeps, WorldKeeps DEF Next
    <2>2. CASE UNCHANGED vars
      BY <2>2 DEF vars, CacheInv, TypeOK, InFlight, Labelled, Carries
    <2> QED BY <2>1, <2>2
  <1> QED BY <1>1, <1>2, PTL DEF Spec

\* Where the second of two joined sequences is.
LEMMA ConcatSecond ==
  ASSUME NEW s \in Seq(STRING), NEW t \in Seq(STRING), NEW i \in 1..Len(t)
  PROVE  (s \o t)[Len(s) + i] = t[i]
  <1>1. Len(s) \in Nat /\ Len(t) \in Nat
    OBVIOUS
  <1> DEFINE j == Len(s) + i
  <1>2. j \in 1..(Len(s) + Len(t)) /\ ~(j <= Len(s)) /\ j - Len(s) = i
    BY <1>1
  <1>3. \A n \in 1..(Len(s) + Len(t)) :
          (s \o t)[n] = IF n <= Len(s) THEN s[n] ELSE t[n - Len(s)]
    BY ConcatProperties
  <1> HIDE DEF j
  <1>4. (s \o t)[j] = t[j - Len(s)]
    BY <1>2, <1>3
  <1> QED BY <1>2, <1>4 DEF j

\* Where namespaces are aligned, no two clusters share the name of a copy,
\* whatever their own names.
LEMMA AlignedIsUnambiguous ==
  ASSUME NamespacesAligned
  PROVE  UnambiguousNames
  <1> SUFFICES ASSUME NEW c \in Clusters, NEW d \in Clusters,
                      c.ns \o c.name = d.ns \o d.name
               PROVE  c = d
    BY DEF UnambiguousNames, cachedSecretName
  <1>1. /\ c \in [ns : Seq(STRING), name : Seq(STRING)]
        /\ d \in [ns : Seq(STRING), name : Seq(STRING)]
    BY CredentialAssumption
  <1>2. Len(c.ns) = Len(d.ns) /\ Len(c.name) = Len(d.name)
    BY <1>1, ConcatProperties DEF NamespacesAligned
  <1>3. \A i \in 1..Len(c.ns) : c.ns[i] = d.ns[i]
    BY <1>1, <1>2, ConcatProperties
  <1>4. c.ns = d.ns
    BY <1>1, <1>2, <1>3, SeqEqual
  <1>5. c.name = d.name
    <2>1. ASSUME NEW i \in 1..Len(c.name) PROVE c.name[i] = d.name[i]
      <3>1. (c.ns \o c.name)[Len(c.ns) + i] = c.name[i]
        BY <1>1, ConcatSecond
      <3>2. (d.ns \o d.name)[Len(d.ns) + i] = d.name[i]
        BY <1>1, <1>2, ConcatSecond
      <3> QED BY <1>2, <3>1, <3>2
    <2> QED BY <1>1, <1>2, <2>1, SeqEqual
  <1> QED BY <1>1, <1>4, <1>5

\* Teardown of a cluster uses that cluster's credentials only, whatever
\* refreshes, rewrites, collections, faults and recreations interleave and
\* whatever dashes the clusters' names contain, as long as their namespaces are
\* aligned (cachedSecretName, Ensure, Config).
THEOREM CredentialsAreOwn ==
  ASSUME NamespacesAligned
  PROVE  Spec => []OwnCredentials
  <1>1. CacheInv => OwnCredentials
    BY Absent, AlignedIsUnambiguous
    DEF CacheInv, OwnCredentials, Labelled, Config, UnambiguousNames
  <1> QED BY <1>1, CacheInvariant, PTL

-----------------------------------------------------------------------------

\* What is gone only comes back by a recreation, on the server or seen by GC.
LEMMA LagsKept ==
  ASSUME CacheInv, Lags, [Next]_vars
  PROVE  Lags'
  <1>0. TypeOK
    BY DEF CacheInv
  <1>1. ASSUME NEW c \in Clusters,
               Rewrite(c) \/ MachinesChange(c) \/ ClusterGoes(c) \/ SourceCollected(c) \/ Sync(c)
        PROVE  Lags'
    <2>1. gc' = gc /\ reborn' = reborn /\ (gc.at \in {"machines", "delete"} => gc.c \in Clusters)
      BY <1>1 DEF CacheInv, Carries, Rewrite, MachinesChange, ClusterGoes, SourceCollected, Sync
    <2>2. \A d \in Clusters : /\ cluster'[d] => cluster[d]
                              /\ machines[d] = "none" => machines'[d] = "none"
      BY <1>0, <1>1 DEF TypeOK, Rewrite, MachinesChange, ClusterGoes, SourceCollected, Sync
    <2>3. \A d \in Clusters : /\ clusterSeen'[d] = clusterSeen[d] \/ clusterSeen'[d] = cluster'[d]
                              /\ \/ machinesSeen'[d] = machinesSeen[d]
                                 \/ machinesSeen'[d] = machines'[d]
      BY <1>0, <1>1 DEF TypeOK, Rewrite, MachinesChange, ClusterGoes, SourceCollected, Sync
    <2> QED BY <2>1, <2>2, <2>3 DEF Lags
  <1>2. ASSUME UNCHANGED <<world, gc>> PROVE Lags'
    BY <1>2 DEF Lags, world
  <1>6. ASSUME NEW c \in Clusters, Recreate(c) PROVE Lags'
    <2>1. /\ reborn' = reborn \cup {c} /\ gc' = gc
          /\ UNCHANGED <<clusterSeen, machinesSeen>>
          /\ \A d \in Clusters \ {c} : cluster'[d] = cluster[d] /\ machines'[d] = machines[d]
          /\ gc.at \in {"machines", "delete"} => gc.c \in Clusters
      BY <1>0, <1>6 DEF TypeOK, Recreate, CacheInv, Carries
    <2> QED BY <2>1 DEF Lags
  <1>3. CASE GC
    <2>1. UNCHANGED world /\ gc \in PassType
      BY <1>0, <1>3 DEF TypeOK, GC, GCList, GCCluster, GCMachines, GCDelete, GCEnds
    <2>2. CASE GCCluster
      <3>1. PICK item \in gc.todo :
              gc' = [at |-> IF clusterSeen[item[2]] THEN "next" ELSE "machines",
                     todo |-> gc.todo \ {item}, name |-> item[1], c |-> item[2]]
        BY <2>2 DEF GCCluster
      <3>2. item[2] \in Clusters
        BY <2>1, <3>1 DEF PassType
      <3> QED BY <2>1, <3>1, <3>2 DEF Lags, world
    <2>3. CASE GCMachines
      <3>1. /\ gc.at = "machines" /\ gc.c \in Clusters /\ gc'.c = gc.c
            /\ gc'.at = IF machinesSeen[gc.c] = "none" THEN "delete" ELSE "next"
        BY <2>1, <2>3 DEF GCMachines, PassType, CacheInv, Carries
      <3> QED BY <2>1, <3>1 DEF Lags, world
    <2>4. CASE GCList \/ GCDelete \/ GCEnds
      <3>1. gc'.at \in {"idle", "next"}
        BY <2>1, <2>4, Absent DEF GCList, GCDelete, GCEnds, PassType
      <3> QED BY <2>1, <3>1 DEF Lags, world
    <2> QED BY <1>3, <2>2, <2>3, <2>4 DEF GC
  <1>4. ASSUME NEW w \in Workers,
               EnsureStep(w) \/ EnsureFails(w) \/ \E c \in Clusters : EnsureStart(w, c)
        PROVE  UNCHANGED <<world, gc>>
    BY <1>4 DEF EnsureStep, EnsureFails, EnsureStart, EnsureRead, EnsureCreate, EnsureUpdate
  <1>5. CASE UNCHANGED vars
    BY <1>2, <1>5 DEF vars, world
  <1> QED BY <1>1, <1>2, <1>3, <1>4, <1>5, <1>6 DEF Next

\* A copy that disappears was deleted by GC, by its name.
LEMMA DeletedByGC ==
  ASSUME CacheInv, [Next]_vars, NEW n \in Names, copy[n].there, ~copy'[n].there
  PROVE  gc.at = "delete" /\ n = gc.name
  <1>0. copy \in [Names -> CopyType] /\ worker \in [Workers -> WorkerType]
    BY DEF CacheInv, TypeOK
  <1>1. ASSUME NEW w \in Workers, EnsureCreate(w) \/ EnsureUpdate(w) PROVE FALSE
    <2>1. \E v : copy' = copy \/ copy' = [copy EXCEPT ![cachedSecretName(worker[w].c)] = Cached(worker[w], v)]
      BY <1>1 DEF EnsureCreate, EnsureUpdate
    <2> QED BY <1>0, <2>1 DEF Cached
  <1>2. CASE GCDelete
    BY <1>0, <1>2 DEF GCDelete
  <1>3. copy' # copy
    OBVIOUS
  <1> QED
    BY <1>1, <1>2, <1>3
    DEF Next, GC, GCList, GCCluster, GCMachines, GCEnds, EnsureStep, EnsureFails, EnsureStart,
        EnsureRead, Rewrite, MachinesChange, ClusterGoes, SourceCollected, Recreate, Sync, vars

\* GC deletes no copy whose Cluster or Machines are left, although it decides
\* from lagging caches, in two reads, and deletes by name without a
\* precondition, while reconciles keep writing the copies.  Only a cluster that
\* was created again may be met by a decision about its predecessor.
THEOREM CollectsOnlyStrays ==
  ASSUME NamespacesAligned
  PROVE  Spec => OnlyStraysCollected
  <1>1. Init => Lags
    BY Absent DEF Init, Lags
  <1>2. CacheInv /\ Lags /\ [Next]_vars => Lags'
    BY LagsKept
  <1>3. CacheInv /\ Lags /\ [Next]_vars =>
          [\A n \in Names : copy[n].there /\ ~copy'[n].there =>
             LET c == copy[n].of
             IN  c \in reborn \/ (~cluster[c] /\ machines[c] = "none")]_vars
    <2> SUFFICES ASSUME CacheInv, Lags, [Next]_vars,
                        NEW n \in Names, copy[n].there, ~copy'[n].there,
                        copy[n].of \notin reborn
                 PROVE  ~cluster[copy[n].of] /\ machines[copy[n].of] = "none"
      OBVIOUS
    <2>1. gc.at = "delete" /\ n = gc.name
      BY DeletedByGC
    <2>2. copy[n].of = gc.c
      BY <2>1, AlignedIsUnambiguous DEF CacheInv, Labelled, Carries, UnambiguousNames
    <2> QED BY <2>1, <2>2 DEF Lags
  <1> QED BY <1>1, <1>2, <1>3, CacheInvariant, PTL DEF Spec, OnlyStraysCollected
=============================================================================
