# Verification of the Tinkerbell runtime extensions

TLA+ models, TLC runs and TLAPS proofs for the three controllers of
`cluster-api-runtime-extensions-tinkerbell`: the Talos machine teardown
controller, the Tinkerbell hardware janitor and BMC discovery. `PROJECT.json`
maps every definition to the lines it models, and lists components, runs,
mutants, hazards, findings and theorems.

## The system

| Component | State it keeps | Operations | Correct when |
|---|---|---|---|
| **Teardown reconciler** `internal/teardown/{reconciler,qualify,setup,etcd}.go` | none of its own: annotations on each Machine (hook, observed-at, etcd outcome, reset outcome), a workqueue, informer caches | `Reconcile`: stamp the hook; at the pre-terminate wait remove the node from etcd, wipe it, release the hook | no hooked Machine loses its infrastructure before both phases are concluded; no node is wiped early; etcd keeps a member; every deletion ends |
| **Credential cache** `internal/teardown/credentials.go` | copies of `<cluster>-talosconfig` in the controller's namespace | `Ensure`, `Config`, `GC` | a copy belongs to one cluster, follows the live secret, and is deleted after the cluster and its Machines only |
| **Address resolution, Talos client, teardown metrics** | none | three address sources in order; Talos RPCs | by what the reconciler needs of them |
| **Hardware janitor** `internal/janitor` | none of its own: Hardware objects, a filtered informer cache, the `half_released` gauge | `Reconcile`: classify, scrub, guarded `Update` | scrubs Released Hardware and nothing else; takes no concurrent change back; every release is scrubbed; the gauge is right |
| **Discovery worker** `internal/controller/worker.go` | map of known endpoints, workqueue | `Start` (events, rescans), `processQueue`, `handle`, `credentialCandidates` | newest address wins; failures are retried; a known BMC is refreshed |
| **mDNS browser** `internal/mdns/browser.go` | none between cycles | browse windows that feed one bounded channel | no cycle is stuck; a device that stays up is seen |
| **Inventory collector** `internal/inventory` | none | BMC queries, default credentials | a partial inventory is reported as one |
| **Resource syncer** `internal/sync` | none of its own: Secret, Machine and Hardware objects | adoption guard, three server-side applies, netboot carry, naming | never takes over Hardware it did not create; no field of another owner is lost; one name per device |
| **Commands** `cmd/...`, **logging**, **Helm charts**, **CRDs** | flags | wiring | not modelled (see the end) |

How they interact. The controllers share no memory. They meet in Kubernetes
objects: the teardown controller and the CAPI machine controller meet in the
Machine (hook annotation against the `Deleting` condition), janitor, CAPT,
the workflow controller and discovery in the Hardware. Inside the discovery
controller the browser hands endpoints to the worker over a channel, and the
worker calls collector and syncer. Every read a controller makes of Machines,
Clusters and Hardware comes from an informer cache that lags; the teardown
controller reads Secrets from the server, discovery from its cache.

What is hard. Decisions rest on stale copies; a Talos call or a patch takes
effect while its answer is lost; a process dies between an effect and the
annotation that records it; several Machines of one control plane are torn down
at once on four workers; deadlines race late answers; the cluster's own
credentials are collected while nodes still need them; a sync of three objects
stops half way, or works on half an inventory; a BMC changes its address, or
loses it to another BMC, while it is being verified. The `hazards` of
`PROJECT.json` put each of these at its line.

## Modules

| Module | Models |
|---|---|
| `Teardown` | the teardown controller: every patch, every Talos call and every cache read behind a decision is one atomic step |
| `TeardownSystem` | `Teardown` composed with the machine controller, the Cluster and its secret, CACPPT scale-down, other hook owners, nodes and etcd; the properties |
| `DeletionGate` | abstract specification: what the teardown promises of a hooked Machine |
| `TeardownGate` | the refinement mapping from `TeardownSystem` to `DeletionGate` |
| `TeardownProofs`, `TeardownSafety`, `ConclusionProofs`, `SerialProofs`, `GateProofs` | type correctness; the safety theorems; truth of the records; serialized etcd removals; the refinement |
| `CredentialCache` | `Ensure` of concurrent workers, `Config`, the `GC` passes, and the life of clusters, Machines and source secrets |
| `CredentialProofs` | the safety theorems of the credential cache |
| `Janitor` | the janitor against CAPT, workflows, operators and discovery |
| `JanitorProofs` | the safety theorems of the janitor |
| `Discovery` | browser, worker, collector and the credentials, with `Sync` as one action |
| `Syncer` | `Sync` opened up: every read and write of the three upserts, against everybody else who writes those objects |
| `SyncerProofs` | the safety theorems of the syncer |
| `MC*` | instances for TLC |

### Teardown and TeardownSystem

State. `api` holds Machines as the server stores them, `cache` what the informer
shows; an annotation is a field. For each Machine `pc`, `view`, `out` and `peer`
are the locals of a running `Reconcile`: where it is, the object it works on
(read once from the cache and patched along), the outcome to stamp, the peer
dialed. `queue` is the workqueue, `node`, `wiped` and `members` are the machines
and etcd, `mc` is the machine controller's place in its own deletion, `armed`
and `acked` are ghosts (hooked at the time of deletion; reset seen to succeed).

| Step | Code |
|---|---|
| `Reconcile` | `Reconcile` up to the first patch, with the tests of `reconcileDeleting` |
| `EnsureHook`, `EnsureCredentials` | `ensureHook` (sweeps pre-rename keys), `ensureCredentials` |
| `EnsureObservedAt` | the gates of `reconcileDeleting`, `ensureObservedAt` |
| `EtcdPhase` | `clusterDeleting`, `etcdPhase`, `serializeControlPlane` |
| `FindHealthyPeer`, `LeaveViaVictim`, `RemoveViaPeer`, `StampEtcd` | `tryEtcdRemoval`, `findHealthyPeer`, `leaveViaVictim`, `recordEtcdOutcome` |
| `TryReset`, `StampReset`, `Release` | `resetPhase`, `tryReset`, `release` |
| `CacheSync`, `ClusterSync`, `CredentialGC`, `Tick`, `Crash` | watches and predicates, GC loop, clock, restart |

`PatchAnnotations` gives each patch its four outcomes: applied; applied with the
answer lost; failed; object gone. The patches are `MergeFrom` patches without a
resourceVersion, so they only carry the keys the reconcile changed and meet
whatever is on the server. A Talos call that takes effect may still fail for its
caller. The age of `pre-terminate-observed-at` is kept instead of its time: the
code only uses the difference to now.

What is not in the repository (the machine controller, CAPT, CACPPT, CABPT, API
server) is modelled from what the code and `docs/talos-machine-teardown.md` rely
on, and marked external in the map. Other hook owners put their key on a Machine
at any time before the pre-terminate wait, a deletion that has begun included
(`ForeignAdds`), and take it off during the wait (`ForeignRelease`).

Two reads are coarser than in the code. `CacheSync` brings the cached Machines to
the server's present state; a real informer can also stop at a state in between,
or show one Machine newer than another. `EtcdPhase` reads the Cluster and the
list of its Machines from their caches in one step.

### CredentialCache

A namespace or a name is the sequence of its dash-separated parts, so that
`cachedSecretName` really is a join that can be ambiguous. A secret's material is
its cluster and generation. `Ensure` is: read the source, read the copy and
decide, then create or update (guarded by the resourceVersion of the copy that
was read). `reborn` is a ghost: the clusters that came back under their name. `GC` is: list, then per copy the Cluster, the Machines (each from its
own lagging cache), and an unconditional delete.

### Janitor

`api` and `cache` are Hardware records with a resourceVersion; `Selected` is the
server-side label selector, which turns a claim into a deletion in the cache.
`Reconcile` classifies, keeps the gauge and computes the object to write;
`Update` is the guarded write, which conflicts, fails or loses its answer. There
is one worker. `disc` stands for the fields of other writers and makes a lost
update visible.

### DeletionGate and TeardownGate

`DeletionGate` knows five phases of a Machine: `free`, `joined` (hooked when
deleted, node in etcd), `left`, `cleared` (reset concluded) and `off`
(infrastructure deleted), each step taken once and in this order, and wipes of
nodes that are not `joined`. `TeardownGate` reads the phase off the annotations
on the server and the machine controller's place; `ImplementsGate` is the
abstract specification under that mapping. Nothing of caches, replays, peers,
credentials or deadlines is visible in it.

### Syncer

`api`, `cache` and `fresh` are the Secret, the Machine and the Hardware of one
resource name, the informer's copies, and which copies are current; `sync` is
the running `Sync` (next call, observation it works from, object it read). An
observation is the primary MAC the inventory yields, or none.

| Step | Code |
|---|---|
| `StartSync` | the worker takes the key; the collection yields the device, with `Partial` perhaps without its NICs (`enrichNICs`) |
| `Get` | the cached read of `applyManaged` and the adoption guard: create, skip, or apply with the version that was read |
| `Create` | the POST: refused when the object exists |
| `Apply` | netboot carry and the forced apply with its resourceVersion precondition |
| `Fail`, `Requeue`, `Crash` | error requeue, ticker or browser, restart |

The interfaces list of a Hardware is SSA-atomic. `owners` holds its field
managers, so that `Applied` says what an apply without the list does to it: it
goes when discovery is its only manager and stays otherwise. Creates and applies
are different managers to the API server (Update against Apply operations), which
is why a list that was only ever created survives the first partial apply.

A Hardware has one interface with netboot values. Interfaces that an operator
adds, and an interface whose netboot block somebody else left out (the third test
of `netbootFor`), are not in the model.

### Discovery

`addr` and `quiet` are the network (who has which address, who is not heard),
`events` the channel, `known` and `queue` the worker's map and workqueue,
`handle` the running `handle` with its copy of the endpoint, `res` what the auth
Secret, the Machine and the Hardware under a resource name say. An endpoint is a
BMC and a service type; all services of a BMC write the same resources
(`ResourceName`).

| Step | Code |
|---|---|
| `OpenWindow`, `Forward`, `CloseWindow` | `browseOnce`, `forward`: a send blocks on a full channel and is given up when the window closes |
| `Receive`, `Resync` | the loop of `Start` |
| `HandleStart` | the endpoint is copied, the candidates are read |
| `Collect` | `handle`: whoever answers at the copied address and accepts a candidate |
| `Sync` | stops after zero to three of its writes |

An entry carries the address the BMC has when it is sent: an entry that is
blocked on the full channel does not get older while it waits, one that is in
the channel does. The credentials Secret is read without cache lag (a read that
fails leaves the defaults, which is also what a copy from before its creation
gives).

## Runs

Teardown, on `MCTeardown` (passing):

| Run | Instance | Shows |
|---|---|---|
| `teardown_faults` | 2 control-plane Machines, one torn down, with an old hook key and another hook owner; CACPPT may have taken it out of etcd; 2 faults | `TypeOK`, `TeardownBeforePowerOff`, `NeverActsEarly`, `ConclusionsTrue`, `ArmedNeverReparked`, `HookOutlivesTeardown`, `ImplementsGate` |
| `teardown_serial` | 3 control-plane Machines, two deleted after they were hooked, no fault | `OneEtcdOpAtATime` |
| `teardown_live` | one control-plane Machine, hooked or not when it is deleted, its node perhaps still booting, another hook owner coming or not; it or its whole cluster is deleted, the talosconfig secret may go; 1 fault | `EveryDeletionEnds` (deadlines fail open), `TeardownBeforePowerOff`, `ConclusionsTrue` |
| `teardown_hold` | both control-plane Machines of a cluster deleted in one second, one with an old hook key, 2 workers | `LastMemberKept`: both may look for a peer at once and never choose each other; `EveryDeletionEnds`: holds do not deadlock |

Violated (each is a finding in `PROJECT.json`, with the quoted line):

| Run | The text | The behaviour |
|---|---|---|
| `teardown_late_hook` | etcd work is serialized per cluster | an older-deleting Machine hooked late is held by nobody, and two removals overlap |
| `syncer_partial` | discovery never changes netboot after create | after a collection with other NICs the apply is the list's only manager; the next one finds none, its apply drops the list with the netboot values, and a later sync authors the defaults |
| `credentials_ambiguous` | a copy of each cluster's secret | `prod-eu/talos` and `prod/eu-talos` share a copy: one is torn down with the other's credentials |
| `discovery_lease` | last-seen simply stops advancing when a BMC disappears | the endpoint stays known; whoever answers at its old address with known credentials is written under its name |

The first does not let a node be powered off before its conclusions, or etcd
lose its last member: the theorems below hold for that instance too. The second
is the case `NetbootNeverChanges` excludes by its assumption, the third what
`CredentialsAreOwn` needs its hypothesis for.

Credentials, on `MCCredentialCache`:

| Run | Shows |
|---|---|
| `credentials_recover` | `OnlyStraysCollected`, `CopyCatchesUp`, `StraysCollected`: two workers whose refreshes race, the collector on two lagging caches, a failed call or a stripped finalizer, and a cluster that comes back under its name |

Janitor, on `MCJanitor`:

| Run | Shows |
|---|---|
| `janitor` | `NeverClaimedUntouched`, `ScrubMeetsRelease`, `ReleasedIsScrubbed`, `GaugeSettles`: an ordinary and a bootstrap Hardware, four foreign writes, one fault |

Discovery, on `MCSyncer` and `MCDiscovery`:

| Run | Shows |
|---|---|
| `syncer` | `TypeOK`, `ForeignUntouched`, `NetbootKept`, `RefsResolve`, `SyncCompletes`: two foreign writes and one fault anywhere in a sync, complete inventories |
| `discovery` | `AddressLearned`, `QueuedIsSynced`, `HeardIsSynced`: a BMC with two services, another that may take over its address and give it back, late credentials, a channel that is full after one event; four changes, failed calls or restarts together |

### Where the instances are drawn tight on purpose

Some properties hold only on the instances above, and the boundary is part of
what the model says about the code:

- `OneEtcdOpAtATime` needs `DeleteNeedsHook`, distinct deletion seconds, nodes
  that have booted and no fault. With `SameSecond` the tie is broken by name, so
  a Machine that is deleted later in the same second may overtake one at work.
  After a fault (three Machines and `MaxFaults = 1` are enough), a member may be
  recorded as orphaned while it still is one, its successor starts, and a
  reconcile that works from the copy before the record tries the removal again.
  What is left with faults is `OpenPhasesSerialized`: one of the two is always
  such a repetition.
- `OwnCredentials` is false in general (`credentials_ambiguous`), because
  `cachedSecretName` joins two names with a dash that both may contain. It holds
  when all namespaces have the same number of dash-separated parts
  (`NamespacesAligned`, the hypothesis of its theorem), whatever the names.
- `OnlyStraysCollected` lets a cluster that came back lose its new copy: the
  collector checks and then deletes by name. The next reconcile makes the copy
  again (`CopyCatchesUp`, in the same run).
- A copy may go back to older material for a while: `Ensure` reads the source
  before the copy whose version guards the update. `CopyCatchesUp` is the
  property that remains.
- A late stamp is decided on a cached condition and patched without a
  precondition, so it can land after the infrastructure deletion began although
  the comment at `reconciler.go:124` says it is gated against that
  (`NeverParkedMidTeardown`, as an invariant of `MCTeardown_faults.cfg`). It only
  happens to Machines that were not hooked when deleted: `ArmedNeverReparked` is
  proved for the others.
- The acknowledgement of a reset and its stamp are two steps. A crash between
  them makes the replay call the halted node again, although the comment at
  `reconciler.go:541` says it never does (`NeverReReset`, as an invariant of
  `MCTeardown_faults.cfg`). The call fails until the deadline and the outcome is
  recorded as skipped, which `ConclusionsTrue` covers.
- `EveryDeletionEnds` needs drains that end. A Machine at the pre-terminate wait
  is held behind an older one whose drain never ends, without a deadline,
  although `docs/talos-machine-teardown.md:403` promises bounded convergence
  (`ConvergesOncePreTerminate` under `ScheduledSpec`, with the constants of
  `MCTeardown_hold.cfg`).
- `LastMemberKept` compares with members that no longer answer too: it says what
  the controller takes out of etcd, not that quorum is kept when nodes die.
- `QueuedIsSynced` needs nothing of the ticker, `HeardIsSynced` does, as its
  hypothesis `Ticking`. A BMC may lose its address to another one while its key
  is queued, be written over with that one's data, get the address back and stay
  quiet: nothing is queued then and only the ticker repairs the resources. That
  takes four mishaps. With three `HeardIsSynced` would hold without `Ticking`,
  with the four of the run it does not.
- Both are about a BMC that was heard at its current address and whose other
  known addresses lead to nobody. When another BMC that accepts a candidate
  answers at an older address of a second service, the two services write over
  each other for as long as both are known.
- A hooked Machine may be deleted, and its cluster's secret collected, before
  `ensureCredentials` made the copy. Its reset is then skipped at the deadline
  (`EveryDeletionEnds`, `TeardownBeforePowerOff` in `teardown_live`).

### Bounds

- Two Machines and two workers are enough for a Machine and its peer that look
  for each other, three Machines for two victims and a peer. A third victim meets the same pairwise comparison.
- Deadlines of 0 and 1 ticks: an attempt can fall at and after each deadline,
  and between the etcd deadline and the reset deadline.
- `MaxFaults` of 2 covers a fault and a fault during the recovery from it; the
  proofs have no such bound.
- `MaxWrites` of 4 in the janitor: claim, provision, a release by hand and its
  completion; or claim, release and a new claim that races the scrub, with one
  more write in between.
- One rewrite of the source, with or without new material, and one return of the
  cluster with new material: two workers can hold two generations while a third
  is the live one. The proofs have no such bounds.
- `MaxWrites` of 2 in the syncer: a foreign creation between read and POST and a
  second write before the retry; or a decision of the workflow controller and the
  removal of the label in one sync. Two MACs, so that a NIC can be replaced. The
  proofs have no such bounds.
- `MaxMishaps` of 4 in discovery: the credentials arrive, the BMC loses its
  address, the other BMC takes it and gives it back; or changes, failed calls and
  restarts in any other mixture. `discovery_lease` needs two. `Buffer` of 1 makes
  the channel full whenever one event waits (16 in the code).
- Switches (`ClusterDeletable`, `ScaleDown`, `DeleteNeedsHook`, `SameSecond`)
  only take environment steps away. `Copied` says whether the copy of the secret
  is there from the start; it is where the live secret stays anyway
  (`teardown_hold`). `DeleteNeedsHook` is the assumption under
  which serialization holds; `teardown_late_hook` shows what happens without.

`CHECK_DEADLOCK FALSE` is set where everything may be deleted and nothing is left
to do. The other runs check for deadlock.

### Fairness

- `Scheduled`: informers deliver and time passes (`WF`); a worker that started a
  reconcile goes on with it (every call has a timeout); a queued key is taken
  (`SF`: the workqueue is first-in first-out, so a key is not passed over for
  ever although another occupies the only worker); the machine controller makes
  its passes. Nothing else: drains need not end.
- `FairSpec` adds that drains end and that other hook owners finish. Deletions
  cannot end otherwise, and the code waits for both on purpose. A Machine is
  deleted once, so that `EveryDeletionEnds` can say that again and again no
  deletion is pending.
- Janitor: the worker, the calls and the watch are fair, the resync is not: a
  release is scrubbed through the watch and the error requeue alone.
- Credentials: the GC ticker ticks, watches deliver, calls return, and a live
  Machine is reconciled again and again (informer resync). The refresh of the
  copy depends on that: nothing watches the source secret.
- Syncer: the worker takes its key, calls return, watches deliver, and the
  endpoint is queued again and again (browse cycles and the ticker), which is how
  the code recovers from a restart in the middle of a sync.
- Discovery: browse cycles start again, calls return, and the loop receives
  (`WF`); windows need not close. `SF` on `Forward`: a service that can be heard
  gets an entry through in some cycle, although the windows close and the channel
  fills up in between. `SF` on `HandleStart`: the workqueue is first-in
  first-out. Nothing is assumed of the ticker, except as the hypothesis of
  `HeardIsSynced`.
- Faults are bounded in number by `MaxFaults` and are never required to happen.

## Proofs

TLAPS proves these for every set of Machines or Hardware, all timeouts,
concurrency and fault bounds, from the named assumptions on the constants
(`MachinesAssumption`: Machines are finitely many positive naturals;
`SubsetAssumption`, `TimeAssumption`, `SystemAssumption`, `JanitorAssumption`,
`SyncerAssumption`: subsets, naturals, Booleans, a missing MAC is not a MAC).
Where a theorem holds under a condition only, the condition is a hypothesis of
that theorem, and some run satisfies it.

| Theorem | States |
|---|---|
| `TypeCorrect` | `Spec => []TypeOK` |
| `TeardownPrecedesPowerOff` | `Spec => []TeardownBeforePowerOff` |
| `ActsLate` | `Spec => []NeverActsEarly` |
| `HookComesOffLast` | `Spec => HookOutlivesTeardown` |
| `EtcdSurvives` | `Spec => []LastMemberKept` |
| `ConclusionsAreTrue` | `Spec => []ConclusionsTrue` |
| `ReleaseIsFinal` | `Spec => []ArmedNeverReparked` |
| `OpenPhasesSerialized` | `DeleteNeedsHook` and `~SameSecond` imply `Spec => []OpenPhasesAlone` |
| `EtcdOpsSerialized` | those, `Booting = {}` and `MaxFaults = 0` imply `Spec => []OneEtcdOpAtATime` |
| `TeardownImplementsGate` | `Spec => ImplementsGate`: `TeardownSystem` refines `DeletionGate` |
| `CredentialsAreOwn` | `NamespacesAligned` implies `Spec => []OwnCredentials` |
| `CollectsOnlyStrays` | `NamespacesAligned` implies `Spec => OnlyStraysCollected` |
| `ScrubsOnlyReleased` | `Spec => ScrubMeetsRelease` |
| `UnclaimedStaysUntouched` | `Spec => []NeverClaimedUntouched` |
| `SyncerTypeCorrect` | `Spec => []TypeOK` |
| `ReferencesResolve` | `Spec => []RefsResolve` |
| `NeverAdopts` | `Spec => ForeignUntouched` |
| `NetbootNeverChanges` | `~Partial` implies `Spec => NetbootKept` |

Types. `TypeOK` is not inductive: what `StampEtcd` writes is an etcd outcome only
because of the step it comes from. `TypeInv` adds `OutFits` (the pending outcome
fits the stamping step).

Teardown. A reconcile acts on an object that was stale when it read it and is
never read back. The inductive invariant is, per Machine: `Behind` (what an old
copy still tells: recorded conclusions stay recorded, deletions are not undone,
pre-terminate was reached, and no hook owner comes after that, so that a copy
from the wait that shows none is right for good),
`Progress` (what the reconcile has established at each step) and `Guarded` (a
Machine hooked at deletion that lost the hook has its conclusions on the
server). `Guarded` alone does not survive `Release`, which is justified by the
local object only; `Behind` carries that over to the server. `Carried` and
`PatchStep` say once what any step of a reconcile and any patch preserve.

etcd. `LastMemberKept` is not inductive: the last member could be one whose
removal is already decided. `Survivor` says that some member is not between
`FindHealthyPeer` and the end of its removal. A removal starts only with a peer
that the cache shows as not deleting, so that peer (by `Behind` and `Progress`)
is not leaving itself at that moment.

Records. `ConclusionsTrue` is about the server; what makes it inductive
(`Truth`) says the same of every outcome a running reconcile is about to stamp,
and `World` that nothing undoes it: a member that left does not join again and a
wiped node stays wiped. `ReleaseIsFinal` needs `Settled`: a copy from before the
first stamp is out of the cache by the time of the release, because the release
was decided on a copy that shows the deletion, and the cache does not go back.

Serialization. `Held` is decided on the cache, and nothing stops an older
Machine from being at work when the cache does not show it. That it always does
is `SerialInv`. A deletion is of a hooked Machine and has one timestamp in every
copy (`Dated`); `CacheSync` shows all Machines as of one moment, so a cache that
shows a deletion shows every older one (`Ordered`); a copy that shows a deleted
Machine without the hook, or none, is newer than the record of its etcd phase
(`Spent`, from `Guarded`). A reconcile that passes `Held` thus has only concluded
elders (`PassesElders`), later deletions are younger, and
`OpenPhasesSerialized` follows for any faults. `StepMoves` says once how a step
may move the copies of a Machine. From there to `OneEtcdOpAtATime` it takes that
a repeated phase is never one of the two: each reason for a conclusion lasts
when every node has booted and nothing fails (`Hopeless`, `StaysHopeless`:
members, running nodes, credentials and candidate peers only become fewer; a
Cluster seen deleting stays deleting), so the repetition ends before the leave.
`LastInv` ties this to the steps of a reconcile; it also shows that without
faults the removal via the peer is only reached when CACPPT took the member out
first.

Refinement. Every step of the controller, the machine controller and everybody
else is shown to move one Machine one phase on, to wipe a node that is not
`joined`, or to leave the gate's state alone (`GateStep`, one lemma per group of
actions). Besides the safety invariant it needs `Undecided`: a Machine that is
not being deleted has no outcome recorded, so a deletion arms it in the first
phase.

Credentials. `CacheInv` says that a copy is labelled for, and filled from, a
cluster its name is made from, and that a collection pass carries a copy's name
together with the cluster of its labels; this holds with recreation and with ambiguous names too.
`NamespacesAligned` is what makes the cluster of a name the only one: that two
joined names are equal then gives equal namespaces and equal names
(`ConcatSecond`, `AlignedIsUnambiguous`). For the collector it takes `Lags`: of a
cluster that did not come back, what a cache no longer shows is gone from the
server and stays so, hence what was found gone in the first of the two reads is
still gone at the delete, and the copy that is deleted by name, perhaps written
again by a reconcile in between, is still that cluster's.

Janitor. `JanitorInv` relates the cached object to the server's (`PastOf`: same
version, same object), the object of the update in flight to the one it was
computed from (`Computed`), and userData to a claim (`Traced`). The guarded write
then meets exactly the object that was classified.

Syncer. `SyncInv` says what a current copy means (`Current`: a fresh cache entry
equals the server's object, and so does the object an apply is conditioned on
while nobody wrote; that object carries the label), what a stale one still tells
(`Seen`: what the cache shows exists, or an operator deleted it) and which objects
were written by the time of each call (`Ordered`), on which `RefsResolve` rests. The guarded apply then meets exactly the object the
guard and the carry looked at. `NetbootNeverChanges` also needs that every
observation has a MAC (`HasMAC`), which holds when inventories are complete.

Every safety invariant and action property of a passing run is proved. Only
model-checked: the liveness properties (`EveryDeletionEnds`, `CopyCatchesUp`,
`StraysCollected`, `ReleasedIsScrubbed`, `GaugeSettles`, `SyncCompletes`,
`AddressLearned`, `QueuedIsSynced`, `HeardIsSynced`), because TLAPS has no proofs under fairness.
`Discovery` has liveness properties only and therefore no theorem.

## What is left

In the order in which it would add most:

1. `Syncer` composed with `Janitor`: both write the Hardware, each is modelled in
   the other as one external action.
2. Name templates that use the inventory: a device may get a second set of
   resources when a variable is missing.
3. Algorithms against reference definitions: `SanitizeName`, `orderPeers`, the
   order of address sources, `ParseDefaults`.
4. BMC passwords that change after discovery.

## Not modelled

Log lines, event texts, counters and histograms (write-only), flags and their
parsing, health endpoints, leader election (one active process; a crash stands
for a handover), Helm charts and generated CRDs. The order of the three address
sources matters only for which address is dialed; the model knows whether there
is one. Characters of names (`SanitizeName`, name templates), the grammar of
`--default-credentials`, the BMC protocols behind a collection and the resolution
of interface names are left out: the models know which resource an endpoint
names, which credentials there are, what a collection yields and whether an
interface exists. Designs that only exist as documents (hardware classifier, OS metadata,
upgrade coordinator) have no code.
