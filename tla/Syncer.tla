------------------------------- MODULE Syncer -------------------------------
(***************************************************************************)
(* The resource syncer of the discovery controller (internal/sync): for    *)
(* one verified BMC it upserts the auth Secret, the Machine and the        *)
(* Hardware, in that order, while CAPT, the tink workflow controller and   *)
(* operators write the same objects.  Gets are served by the manager's     *)
(* informer cache; a create is a plain POST; an update is a forced         *)
(* server-side apply whose precondition is the resourceVersion that was    *)
(* read.                                                                   *)
(*                                                                         *)
(* Abstractions: the objects of one resource name; the endpoint,           *)
(* credentials and inventory a sync starts from are one observation,       *)
(* distinguished by the primary MAC it yields; a resourceVersion is the    *)
(* flag "still the server's current version", which every write clears.    *)
(* The interfaces list is SSA-atomic: `owners' holds its field managers.   *)
(***************************************************************************)
EXTENDS Integers, FiniteSets

CONSTANTS
  MACs,        \* primary MACs the device may have
  NoMAC,       \* an inventory without a NIC MAC
  Partial,     \* NIC enrichment may fail while the collection succeeds
  MaxWrites,   \* bound on the changes everybody else makes
  MaxFaults    \* bound on failed calls, lost answers and restarts

ASSUME SyncerAssumption ==
  /\ NoMAC \notin MACs /\ MACs # {}
  /\ Partial \in BOOLEAN
  /\ MaxWrites \in Nat /\ MaxFaults \in Nat

VARIABLES
  device,   \* what the device would be observed as now
  api,      \* the objects as the API server stores them
  owners,   \* the field managers of the Hardware's interfaces list
  cache,    \* the objects as the informer caches show them
  fresh,    \* the kinds whose cached copy is the server's current version
  sync,     \* the Sync call
  queued,   \* the endpoint's key is in the workqueue
  deleted,  \* ghost: kinds an operator ever deleted
  writes, faults

vars == <<device, api, owners, cache, fresh, sync, queued, deleted, writes, faults>>

Kinds == {"secret", "machine", "hardware"}
Observations == MACs \cup {NoMAC}
Managers == {"create", "apply", "other"}

\* An interface has a MAC and netboot values, or there is none.
Object ==
  {o \in [there : BOOLEAN, managed : BOOLEAN, body : Observations,
          mac : Observations, netboot : {"none", "allow", "deny"}] :
     o.netboot = "none" <=> o.mac = NoMAC}

Absent == [there |-> FALSE, managed |-> FALSE, body |-> NoMAC,
           mac |-> NoMAC, netboot |-> "none"]

SyncType ==
  [pc : {"idle", "get", "create", "apply"}, kind : Kinds,
   obs : Observations, live : Object, fresh : BOOLEAN]
Idle == [pc |-> "idle", kind |-> "secret", obs |-> NoMAC, live |-> Absent, fresh |-> FALSE]

-----------------------------------------------------------------------------
(* The desired objects *)

\* Faulty variant: a create authors no defaults.
NetbootUnset(live) == live.netboot

\* netbootFor: the live primary interface's values, the defaults without one.
NetbootFor(live) == IF live.netboot # "none" THEN live.netboot ELSE "allow"

\* stampOwnership: the managed-by label (and the annotations, part of body).
StampOwnership(o) == [o EXCEPT !.managed = TRUE]

\* DesiredAuthSecret, DesiredMachine and DesiredHardware; only the Hardware has
\* interfaces, and only with a MAC.
Desired(k, obs, live) ==
  StampOwnership(
    [Absent EXCEPT !.there = TRUE, !.body = obs,
       !.mac = IF k = "hardware" THEN obs ELSE NoMAC,
       !.netboot = IF k = "hardware" /\ obs # NoMAC THEN NetbootFor(live) ELSE "none"])

\* External: what the forced apply of d leaves of object o.  An interfaces list
\* that is not applied stays while another manager owns it.
Applied(k, d, o) ==
  IF k = "hardware" /\ d.mac = NoMAC /\ owners \ {"apply"} # {}
  THEN [d EXCEPT !.mac = o.mac, !.netboot = o.netboot] ELSE d

\* External: the list's managers after that apply.
AppliedOwners(k, d, o) ==
  CASE k # "hardware" -> owners
    [] k = "hardware" /\ d.mac = NoMAC -> owners \ {"apply"}
    [] k = "hardware" /\ d.mac # NoMAC /\ <<d.mac, d.netboot>> = <<o.mac, o.netboot>> ->
         owners \cup {"apply"}
    [] OTHER -> {"apply"}

-----------------------------------------------------------------------------
(* Sync and applyManaged *)

Fault == faults < MaxFaults /\ faults' = faults + 1

\* The next call of Sync, or its successful return.
Continue ==
  sync' = CASE sync.kind = "secret" -> [Idle EXCEPT !.pc = "get", !.kind = "machine", !.obs = sync.obs]
            [] sync.kind = "machine" -> [Idle EXCEPT !.pc = "get", !.kind = "hardware", !.obs = sync.obs]
            [] OTHER -> Idle

\* An error ends Sync; the worker adds the key again, rate limited.
Fail == sync' = Idle /\ queued' = TRUE

\* The worker takes the key, collects the inventory and calls Sync.  The
\* collection succeeds without NICs, or with the NICs of another system only,
\* when enrichment fails half way.
StartSync ==
  /\ queued /\ sync.pc = "idle"
  /\ queued' = FALSE
  /\ \E obs \in IF Partial THEN Observations ELSE {device} :
       sync' = [Idle EXCEPT !.pc = "get", !.obs = obs]
  /\ UNCHANGED <<device, api, owners, cache, fresh, deleted, writes, faults>>

\* Faulty variant: an object of somebody else ends the whole sync.
GetAborts ==
  LET k == sync.kind  c == cache[k] IN
  /\ sync.pc = "get"
  /\ CASE ~c.there -> sync' = [sync EXCEPT !.pc = "create"]
       [] c.there /\ ~c.managed -> sync' = Idle
       [] OTHER -> sync' = [sync EXCEPT !.pc = "apply", !.live = c, !.fresh = k \in fresh]
  /\ UNCHANGED <<device, api, owners, cache, fresh, queued, deleted, writes, faults>>

\* The cached read and the adoption guard.
Get ==
  LET k == sync.kind  c == cache[k] IN
  /\ sync.pc = "get"
  /\ \/ /\ CASE ~c.there -> sync' = [sync EXCEPT !.pc = "create"]
            [] c.there /\ ~c.managed -> Continue
            [] OTHER -> sync' = [sync EXCEPT !.pc = "apply", !.live = c, !.fresh = k \in fresh]
        /\ UNCHANGED <<queued, faults>>
     \/ Fail /\ Fault
  /\ UNCHANGED <<device, api, owners, cache, fresh, deleted, writes>>

\* Faulty variant: the missing object is applied, an upsert.
CreateUpserts ==
  LET k == sync.kind IN
  /\ sync.pc = "create"
  /\ api' = [api EXCEPT ![k] = Desired(k, sync.obs, Absent)]
  /\ owners' = IF k = "hardware" THEN {"apply"} ELSE owners
  /\ fresh' = fresh \ {k}
  /\ Continue
  /\ UNCHANGED <<device, cache, queued, deleted, writes, faults>>

\* Faulty variant: a failed POST is logged and the sync goes on.
CreateErrorDropped ==
  LET k == sync.kind IN
  /\ sync.pc = "create"
  /\ \/ /\ ~api[k].there
        /\ api' = [api EXCEPT ![k] = Desired(k, sync.obs, Absent)]
        /\ owners' = IF k = "hardware" /\ sync.obs # NoMAC THEN {"create"} ELSE owners
        /\ fresh' = fresh \ {k}
        /\ UNCHANGED faults
     \/ /\ Fault
        /\ UNCHANGED <<api, owners, fresh>>
  /\ Continue
  /\ UNCHANGED <<device, cache, queued, deleted, writes>>

\* The POST: it is refused when the object exists; the answer may be lost.
Create ==
  LET k == sync.kind IN
  /\ sync.pc = "create"
  /\ \/ /\ ~api[k].there
        /\ api' = [api EXCEPT ![k] = Desired(k, sync.obs, Absent)]
        /\ owners' = IF k = "hardware" /\ sync.obs # NoMAC THEN {"create"} ELSE owners
        /\ fresh' = fresh \ {k}
        /\ \/ Continue /\ UNCHANGED <<queued, faults>>
           \/ Fail /\ Fault
     \/ /\ Fail
        /\ Fault \/ (api[k].there /\ UNCHANGED faults)
        /\ UNCHANGED <<api, owners, fresh>>
  /\ UNCHANGED <<device, cache, deleted, writes>>

\* Faulty variant: the apply does not carry the resourceVersion.
ApplyUnconditional ==
  LET k == sync.kind  d == Desired(k, sync.obs, sync.live) IN
  /\ sync.pc = "apply"
  /\ api' = [api EXCEPT ![k] = Applied(k, d, @)]
  /\ owners' = AppliedOwners(k, d, api[k])
  /\ fresh' = fresh \ {k}
  /\ Continue
  /\ UNCHANGED <<device, cache, queued, deleted, writes, faults>>

\* The forced apply: a Conflict, like any other error, ends the sync.
Apply ==
  LET k == sync.kind  d == Desired(k, sync.obs, sync.live)
      current == api[k].there /\ sync.fresh
  IN
  /\ sync.pc = "apply"
  /\ \/ /\ current
        /\ api' = [api EXCEPT ![k] = Applied(k, d, @)]
        /\ owners' = AppliedOwners(k, d, api[k])
        /\ fresh' = fresh \ {k}
        /\ \/ Continue /\ UNCHANGED <<queued, faults>>
           \/ Fail /\ Fault
     \/ /\ Fail
        /\ Fault \/ (~current /\ UNCHANGED faults)
        /\ UNCHANGED <<api, owners, fresh>>
  /\ UNCHANGED <<device, cache, deleted, writes>>

Discovery == StartSync \/ Get \/ Create \/ Apply

\* The ticker, or the browser seeing the BMC again, adds the key.
Requeue ==
  /\ ~queued /\ queued' = TRUE
  /\ UNCHANGED <<device, api, owners, cache, fresh, sync, deleted, writes, faults>>

\* External: the watch of kind k delivers.
CacheSync(k) ==
  /\ k \notin fresh
  /\ fresh' = fresh \cup {k}
  /\ cache' = [cache EXCEPT ![k] = api[k]]
  /\ UNCHANGED <<device, api, owners, sync, queued, deleted, writes, faults>>

\* The process is replaced in the middle of a Sync.
Crash ==
  /\ Fault
  /\ sync' = Idle /\ queued' = FALSE
  /\ UNCHANGED <<device, api, owners, cache, fresh, deleted, writes>>

-----------------------------------------------------------------------------
(* External: everybody else *)

Write(k, o) ==
  /\ writes < MaxWrites /\ writes' = writes + 1
  /\ api' = [api EXCEPT ![k] = o]
  /\ fresh' = fresh \ {k}
  /\ sync' = IF sync.kind = k THEN [sync EXCEPT !.fresh = FALSE] ELSE sync
  /\ UNCHANGED <<device, cache, queued, faults>>

\* Terraform or an operator creates the object without the label.
CreateForeign(k) ==
  /\ ~api[k].there
  /\ \E n \in IF k = "hardware" THEN {"none", "allow", "deny"} ELSE {"none"} :
     \E m \in IF n = "none" THEN {NoMAC} ELSE MACs :
       /\ Write(k, [Absent EXCEPT !.there = TRUE, !.mac = m, !.netboot = n])
       /\ owners' = IF k = "hardware" /\ n # "none" THEN {"other"} ELSE owners
  /\ UNCHANGED deleted

\* A write that leaves discovery's fields alone (userData, a status), or one
\* that takes the managed-by label away.
Touch(k) ==
  /\ api[k].there
  /\ \E m \in BOOLEAN : Write(k, [api[k] EXCEPT !.managed = @ /\ m])
  /\ UNCHANGED <<owners, deleted>>

\* The workflow controller or the janitor rewrites the interfaces list.
SetNetboot ==
  /\ api["hardware"].there /\ api["hardware"].netboot # "none"
  /\ \E n \in {"allow", "deny"} \ {api["hardware"].netboot} :
       Write("hardware", [api["hardware"] EXCEPT !.netboot = n])
  /\ owners' = {"other"}
  /\ UNCHANGED deleted

Delete(k) ==
  /\ api[k].there
  /\ Write(k, Absent)
  /\ owners' = IF k = "hardware" THEN {} ELSE owners
  /\ deleted' = deleted \cup {k}

\* A NIC is replaced, or the BMC's address or credentials change.
Rewire ==
  /\ writes < MaxWrites /\ writes' = writes + 1
  /\ \E m \in MACs \ {device} : device' = m
  /\ UNCHANGED <<api, owners, cache, fresh, sync, queued, deleted, faults>>

Others ==
  \/ \E k \in Kinds : CreateForeign(k) \/ Touch(k) \/ Delete(k)
  \/ SetNetboot \/ Rewire

Init ==
  /\ device \in MACs
  /\ api = [k \in Kinds |-> Absent] /\ cache = api
  /\ owners = {} /\ fresh = Kinds
  /\ sync = Idle /\ queued = FALSE /\ deleted = {}
  /\ writes = 0 /\ faults = 0

Next == Discovery \/ Requeue \/ Crash \/ Others \/ \E k \in Kinds : CacheSync(k)
Spec == Init /\ [][Next]_vars

\* The worker takes its keys, calls return, watches deliver, the ticker ticks.
FairSpec ==
  /\ Spec
  /\ WF_vars(Discovery) /\ WF_vars(Requeue)
  /\ \A k \in Kinds : WF_vars(CacheSync(k))

-----------------------------------------------------------------------------
(* Properties *)

\* Every variable has the shape the code gives it; in particular an interface
\* of the Hardware always has netboot values (netbootFor's defaults on create).
TypeOK ==
  /\ device \in MACs
  /\ api \in [Kinds -> Object] /\ cache \in [Kinds -> Object]
  /\ owners \subseteq Managers /\ fresh \subseteq Kinds
  /\ sync \in SyncType
  /\ queued \in BOOLEAN /\ deleted \subseteq Kinds
  /\ writes \in Nat /\ faults \in Nat

\* No step of Sync changes an object that does not carry the managed-by label
\* at that moment, however stale the cached copy its guard looked at
\* (applyManaged: a label stripped between check and write is a Conflict, a
\* concurrent foreign creation an AlreadyExists).
ForeignUntouched ==
  [][Discovery => \A k \in Kinds :
       api[k].there /\ ~api[k].managed => api'[k] = api[k]]_vars

\* No step of Sync changes the netboot values of an interface the Hardware
\* has: the workflow controller's allowPXE=false is never undone (netbootFor,
\* carried from a cached copy into an apply of the whole list).
NetbootKept ==
  [][Discovery /\ api["hardware"].netboot # "none" =>
       api'["hardware"].netboot = api["hardware"].netboot]_vars

\* A reference never dangles because a sync stopped half way: the Hardware's
\* Machine and the Machine's auth Secret exist, unless an operator deleted
\* them.
RefsResolve ==
  /\ api["machine"].managed => api["secret"].there \/ "secret" \in deleted
  /\ api["hardware"].managed => api["machine"].there \/ "machine" \in deleted

\* Once everybody else is quiet all three objects exist and the managed ones
\* describe the device as it is, whatever failed, conflicted or was foreign
\* on the way.
SyncCompletes ==
  <>[](\A k \in Kinds : api[k].there /\ (api[k].managed => api[k].body = device))
=============================================================================
