------------------------------ MODULE Janitor ------------------------------
(***************************************************************************)
(* tinkerbell-hardware-janitor (C4): scrubs Hardware that CAPT released    *)
(* (internal/janitor).  It reads Hardware from an informer cache that the  *)
(* API server filters to objects without the ownerName label, and writes   *)
(* the whole object back guarded by its resourceVersion.                   *)
(*                                                                         *)
(* Abstractions: an object's resourceVersion counts its writes; one        *)
(* interface stands for the netboot-bearing ones; `disc' stands for the    *)
(* fields other writers own and holds the version they last wrote; the     *)
(* scrubbed-at time is the version the scrub produces.  A Hardware name is *)
(* never reused.                                                           *)
(***************************************************************************)
EXTENDS Integers, FiniteSets

CONSTANTS
  Hardware,          \* names
  Bootstrap,         \* the terraform-created bootstrap nodes
  ClearOSMetadata,   \* --clear-os-metadata
  BaselineAllowPXE,  \* --baseline-allow-pxe
  MaxWrites,         \* bound on the writes of everybody else
  MaxFaults          \* bound on failed calls, lost answers and crashes

ASSUME JanitorAssumption ==
  /\ Bootstrap \subseteq Hardware
  /\ ClearOSMetadata \in BOOLEAN /\ BaselineAllowPXE \in BOOLEAN
  /\ MaxWrites \in Nat /\ MaxFaults \in Nat

VARIABLES
  api,      \* the Hardware as the API server stores it
  cache,    \* the Hardware as the filtered informer cache shows it
  queue,    \* the workqueue
  view,     \* the object of the Update call in flight, Absent when there is none
  half,     \* the janitor_half_released gauge: names with a series
  claimed,  \* ghost: Hardware CAPT ever claimed
  writes, faults

vars == <<api, cache, queue, view, half, claimed, writes, faults>>

HardwareType ==
  [there : BOOLEAN, ownerName : BOOLEAN, ownerNamespace : BOOLEAN,
   userData : {"nil", "blank", "config"}, provisioned : BOOLEAN, os : BOOLEAN,
   pxe : {"noNetboot", "unset", "allow", "deny"},
   disc : Nat, scrubbedAt : Nat, rv : Nat]

Absent ==
  [there |-> FALSE, ownerName |-> FALSE, ownerNamespace |-> FALSE,
   userData |-> "nil", provisioned |-> FALSE, os |-> FALSE, pxe |-> "noNetboot",
   disc |-> 0, scrubbedAt |-> 0, rv |-> 0]

-----------------------------------------------------------------------------
(* The predicate and the scrub *)

\* Faulty variant: the userData conjunct is lost.
ClassifyNoUserData(r) ==
  CASE r.ownerName \/ r.ownerNamespace -> "Claimed"
    [] r.provisioned -> "BootstrapReserved"
    [] OTHER -> "Released"

Classify(r) ==
  LET hasUserData == r.userData = "config"   \* neither nil nor only blanks
  IN CASE r.ownerName \/ r.ownerNamespace  -> "Claimed"
       [] ~(r.ownerName \/ r.ownerNamespace) /\ ~hasUserData /\ ~r.provisioned -> "NeverClaimed"
       [] ~(r.ownerName \/ r.ownerNamespace) /\ ~hasUserData /\ r.provisioned -> "BootstrapReserved"
       [] ~(r.ownerName \/ r.ownerNamespace) /\ hasUserData /\ r.provisioned -> "HalfReleased"
       [] OTHER -> "Released"

Baseline == IF BaselineAllowPXE THEN "allow" ELSE "deny"

\* The object after Scrub; the same object when there is nothing to clear.
Scrub(r) ==
  LET cleared == [r EXCEPT !.userData = "nil", !.os = @ /\ ~ClearOSMetadata,
                           !.pxe = IF @ = "noNetboot" THEN @ ELSE Baseline]
  IN  IF cleared = r THEN r ELSE [cleared EXCEPT !.scrubbedAt = r.rv + 1]

-----------------------------------------------------------------------------
(* The controller *)

Fault == faults < MaxFaults /\ faults' = faults + 1

\* Faulty variant: a Hardware that left the cache keeps its gauge series.
ReconcileKeepsSeries(h) ==
  LET v == cache[h] IN
  /\ h \in queue /\ \A g \in Hardware : ~view[g].there
  /\ queue' = queue \ {h}
  /\ half' = IF ~v.there THEN half
             ELSE IF Classify(v) = "HalfReleased" THEN half \cup {h} ELSE half \ {h}
  /\ view' = IF v.there /\ Classify(v) = "Released"
             THEN [view EXCEPT ![h] = Scrub(v)] ELSE view
  /\ UNCHANGED <<api, cache, claimed, writes, faults>>

\* Reconcile up to the Update call: read from the cache, classify, keep the
\* gauge.  One worker (MaxConcurrentReconciles is left at 1).
Reconcile(h) ==
  LET v == cache[h]
      surfaced == v.there /\ Classify(v) = "HalfReleased"
      released == v.there /\ Classify(v) = "Released" /\ Scrub(v) # v
  IN
  /\ h \in queue /\ \A g \in Hardware : ~view[g].there
  /\ queue' = queue \ {h}
  /\ half' = IF surfaced THEN half \cup {h} ELSE half \ {h}
  /\ view' = IF released THEN [view EXCEPT ![h] = Scrub(v)] ELSE view
  /\ UNCHANGED <<api, cache, claimed, writes, faults>>

\* Faulty variant: the scrub is applied to whatever is there (a patch).
UpdateUnguarded(h) ==
  /\ view[h].there
  /\ view' = [view EXCEPT ![h] = Absent]
  /\ api' = IF api[h].there THEN [api EXCEPT ![h] = [Scrub(@) EXCEPT !.rv = @ + 1]] ELSE api
  /\ UNCHANGED <<queue, cache, half, claimed, writes, faults>>
\* Faulty variant: the error of a failed Update is swallowed.
UpdateErrorDropped(h) ==
  /\ view[h].there
  /\ view' = [view EXCEPT ![h] = Absent]
  /\ \/ /\ api[h].there /\ api[h].rv = view[h].rv
        /\ api' = [api EXCEPT ![h] = [view[h] EXCEPT !.rv = @ + 1]]
        /\ UNCHANGED faults
     \/ /\ UNCHANGED api
        /\ Fault \/ (~(api[h].there /\ api[h].rv = view[h].rv) /\ UNCHANGED faults)
  /\ UNCHANGED <<queue, cache, half, claimed, writes>>

\* The guarded Update.  A Conflict, a deleted object, a failed call and a lost
\* answer are errors: the key is queued again, nothing is retried in place.
Update(h) ==
  LET current == api[h].there /\ api[h].rv = view[h].rv IN
  /\ view[h].there
  /\ view' = [view EXCEPT ![h] = Absent]
  /\ \/ /\ current
        /\ api' = [api EXCEPT ![h] = [view[h] EXCEPT !.rv = @ + 1]]
        /\ \/ UNCHANGED <<queue, faults>>
           \/ Fault /\ queue' = queue \cup {h}
     \/ /\ UNCHANGED api
        /\ queue' = queue \cup {h}
        /\ Fault \/ (~current /\ UNCHANGED faults)
  /\ UNCHANGED <<cache, half, claimed, writes>>

\* What the label selector !ownerName lets through.
Selected(r) == IF r.there /\ ~r.ownerName THEN r ELSE Absent

\* The watch delivers: a release arrives as an Add, a claim as a Delete.
CacheSync(h) ==
  /\ cache[h] # Selected(api[h])
  /\ cache' = [cache EXCEPT ![h] = Selected(api[h])]
  /\ queue' = queue \cup {h}
  /\ UNCHANGED <<api, view, half, claimed, writes, faults>>

\* --resync-period: every cached object is handed out again.
Resync ==
  /\ queue' = queue \cup {h \in Hardware : cache[h].there}
  /\ UNCHANGED <<api, cache, view, half, claimed, writes, faults>>

\* The process is replaced: the gauge is empty, the caches are listed anew.
Crash ==
  /\ Fault
  /\ view' = [h \in Hardware |-> Absent]
  /\ half' = {}
  /\ cache' = [h \in Hardware |-> Selected(api[h])]
  /\ queue' = {h \in Hardware : Selected(api[h]).there}
  /\ UNCHANGED <<api, claimed, writes>>

JanitorStep ==
  \/ \E h \in Hardware : Reconcile(h) \/ Update(h) \/ CacheSync(h)
  \/ Resync \/ Crash

-----------------------------------------------------------------------------
(* The other writers: CAPT, the workflow controller, operators, discovery *)

Write(h, r) ==
  /\ api[h].there /\ writes < MaxWrites
  /\ writes' = writes + 1
  /\ api' = [api EXCEPT ![h] = [r EXCEPT !.rv = api[h].rv + 1]]
  /\ UNCHANGED <<cache, queue, view, half, faults>>

\* CAPT takes Hardware that is neither owned nor provisioned.
Claim(h) ==
  /\ ~api[h].ownerName /\ ~api[h].ownerNamespace /\ ~api[h].provisioned
  /\ Write(h, [api[h] EXCEPT !.ownerName = TRUE, !.ownerNamespace = TRUE, !.userData = "config"])
  /\ claimed' = claimed \cup {h}

\* The workflow runs on claimed Hardware.
Provision(h) ==
  /\ api[h].ownerName /\ ~api[h].provisioned
  /\ Write(h, [api[h] EXCEPT !.provisioned = TRUE, !.os = TRUE,
                             !.pxe = IF @ = "noNetboot" THEN @ ELSE "allow"])
  /\ UNCHANGED claimed

\* CAPT's releaseHardware.
ReleaseHardware(h) ==
  /\ api[h].ownerName
  /\ Write(h, [api[h] EXCEPT !.ownerName = FALSE, !.ownerNamespace = FALSE,
                             !.provisioned = FALSE])
  /\ UNCHANGED claimed

\* An operator takes owner labels off by hand, together or one by one.
PartialRelease(h) ==
  /\ \E n, s \in BOOLEAN :
       /\ <<n, s>> # <<api[h].ownerName, api[h].ownerNamespace>>
       /\ n => api[h].ownerName
       /\ s => api[h].ownerNamespace
       /\ Write(h, [api[h] EXCEPT !.ownerName = n, !.ownerNamespace = s])
  /\ UNCHANGED claimed

\* An operator removes the provisioned annotation: a completed release, or a
\* bootstrap node that lost it.
DropProvisioned(h) ==
  /\ api[h].provisioned /\ ~api[h].ownerName
  /\ Write(h, [api[h] EXCEPT !.provisioned = FALSE])
  /\ UNCHANGED claimed

\* Discovery applies the fields it owns.
Discover(h) ==
  /\ Write(h, [api[h] EXCEPT !.disc = api[h].rv + 1])
  /\ UNCHANGED claimed

Delete(h) ==
  /\ Write(h, Absent)
  /\ UNCHANGED claimed

OtherWriter(h) ==
  \/ Claim(h) \/ Provision(h) \/ ReleaseHardware(h) \/ PartialRelease(h)
  \/ DropProvisioned(h) \/ Discover(h) \/ Delete(h)

\* Fresh inventory, its userData never set or blank; bootstrap nodes carry the
\* annotation.
Fresh(h) ==
  {[Absent EXCEPT !.there = TRUE, !.userData = u, !.pxe = p, !.rv = 1,
                  !.provisioned = h \in Bootstrap, !.os = h \in Bootstrap] :
     u \in {"nil", "blank"}, p \in {"noNetboot", "unset", "deny"}}

Init ==
  /\ api \in [Hardware -> UNION {Fresh(h) : h \in Hardware}]
  /\ \A h \in Hardware : api[h] \in Fresh(h)
  /\ cache = api
  /\ queue = Hardware
  /\ view = [h \in Hardware |-> Absent]
  /\ half = {} /\ claimed = {}
  /\ writes = 0 /\ faults = 0

Next == JanitorStep \/ \E h \in Hardware : OtherWriter(h)
Spec == Init /\ [][Next]_vars

\* The worker takes keys in turn, calls return, watches deliver.
FairSpec ==
  /\ Spec
  /\ \A h \in Hardware :
       SF_vars(Reconcile(h)) /\ WF_vars(Update(h)) /\ WF_vars(CacheSync(h))

-----------------------------------------------------------------------------
(* Properties *)

\* Every variable has the shape the code gives it.
TypeOK ==
  /\ api \in [Hardware -> HardwareType]
  /\ cache \in [Hardware -> HardwareType]
  /\ view \in [Hardware -> HardwareType]
  /\ queue \subseteq Hardware /\ half \subseteq Hardware /\ claimed \subseteq Hardware
  /\ writes \in 0..MaxWrites /\ faults \in 0..MaxFaults

\* A scrub lands only on an object that is Released at that moment, leaves it
\* out of the released set (self-extinguishing), and takes no other writer's
\* change back (Reconcile: "clear these fields GIVEN the released state I
\* saw"), however stale the object it was computed from.
ScrubMeetsRelease ==
  [][\A h \in Hardware :
       api'[h].scrubbedAt > api[h].scrubbedAt =>
         /\ Classify(api[h]) = "Released" /\ Classify(api'[h]) = "NeverClaimed"
         /\ api'[h].disc = api[h].disc /\ api'[h].ownerName = api[h].ownerName]_vars

\* Hardware CAPT never claimed, the bootstrap node above all, is never
\* scrubbed, even when it loses its provisioned annotation.
NeverClaimedUntouched ==
  \A h \in Hardware : api[h].scrubbedAt > 0 => h \in claimed

\* Hardware that is released does not keep serving the old machine's userData:
\* it is scrubbed, claimed again or taken away.
ReleasedIsScrubbed ==
  \A h \in Hardware : Classify(api[h]) = "Released" ~> Classify(api[h]) # "Released"

\* Once the other writers are done the half-released gauge shows exactly the
\* half-released Hardware, through claims out of the selector, deletions and
\* restarts.
GaugeSettles ==
  <>[](half = {h \in Hardware : api[h].there /\ Classify(api[h]) = "HalfReleased"})
=============================================================================
