--------------------------- MODULE JanitorProofs ---------------------------
(***************************************************************************)
(* TLAPS proofs about Janitor.tla.  They rest on one fact: what the        *)
(* janitor holds of an object, in its cache or in an Update call, comes    *)
(* from a past version of it, and the same version is the same object.     *)
(***************************************************************************)
EXTENDS Janitor, TLAPS

\* v is no newer than r, and is r when it is as new and r still exists.
PastOf(v, r) == v.there => v.rv <= r.rv /\ (r.there /\ v.rv = r.rv => v = r)

\* An Update in flight was computed from a Released version of the object.
Computed(u, r) ==
  u.there => \E v \in HardwareType :
    v.there /\ PastOf(v, r) /\ Classify(v) = "Released" /\ u = Scrub(v)

\* Configurations and scrubs are only found on Hardware that was claimed.
Traced(h) == api[h].userData = "config" \/ api[h].scrubbedAt > 0 => h \in claimed

JanitorInv ==
  /\ TypeOK
  /\ \A h \in Hardware :
       PastOf(cache[h], api[h]) /\ Computed(view[h], api[h]) /\ Traced(h)

-----------------------------------------------------------------------------

\* The absent object is an object.
LEMMA AbsentType == Absent \in HardwareType /\ ~Absent.there
  BY DEF Absent, HardwareType

\* A scrub of a Released object keeps its version, its owner and the fields of
\* other writers, and takes it out of the released set.
LEMMA ScrubFacts ==
  ASSUME NEW v \in HardwareType, Classify(v) = "Released"
  PROVE  /\ Scrub(v) \in HardwareType
         /\ Scrub(v).rv = v.rv /\ Scrub(v).there = v.there
         /\ Scrub(v).disc = v.disc /\ Scrub(v).ownerName = v.ownerName
         /\ Scrub(v).userData = "nil"
         /\ Classify([Scrub(v) EXCEPT !.rv = @ + 1]) = "NeverClaimed"
         /\ v.userData = "config"
  <1>1. v.userData = "config" /\ ~v.ownerName /\ ~v.ownerNamespace /\ ~v.provisioned
    BY DEF Classify, HardwareType
  <1>2. Baseline \in {"allow", "deny"}
    BY DEF Baseline
  <1> DEFINE c == [v EXCEPT !.userData = "nil", !.os = @ /\ ~ClearOSMetadata,
                            !.pxe = IF @ = "noNetboot" THEN @ ELSE Baseline]
  <1>3. /\ c \in HardwareType /\ c.rv = v.rv /\ c.there = v.there /\ c.disc = v.disc
        /\ c.ownerName = v.ownerName /\ c.ownerNamespace = v.ownerNamespace
        /\ c.provisioned = v.provisioned /\ c.userData = "nil"
    BY <1>2, JanitorAssumption DEF HardwareType
  <1>4. c # v
    BY <1>1, <1>3
  <1>5. Scrub(v) = [c EXCEPT !.scrubbedAt = v.rv + 1]
    BY <1>4 DEF Scrub
  <1> HIDE DEF c
  <1>6. v.rv \in Nat
    BY DEF HardwareType
  <1>7. /\ Scrub(v) \in HardwareType
        /\ Scrub(v).rv = c.rv /\ Scrub(v).there = c.there /\ Scrub(v).disc = c.disc
        /\ Scrub(v).ownerName = c.ownerName /\ Scrub(v).ownerNamespace = c.ownerNamespace
        /\ Scrub(v).provisioned = c.provisioned /\ Scrub(v).userData = c.userData
    BY <1>3, <1>5, <1>6 DEF HardwareType
  <1>8. Classify([Scrub(v) EXCEPT !.rv = @ + 1]) = "NeverClaimed"
    BY <1>1, <1>3, <1>7 DEF Classify, HardwareType
  <1> QED
    BY <1>1, <1>3, <1>7, <1>8

\* A newer version of an object turns every past version into an older one.
LEMMA Ages ==
  ASSUME NEW v \in HardwareType, NEW r \in HardwareType, NEW s \in HardwareType,
         PastOf(v, r), s.rv = r.rv + 1
  PROVE  PastOf(v, s)
  BY DEF PastOf, HardwareType

\* So does an Update in flight.
LEMMA ComputedAges ==
  ASSUME NEW u, NEW r \in HardwareType, NEW s \in HardwareType,
         Computed(u, r), s.rv = r.rv + 1
  PROVE  Computed(u, s)
  BY Ages DEF Computed

-----------------------------------------------------------------------------

\* The invariant holds at the start.
LEMMA JanitorInit == Init => JanitorInv
  <1> SUFFICES ASSUME Init PROVE JanitorInv
    OBVIOUS
  <1>1. ASSUME NEW h \in Hardware, NEW r \in Fresh(h)
        PROVE  r \in HardwareType /\ r.userData # "config" /\ r.scrubbedAt = 0
    <2>1. PICK u \in {"nil", "blank"}, p \in {"noNetboot", "unset", "deny"} :
            r = [Absent EXCEPT !.there = TRUE, !.userData = u, !.pxe = p, !.rv = 1,
                               !.provisioned = h \in Bootstrap, !.os = h \in Bootstrap]
      BY DEF Fresh
    <2> DEFINE b == h \in Bootstrap
    <2>2. r = [there |-> TRUE, ownerName |-> FALSE, ownerNamespace |-> FALSE,
               userData |-> u, provisioned |-> b, os |-> b, pxe |-> p,
               disc |-> 0, scrubbedAt |-> 0, rv |-> 1]
      BY <2>1 DEF Absent
    <2>3. b \in BOOLEAN
      OBVIOUS
    <2> HIDE DEF b
    <2> QED
      BY <2>2, <2>3 DEF HardwareType
  <1>2. \A h \in Hardware : api[h] \in HardwareType
    BY <1>1 DEF Init
  <1>3. DOMAIN api = Hardware /\ api = [h \in Hardware |-> api[h]]
    BY DEF Init
  <1>4. TypeOK
    BY <1>2, <1>3, AbsentType, JanitorAssumption DEF TypeOK, Init
  <1>5. ASSUME NEW h \in Hardware PROVE api[h].userData # "config" /\ api[h].scrubbedAt = 0
    BY <1>1 DEF Init
  <1>6. ASSUME NEW h \in Hardware
        PROVE  PastOf(cache[h], api[h]) /\ Computed(view[h], api[h])
    BY <1>2, AbsentType DEF Init, PastOf, Computed, HardwareType
  <1> QED
    BY <1>4, <1>5, <1>6 DEF JanitorInv, Traced

\* A write of somebody else, of an object of the right type that adds no scrub
\* and no unclaimed configuration, preserves the invariant.
LEMMA WriteInv ==
  ASSUME JanitorInv, NEW h \in Hardware, NEW r \in HardwareType, Write(h, r),
         claimed \subseteq claimed', claimed' \subseteq Hardware,
         r.scrubbedAt > 0 => api[h].scrubbedAt > 0,
         r.userData = "config" => api[h].userData = "config" \/ h \in claimed'
  PROVE  JanitorInv' /\ \A g \in Hardware : api'[g].scrubbedAt <= api[g].scrubbedAt \/ g = h
  <1> DEFINE s == [r EXCEPT !.rv = api[h].rv + 1]
  <1>1. api[h] \in HardwareType /\ api[h].rv \in Nat
    BY DEF JanitorInv, TypeOK, HardwareType
  <1>2. s \in HardwareType /\ s.rv = api[h].rv + 1
        /\ s.scrubbedAt = r.scrubbedAt /\ s.userData = r.userData
    BY <1>1 DEF HardwareType
  <1>3. api' = [api EXCEPT ![h] = s]
    BY DEF Write
  <1> HIDE DEF s
  <1>4. api'[h] = s /\ \A g \in Hardware \ {h} : api'[g] = api[g]
    BY <1>3 DEF JanitorInv, TypeOK
  <1>5. TypeOK'
    BY <1>2, <1>3, JanitorAssumption DEF JanitorInv, TypeOK, Write
  <1>6. ASSUME NEW g \in Hardware
        PROVE  PastOf(cache'[g], api'[g]) /\ Computed(view'[g], api'[g])
    <2>1. CASE g # h
      BY <1>4, <2>1 DEF JanitorInv, Write
    <2>2. CASE g = h
      BY <1>1, <1>2, <1>4, <2>2, Ages, ComputedAges DEF JanitorInv, TypeOK, Write
    <2> QED
      BY <2>1, <2>2
  <1>7. ASSUME NEW g \in Hardware PROVE Traced(g)'
    BY <1>2, <1>4 DEF JanitorInv, Traced
  <1>8. \A g \in Hardware : api[g].scrubbedAt \in Nat
    BY DEF JanitorInv, TypeOK, HardwareType
  <1> QED
    BY <1>4, <1>5, <1>6, <1>7, <1>8 DEF JanitorInv
-----------------------------------------------------------------------------

\* What a step of somebody else does: the invariant holds after it and no
\* object gets a newer scrub.
LEMMA OtherWriterInv ==
  ASSUME JanitorInv, NEW h \in Hardware, OtherWriter(h)
  PROVE  JanitorInv' /\ \A g \in Hardware : api'[g].scrubbedAt <= api[g].scrubbedAt
  <1>1. /\ api[h] \in HardwareType /\ claimed \subseteq Hardware
        /\ api \in [Hardware -> HardwareType] /\ api[h].rv + 1 \in Nat
    BY DEF JanitorInv, TypeOK, HardwareType
  <1>2. ASSUME NEW r \in HardwareType, Write(h, r),
               claimed \subseteq claimed', claimed' \subseteq Hardware,
               r.scrubbedAt <= api[h].scrubbedAt,
               r.userData = "config" => api[h].userData = "config" \/ h \in claimed'
        PROVE  JanitorInv' /\ \A g \in Hardware : api'[g].scrubbedAt <= api[g].scrubbedAt
    <2>1. r.scrubbedAt \in Nat /\ api[h].scrubbedAt \in Nat
      BY <1>1, <1>2 DEF HardwareType
    <2>2. JanitorInv' /\ \A g \in Hardware : api'[g].scrubbedAt <= api[g].scrubbedAt \/ g = h
      BY <1>2, <2>1, WriteInv
    <2>3. api'[h] = [r EXCEPT !.rv = api[h].rv + 1]
      BY <1>1, <1>2 DEF Write
    <2>4. api'[h].scrubbedAt = r.scrubbedAt
      BY <2>3 DEF HardwareType
    <2> QED
      BY <1>2, <2>2, <2>4
  <1>3. CASE Claim(h)
    <2> DEFINE r == [api[h] EXCEPT !.ownerName = TRUE, !.ownerNamespace = TRUE,
                                   !.userData = "config"]
    <2>1. r \in HardwareType
      BY <1>1 DEF HardwareType
    <2>2. r.scrubbedAt = api[h].scrubbedAt
      BY <1>1 DEF HardwareType
    <2> HIDE DEF r
    <2>3. r.scrubbedAt <= api[h].scrubbedAt
      BY <1>1, <2>2 DEF HardwareType
    <2> USE DEF r
    <2> QED
      BY <1>1, <1>2, <1>3, <2>1, <2>3 DEF Claim
  <1>4. CASE Provision(h)
    <2> DEFINE r == [api[h] EXCEPT !.provisioned = TRUE, !.os = TRUE,
                                   !.pxe = IF @ = "noNetboot" THEN @ ELSE "allow"]
    <2>1. r \in HardwareType
      BY <1>1 DEF HardwareType
    <2>2. r.scrubbedAt = api[h].scrubbedAt /\ r.userData = api[h].userData
      BY <1>1 DEF HardwareType
    <2> HIDE DEF r
    <2>3. r.scrubbedAt <= api[h].scrubbedAt
      BY <1>1, <2>2 DEF HardwareType
    <2> USE DEF r
    <2> QED
      BY <1>1, <1>2, <1>4, <2>1, <2>2, <2>3 DEF Provision
  <1>5. CASE ReleaseHardware(h)
    <2> DEFINE r == [api[h] EXCEPT !.ownerName = FALSE, !.ownerNamespace = FALSE,
                                   !.provisioned = FALSE]
    <2>1. r \in HardwareType
      BY <1>1 DEF HardwareType
    <2>2. r.scrubbedAt = api[h].scrubbedAt /\ r.userData = api[h].userData
      BY <1>1 DEF HardwareType
    <2> HIDE DEF r
    <2>3. r.scrubbedAt <= api[h].scrubbedAt
      BY <1>1, <2>2 DEF HardwareType
    <2> USE DEF r
    <2> QED
      BY <1>1, <1>2, <1>5, <2>1, <2>2, <2>3 DEF ReleaseHardware
  <1>6. CASE PartialRelease(h)
    <2>1. PICK n \in BOOLEAN, s \in BOOLEAN :
            Write(h, [api[h] EXCEPT !.ownerName = n, !.ownerNamespace = s])
      BY <1>6 DEF PartialRelease
    <2> DEFINE r == [api[h] EXCEPT !.ownerName = n, !.ownerNamespace = s]
    <2>2. r \in HardwareType
      BY <1>1 DEF HardwareType
    <2>3. r.scrubbedAt = api[h].scrubbedAt /\ r.userData = api[h].userData
      BY <1>1 DEF HardwareType
    <2> HIDE DEF r
    <2>4. r.scrubbedAt <= api[h].scrubbedAt
      BY <1>1, <2>3 DEF HardwareType
    <2> USE DEF r
    <2> QED
      BY <1>1, <1>2, <1>6, <2>1, <2>2, <2>3, <2>4 DEF PartialRelease
  <1>7. CASE DropProvisioned(h)
    <2> DEFINE r == [api[h] EXCEPT !.provisioned = FALSE]
    <2>1. r \in HardwareType
      BY <1>1 DEF HardwareType
    <2>2. r.scrubbedAt = api[h].scrubbedAt /\ r.userData = api[h].userData
      BY <1>1 DEF HardwareType
    <2> HIDE DEF r
    <2>3. r.scrubbedAt <= api[h].scrubbedAt
      BY <1>1, <2>2 DEF HardwareType
    <2> USE DEF r
    <2> QED
      BY <1>1, <1>2, <1>7, <2>1, <2>2, <2>3 DEF DropProvisioned
  <1>8. CASE Discover(h)
    <2> DEFINE r == [api[h] EXCEPT !.disc = api[h].rv + 1]
    <2>1. r \in HardwareType
      BY <1>1 DEF HardwareType
    <2>2. r.scrubbedAt = api[h].scrubbedAt /\ r.userData = api[h].userData
      BY <1>1 DEF HardwareType
    <2> HIDE DEF r
    <2>3. r.scrubbedAt <= api[h].scrubbedAt
      BY <1>1, <2>2 DEF HardwareType
    <2> USE DEF r
    <2> QED
      BY <1>1, <1>2, <1>8, <2>1, <2>2, <2>3 DEF Discover
  <1>9. CASE Delete(h)
    <2>1. Absent.scrubbedAt <= api[h].scrubbedAt /\ Absent.userData = "nil"
      BY <1>1 DEF HardwareType, Absent
    <2> QED
      BY <1>1, <1>2, <1>9, <2>1, AbsentType DEF Delete
  <1> QED
    BY <1>3, <1>4, <1>5, <1>6, <1>7, <1>8, <1>9 DEF OtherWriter

\* The Update call: it is accepted only at the version its object was computed
\* from, that version was Released, and the invariant holds after it.
LEMMA UpdateInv ==
  ASSUME JanitorInv, NEW h \in Hardware, Update(h)
  PROVE  /\ JanitorInv'
         /\ \A g \in Hardware :
              \/ api'[g] = api[g]
              \/ /\ Classify(api[g]) = "Released" /\ Classify(api'[g]) = "NeverClaimed"
                 /\ api'[g].disc = api[g].disc /\ api'[g].ownerName = api[g].ownerName
  <1>1. /\ api \in [Hardware -> HardwareType] /\ view \in [Hardware -> HardwareType]
        /\ cache \in [Hardware -> HardwareType]
    BY DEF JanitorInv, TypeOK
  <1>2. /\ view' = [view EXCEPT ![h] = Absent]
        /\ view' \in [Hardware -> HardwareType]
        /\ queue' \subseteq Hardware /\ faults' \in 0..MaxFaults
        /\ UNCHANGED <<cache, half, claimed, writes>>
    BY <1>1, AbsentType, JanitorAssumption DEF Update, Fault, JanitorInv, TypeOK
  <1>3. ASSUME NEW g \in Hardware, NEW r, Computed(view[g], r)
        PROVE  Computed(view'[g], r)
    BY <1>1, <1>2, <1>3, AbsentType DEF Computed
  <1>4. CASE UNCHANGED api
    BY <1>1, <1>2, <1>3, <1>4 DEF JanitorInv, TypeOK, Traced
  <1>5. CASE /\ api[h].there /\ api[h].rv = view[h].rv
             /\ api' = [api EXCEPT ![h] = [view[h] EXCEPT !.rv = @ + 1]]
    <2>1. PICK v \in HardwareType :
            v.there /\ PastOf(v, api[h]) /\ Classify(v) = "Released" /\ view[h] = Scrub(v)
      BY DEF JanitorInv, Computed, Update
    <2>2. v = api[h]
      BY <1>5, <2>1, ScrubFacts DEF PastOf
    <2> DEFINE s == [Scrub(api[h]) EXCEPT !.rv = @ + 1]
    <2>3. api' = [api EXCEPT ![h] = s]
      BY <1>5, <2>1, <2>2
    <2>4. /\ Scrub(api[h]) \in HardwareType /\ Scrub(api[h]).rv = api[h].rv
          /\ Scrub(api[h]).disc = api[h].disc /\ Scrub(api[h]).ownerName = api[h].ownerName
          /\ Scrub(api[h]).userData = "nil" /\ Classify(s) = "NeverClaimed"
          /\ api[h].userData = "config"
      BY <2>1, <2>2, ScrubFacts
    <2>5. /\ s \in HardwareType /\ s.rv = api[h].rv + 1
          /\ s.disc = api[h].disc /\ s.ownerName = api[h].ownerName /\ s.userData = "nil"
      BY <2>4 DEF HardwareType
    <2>6. Classify(s) = "NeverClaimed" /\ Classify(api[h]) = "Released"
      BY <2>1, <2>2, <2>4
    <2> HIDE DEF s
    <2>7. api'[h] = s /\ \A g \in Hardware \ {h} : api'[g] = api[g]
      BY <1>1, <2>3
    <2>8. TypeOK'
      BY <1>1, <1>2, <2>3, <2>5 DEF JanitorInv, TypeOK
    <2>9. ASSUME NEW g \in Hardware
          PROVE  PastOf(cache'[g], api'[g]) /\ Computed(view'[g], api'[g])
      <3>1. CASE g # h
        BY <1>2, <1>3, <2>7, <3>1 DEF JanitorInv
      <3>2. CASE g = h
        BY <1>1, <1>2, <2>5, <2>7, <3>2, Ages, AbsentType DEF JanitorInv, Computed
      <3> QED
        BY <3>1, <3>2
    <2>10. h \in claimed
      BY <2>4 DEF JanitorInv, Traced
    <2>11. ASSUME NEW g \in Hardware PROVE Traced(g)'
      BY <1>2, <2>7, <2>10 DEF JanitorInv, Traced
    <2> QED
      BY <2>5, <2>6, <2>7, <2>8, <2>9, <2>11 DEF JanitorInv
  <1> QED
    BY <1>4, <1>5 DEF Update

\* The other steps of the janitor leave the API server alone and preserve the
\* invariant.
LEMMA QuietInv ==
  ASSUME JanitorInv, JanitorStep, ~\E h \in Hardware : Update(h)
  PROVE  JanitorInv' /\ UNCHANGED api
  <1>1. /\ api \in [Hardware -> HardwareType] /\ view \in [Hardware -> HardwareType]
        /\ cache \in [Hardware -> HardwareType]
    BY DEF JanitorInv, TypeOK
  <1>2. ASSUME NEW h \in Hardware
        PROVE  Selected(api[h]) \in HardwareType /\ PastOf(Selected(api[h]), api[h])
    BY <1>1, AbsentType DEF Selected, PastOf, HardwareType
  <1>3. ASSUME NEW h \in Hardware, Reconcile(h) PROVE JanitorInv' /\ UNCHANGED api
    <2>1. UNCHANGED <<api, cache, claimed, writes, faults>>
          /\ queue' \subseteq Hardware /\ half' \subseteq Hardware
      BY <1>3 DEF Reconcile, JanitorInv, TypeOK
    <2>2. CASE view' = view
      BY <2>1, <2>2 DEF JanitorInv, TypeOK, Traced
    <2>3. CASE /\ cache[h].there /\ Classify(cache[h]) = "Released"
               /\ view' = [view EXCEPT ![h] = Scrub(cache[h])]
      <3>1. Scrub(cache[h]) \in HardwareType
        BY <1>1, <2>3, ScrubFacts
      <3>2. TypeOK'
        BY <1>1, <2>1, <2>3, <3>1 DEF JanitorInv, TypeOK
      <3>3. ASSUME NEW g \in Hardware PROVE Computed(view'[g], api'[g])
        BY <1>1, <2>1, <2>3 DEF JanitorInv, Computed
      <3> QED
        BY <2>1, <3>2, <3>3 DEF JanitorInv, Traced
    <2> QED
      BY <1>3, <2>1, <2>2, <2>3 DEF Reconcile
  <1>4. ASSUME NEW h \in Hardware, CacheSync(h) PROVE JanitorInv' /\ UNCHANGED api
    <2>1. TypeOK'
      BY <1>1, <1>2, <1>4 DEF CacheSync, JanitorInv, TypeOK
    <2>2. ASSUME NEW g \in Hardware PROVE PastOf(cache'[g], api'[g])
      BY <1>1, <1>2, <1>4 DEF CacheSync, JanitorInv
    <2> QED
      BY <1>4, <2>1, <2>2 DEF CacheSync, JanitorInv, Traced
  <1>5. CASE Resync
    BY <1>5 DEF Resync, JanitorInv, TypeOK, Traced
  <1>6. CASE Crash
    <2>1. TypeOK'
      BY <1>1, <1>2, <1>6, AbsentType, JanitorAssumption
      DEF Crash, Fault, JanitorInv, TypeOK
    <2>2. ASSUME NEW g \in Hardware
          PROVE  PastOf(cache'[g], api'[g]) /\ Computed(view'[g], api'[g])
      BY <1>2, <1>6, AbsentType DEF Crash, Computed
    <2> QED
      BY <1>6, <2>1, <2>2 DEF Crash, JanitorInv, Traced
  <1> QED
    BY <1>3, <1>4, <1>5, <1>6 DEF JanitorStep

-----------------------------------------------------------------------------

\* Every step preserves the invariant and scrubs nothing that is not Released.
LEMMA JanitorNext ==
  ASSUME JanitorInv, [Next]_vars
  PROVE  /\ JanitorInv'
         /\ \A h \in Hardware :
              api'[h].scrubbedAt > api[h].scrubbedAt =>
                /\ Classify(api[h]) = "Released" /\ Classify(api'[h]) = "NeverClaimed"
                /\ api'[h].disc = api[h].disc /\ api'[h].ownerName = api[h].ownerName
  <1>1. \A h \in Hardware : api[h].scrubbedAt \in Nat
    BY DEF JanitorInv, TypeOK, HardwareType
  <1>2. CASE UNCHANGED vars
    <2>1. JanitorInv'
      BY <1>2 DEF JanitorInv, TypeOK, Traced, vars
    <2> QED
      BY <1>1, <1>2, <2>1 DEF vars
  <1>3. CASE \E h \in Hardware : Update(h)
    BY <1>1, <1>3, UpdateInv
  <1>4. CASE JanitorStep /\ ~\E h \in Hardware : Update(h)
    BY <1>1, <1>4, QuietInv
  <1>5. ASSUME NEW g \in Hardware, OtherWriter(g)
        PROVE  JanitorInv' /\ \A h \in Hardware : ~(api'[h].scrubbedAt > api[h].scrubbedAt)
    <2>1. JanitorInv' /\ \A h \in Hardware : api'[h].scrubbedAt <= api[h].scrubbedAt
      BY <1>5, OtherWriterInv
    <2>2. \A h \in Hardware : api'[h].scrubbedAt \in Nat
      BY <2>1 DEF JanitorInv, TypeOK, HardwareType
    <2> QED
      BY <1>1, <2>1, <2>2
  <1> QED
    BY <1>2, <1>3, <1>4, <1>5 DEF Next

\* For any Hardware, any number of writes and any number of faults: a scrub only
\* lands on an object that is Released when it lands, and takes nothing of
\* another writer back (the resourceVersion-guarded Update of Reconcile).
THEOREM ScrubsOnlyReleased == Spec => ScrubMeetsRelease
  <1>1. Init => JanitorInv
    BY JanitorInit
  <1>2. JanitorInv /\ [Next]_vars => JanitorInv'
    BY JanitorNext
  <1>3. JanitorInv /\ [Next]_vars =>
          [\A h \in Hardware :
             api'[h].scrubbedAt > api[h].scrubbedAt =>
               /\ Classify(api[h]) = "Released" /\ Classify(api'[h]) = "NeverClaimed"
               /\ api'[h].disc = api[h].disc /\ api'[h].ownerName = api[h].ownerName]_vars
    BY JanitorNext
  <1> QED
    BY <1>1, <1>2, <1>3, PTL DEF Spec, ScrubMeetsRelease

\* Hardware that CAPT never claimed, the bootstrap node included, is never
\* scrubbed (Classify's two conjuncts and the guarded Update).
THEOREM UnclaimedStaysUntouched == Spec => []NeverClaimedUntouched
  <1>1. Init => JanitorInv
    BY JanitorInit
  <1>2. JanitorInv /\ [Next]_vars => JanitorInv'
    BY JanitorNext
  <1>3. JanitorInv => NeverClaimedUntouched
    BY DEF JanitorInv, Traced, NeverClaimedUntouched
  <1> QED
    BY <1>1, <1>2, <1>3, PTL DEF Spec
=============================================================================
