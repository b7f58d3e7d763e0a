---------------------------- MODULE SyncerProofs ----------------------------
(***************************************************************************)
(* The resource syncer against everybody else who writes its objects, for  *)
(* any number of foreign writes, faults and MACs.                          *)
(*                                                                         *)
(* Sync decides from cached copies, so the invariant says what a copy is   *)
(* still good for: a current one is the server's object (Current), a copy  *)
(* that shows an object means it existed (Seen), and the kinds before the  *)
(* one a Sync is at were there (Ordered).                                  *)
(***************************************************************************)
EXTENDS Syncer, TLAPS

(* The part of the type invariant the proofs need.                           *)
Shapes ==
  /\ device \in MACs
  /\ api \in [Kinds -> Object] /\ cache \in [Kinds -> Object]
  /\ fresh \subseteq Kinds /\ sync \in SyncType /\ deleted \subseteq Kinds

Current ==
  /\ \A k \in fresh : cache[k] = api[k]
  /\ sync.pc = "apply" => sync.live.managed
  /\ sync.pc = "apply" /\ sync.fresh => sync.live = api[sync.kind]

Seen ==
  \A k \in Kinds :
    /\ cache[k].there => api[k].there \/ k \in deleted
    /\ ~api[k].there => api[k].netboot = "none"

Was(k) == api[k].there \/ k \in deleted
Ordered ==
  sync.pc # "idle" =>
    /\ sync.kind # "secret" => Was("secret")
    /\ sync.kind = "hardware" => Was("machine")

SyncInv == Shapes /\ Current /\ Seen /\ Ordered /\ RefsResolve

-----------------------------------------------------------------------------
(* The objects *)

\* The records that go around are objects.
LEMMA ObjectTypes ==
  /\ Absent \in Object /\ Idle \in SyncType
  /\ \A k \in Kinds, obs \in Observations, live \in Object : Desired(k, obs, live) \in Object
  /\ \A k \in Kinds, d \in Object, o \in Object : Applied(k, d, o) \in Object
  <1>1. Absent \in Object /\ Absent.netboot = "none" /\ ~Absent.there /\ ~Absent.managed
    BY SyncerAssumption DEF Absent, Object, Observations
  <1>2. Idle \in SyncType
    BY <1>1, SyncerAssumption DEF Idle, SyncType, Kinds, Observations
  <1>3. \A k \in Kinds, obs \in Observations, live \in Object : Desired(k, obs, live) \in Object
    BY DEF Desired, StampOwnership, Absent, NetbootFor, Object, Observations
  <1>4. \A k \in Kinds, d \in Object, o \in Object : Applied(k, d, o) \in Object
    BY DEF Applied, Object
  <1>5. QED
    BY <1>1, <1>2, <1>3, <1>4

\* What a write of Sync leaves is there and managed.
LEMMA Written ==
  ASSUME NEW k \in Kinds, NEW obs \in Observations, NEW live \in Object, NEW o \in Object
  PROVE  LET d == Desired(k, obs, live) IN
         /\ d \in Object /\ d.there /\ d.managed
         /\ Applied(k, d, o) \in Object /\ Applied(k, d, o).there /\ Applied(k, d, o).managed
         /\ k = "hardware" /\ obs # NoMAC => Applied(k, d, o) = d /\ d.netboot = NetbootFor(live)
  <1> DEFINE d == Desired(k, obs, live)
  <1>1. /\ d \in Object /\ d.there /\ d.managed
        /\ k = "hardware" /\ obs # NoMAC => d.mac # NoMAC /\ d.netboot = NetbootFor(live)
    BY ObjectTypes DEF Desired, StampOwnership, Absent
  <1> HIDE DEF d
  <1>2. /\ Applied(k, d, o) \in Object /\ Applied(k, d, o).there /\ Applied(k, d, o).managed
        /\ k = "hardware" /\ obs # NoMAC => Applied(k, d, o) = d
    BY <1>1 DEF Applied, Object
  <1>3. QED
    BY <1>1, <1>2 DEF d

-----------------------------------------------------------------------------
(* Steps of Sync *)

(* Where a Sync goes from kind k.                                            *)
Advances(k) ==
  \/ sync'.pc = "idle"
  \/ /\ sync'.pc = "get" /\ sync'.obs = sync.obs
     /\ \/ k = "secret" /\ sync'.kind = "machine"
        \/ k = "machine" /\ sync'.kind = "hardware"

\* Sync goes on to the next kind or ends.
LEMMA NextKind ==
  ASSUME sync \in SyncType, Continue \/ Fail
  PROVE  sync' \in SyncType /\ Advances(sync.kind)
  <1>1. Idle \in SyncType /\ Idle.pc = "idle"
    BY ObjectTypes DEF Idle
  <1>2. CASE sync' = Idle
    BY <1>1, <1>2 DEF Advances
  <1>3. ASSUME NEW k \in Kinds, sync' = [Idle EXCEPT !.pc = "get", !.kind = k, !.obs = sync.obs]
        PROVE  sync' \in SyncType /\ sync'.pc = "get" /\ sync'.kind = k /\ sync'.obs = sync.obs
    BY <1>1, <1>3 DEF SyncType
  <1>4. CASE sync.kind = "secret" /\ Continue
    BY <1>3, <1>4 DEF Continue, Advances, Kinds
  <1>5. CASE sync.kind = "machine" /\ Continue
    BY <1>3, <1>5 DEF Continue, Advances, Kinds
  <1>6. QED
    BY <1>2, <1>4, <1>5 DEF Continue, Fail, SyncType, Kinds

\* Sync may leave a kind that was there.
LEMMA Advance ==
  ASSUME SyncInv, sync.pc # "idle", sync' \in SyncType, Advances(sync.kind),
         sync'.pc # "idle" => api'[sync.kind].there \/ sync.kind \in deleted',
         \A k \in Kinds : Was(k) => Was(k)'
  PROVE  Ordered' /\ sync'.pc # "apply"
  <1>1. sync'.pc # "apply"
    BY DEF Advances
  <1>2. Ordered'
    <2>1. CASE sync'.pc = "idle"
      BY <2>1 DEF Ordered
    <2>2. CASE sync.kind = "secret" /\ sync'.kind = "machine" /\ sync'.pc # "idle"
      BY <2>2 DEF Ordered, Was
    <2>3. CASE sync.kind = "machine" /\ sync'.kind = "hardware" /\ sync'.pc # "idle"
      BY <2>3 DEF SyncInv, Ordered, Was, Kinds
    <2>4. QED
      BY <2>1, <2>2, <2>3 DEF Advances
  <1>3. QED
    BY <1>1, <1>2

(* A step of Sync that leaves the server alone.                              *)
Looks == UNCHANGED <<device, api, cache, fresh, deleted>>

\* Looking changes nothing but the Sync itself.
LEMMA LooksInv ==
  ASSUME SyncInv, Looks, sync' \in SyncType, Ordered',
         sync'.pc = "apply" => sync'.live.managed,
         sync'.pc = "apply" /\ sync'.fresh => sync'.live = api[sync'.kind]
  PROVE  SyncInv'
  BY DEF SyncInv, Looks, Shapes, Current, Seen, RefsResolve

\* A call that did not take effect ends the Sync.
LEMMA FailInv == ASSUME SyncInv, Fail, Looks PROVE SyncInv'
  <1>1. sync' = Idle /\ Idle \in SyncType /\ Idle.pc = "idle"
    BY ObjectTypes DEF Fail, Idle
  <1>2. QED
    BY <1>1, LooksInv DEF Ordered

\* Starting a Sync and reading the cache keep the invariant.
LEMMA ReadInv == ASSUME SyncInv, StartSync \/ Get \/ Requeue \/ Crash PROVE SyncInv'
  <1>0. /\ sync \in SyncType /\ Idle \in SyncType /\ Idle.pc = "idle" /\ Idle.kind = "secret"
        /\ cache \in [Kinds -> Object] /\ device \in Observations
    BY ObjectTypes DEF SyncInv, Shapes, Idle, Observations
  <1>1. CASE StartSync
    <2>1. PICK obs \in Observations : sync' = [Idle EXCEPT !.pc = "get", !.obs = obs]
      BY <1>0, <1>1 DEF StartSync
    <2>2. sync' \in SyncType /\ sync'.pc = "get" /\ sync'.kind = "secret"
      BY <1>0, <2>1 DEF SyncType
    <2>3. Ordered'
      BY <2>2 DEF Ordered
    <2>4. QED
      BY <1>1, <2>2, <2>3, LooksInv DEF StartSync, Looks
  <1>2. CASE Get
    <2> DEFINE c == cache[sync.kind]
    <2>1. c \in Object /\ sync.kind \in Kinds /\ sync.pc = "get"
      BY <1>0, <1>2 DEF SyncType, Get
    <2>2. Looks /\ \A k \in Kinds : Was(k)' = Was(k)
      BY <1>2 DEF Get, Looks, Was
    <2>3. CASE ~c.there /\ ~Fail
      <3>1. sync' = [sync EXCEPT !.pc = "create"]
        BY <1>2, <2>3 DEF Get
      <3>2. sync' \in SyncType /\ sync'.pc = "create" /\ sync'.kind = sync.kind
        BY <1>0, <3>1 DEF SyncType
      <3>3. Ordered'
        BY <2>1, <2>2, <3>2 DEF SyncInv, Ordered, Kinds
      <3>4. QED
        BY <2>2, <3>2, <3>3, LooksInv
    <2>4. CASE c.there /\ ~c.managed /\ ~Fail
      <3>1. Continue
        BY <1>2, <2>4 DEF Get
      <3>2. api'[sync.kind].there \/ sync.kind \in deleted'
        BY <2>1, <2>2, <2>4 DEF SyncInv, Seen, Looks
      <3>3. Ordered' /\ sync'.pc # "apply" /\ sync' \in SyncType
        BY <1>0, <2>1, <2>2, <3>1, <3>2, NextKind, Advance
      <3>4. QED
        BY <2>2, <3>3, LooksInv
    <2>5. CASE c.there /\ c.managed /\ ~Fail
      <3>1. sync' = [sync EXCEPT !.pc = "apply", !.live = c, !.fresh = sync.kind \in fresh]
        BY <1>2, <2>5 DEF Get
      <3>2. /\ sync' \in SyncType /\ sync'.pc = "apply" /\ sync'.kind = sync.kind
            /\ sync'.live = c /\ (sync'.fresh <=> sync.kind \in fresh)
        <4> DEFINE f == sync.kind \in fresh
        <4>1. f \in BOOLEAN
          OBVIOUS
        <4>2. sync' = [sync EXCEPT !.pc = "apply", !.live = c, !.fresh = f]
          BY <3>1
        <4> HIDE DEF f, c
        <4>3. sync' \in SyncType /\ sync'.pc = "apply" /\ sync'.kind = sync.kind
          BY <1>0, <2>1, <4>1, <4>2 DEF SyncType
        <4>4. sync'.live = c /\ sync'.fresh = f
          BY <1>0, <4>2 DEF SyncType
        <4>5. QED
          BY <4>3, <4>4 DEF f
      <3>3. Ordered'
        BY <2>1, <2>2, <3>2 DEF SyncInv, Ordered, Kinds
      <3>4. sync'.fresh => c = api[sync.kind]
        BY <3>2 DEF SyncInv, Current
      <3>5. QED
        BY <2>2, <2>5, <3>2, <3>3, <3>4, LooksInv
    <2>6. CASE Fail
      BY <2>2, <2>6, FailInv
    <2>7. QED
      BY <2>3, <2>4, <2>5, <2>6
  <1>3. CASE Requeue
    <2>1. sync' = sync /\ Looks
      BY <1>3 DEF Requeue, Looks
    <2>2. Ordered'
      BY <2>1 DEF SyncInv, Ordered, Was, Looks
    <2>3. QED
      BY <1>0, <2>1, <2>2, LooksInv DEF SyncInv, Current
  <1>4. CASE Crash
    <2>1. sync' = Idle /\ Looks
      BY <1>4 DEF Crash, Looks
    <2>2. QED
      BY <1>0, <2>1, LooksInv DEF Ordered
  <1>5. QED
    BY <1>1, <1>2, <1>3, <1>4

\* A write of Sync: the object of its kind is there and managed afterwards.
LEMMA WriteInv ==
  ASSUME SyncInv, sync.pc \in {"create", "apply"}, Continue \/ Fail,
         NEW o \in Object, o.there, o.managed,
         api' = [api EXCEPT ![sync.kind] = o], fresh' = fresh \ {sync.kind},
         UNCHANGED <<device, cache, deleted>>
  PROVE  SyncInv'
  <1>0. /\ sync \in SyncType /\ sync.kind \in Kinds /\ api \in [Kinds -> Object]
        /\ sync' \in SyncType /\ Advances(sync.kind)
    BY NextKind DEF SyncInv, Shapes, SyncType
  <1>1. api'[sync.kind] = o /\ \A k \in Kinds \ {sync.kind} : api'[k] = api[k]
    BY <1>0
  <1>2. \A k \in Kinds : Was(k) => Was(k)'
    BY <1>1 DEF Was
  <1>3. api'[sync.kind].there \/ sync.kind \in deleted'
    BY <1>1
  <1>4. Ordered' /\ sync'.pc # "apply"
    BY <1>0, <1>2, <1>3, Advance
  <1>5. Shapes'
    BY <1>0 DEF SyncInv, Shapes
  <1>6. Current'
    BY <1>1, <1>4 DEF SyncInv, Shapes, Current
  <1>7. Seen'
    BY <1>1 DEF SyncInv, Seen
  <1>8. RefsResolve'
    <2>1. api'["machine"].managed => Was("secret")'
      BY <1>1, <1>2 DEF SyncInv, RefsResolve, Ordered, Was, Kinds
    <2>2. api'["hardware"].managed => Was("machine")'
      BY <1>1, <1>2 DEF SyncInv, RefsResolve, Ordered, Was, Kinds
    <2>3. QED
      BY <2>1, <2>2 DEF RefsResolve, Was
  <1>9. QED
    BY <1>4, <1>5, <1>6, <1>7, <1>8 DEF SyncInv

\* The POST and the apply keep the invariant.
LEMMA CallInv == ASSUME SyncInv, Create \/ Apply PROVE SyncInv'
  <1>0. /\ sync \in SyncType /\ sync.kind \in Kinds /\ sync.obs \in Observations
        /\ sync.live \in Object /\ api[sync.kind] \in Object /\ Absent \in Object
    BY ObjectTypes DEF SyncInv, Shapes, SyncType
  <1>1. CASE Create
    <2>1. CASE Fail /\ UNCHANGED <<api, fresh>>
      BY <1>1, <2>1, FailInv DEF Create, Looks
    <2>2. CASE ~(Fail /\ UNCHANGED <<api, fresh>>)
      <3> DEFINE d == Desired(sync.kind, sync.obs, Absent)
      <3>1. d \in Object /\ d.there /\ d.managed
        BY <1>0, Written
      <3>2. /\ api' = [api EXCEPT ![sync.kind] = d] /\ fresh' = fresh \ {sync.kind}
            /\ sync.pc = "create" /\ (Continue \/ Fail) /\ UNCHANGED <<device, cache, deleted>>
        BY <1>1, <2>2 DEF Create
      <3> HIDE DEF d
      <3>3. QED
        BY <3>1, <3>2, WriteInv
    <2>3. QED
      BY <2>1, <2>2
  <1>2. CASE Apply
    <2>1. CASE Fail /\ UNCHANGED <<api, fresh>>
      BY <1>2, <2>1, FailInv DEF Apply, Looks
    <2>2. CASE ~(Fail /\ UNCHANGED <<api, fresh>>)
      <3> DEFINE o == Applied(sync.kind, Desired(sync.kind, sync.obs, sync.live), api[sync.kind])
      <3>1. o \in Object /\ o.there /\ o.managed
        BY <1>0, Written
      <3>2. /\ api' = [api EXCEPT ![sync.kind] = o] /\ fresh' = fresh \ {sync.kind}
            /\ sync.pc = "apply" /\ (Continue \/ Fail) /\ UNCHANGED <<device, cache, deleted>>
        BY <1>2, <2>2 DEF Apply
      <3> HIDE DEF o
      <3>3. QED
        BY <3>1, <3>2, WriteInv
    <2>3. QED
      BY <2>1, <2>2
  <1>3. QED
    BY <1>1, <1>2

-----------------------------------------------------------------------------
(* Steps of everybody else *)

\* A foreign write gives no label, makes every copy stale, and removes an
\* object only as a deletion.
LEMMA ForeignWriteInv ==
  ASSUME SyncInv, NEW k \in Kinds, NEW o \in Object, Write(k, o),
         o.managed => api[k].managed, api[k].there /\ ~o.there => k \in deleted',
         ~o.there => o.netboot = "none", deleted \subseteq deleted', deleted' \subseteq Kinds
  PROVE  SyncInv'
  <1>0. /\ sync \in SyncType /\ api \in [Kinds -> Object]
        /\ api' = [api EXCEPT ![k] = o] /\ fresh' = fresh \ {k} /\ cache' = cache
    BY DEF SyncInv, Shapes, Write
  <1>1. api'[k] = o /\ \A n \in Kinds \ {k} : api'[n] = api[n]
    BY <1>0
  <1>2. /\ sync' \in SyncType /\ sync'.pc = sync.pc /\ sync'.kind = sync.kind
        /\ sync'.live = sync.live
        /\ sync'.fresh => sync.fresh /\ sync.kind # k
    <2>1. CASE sync.kind = k
      <3>1. sync' = [sync EXCEPT !.fresh = FALSE]
        BY <2>1 DEF Write
      <3>2. QED
        BY <1>0, <3>1 DEF SyncType
    <2>2. CASE sync.kind # k
      BY <1>0, <2>2 DEF Write
    <2>3. QED
      BY <2>1, <2>2
  <1>3. \A n \in Kinds : Was(n) => Was(n)'
    BY <1>1 DEF Was
  <1>4. Shapes'
    BY <1>0, <1>2 DEF SyncInv, Shapes, Write
  <1>5. Current'
    BY <1>0, <1>1, <1>2 DEF SyncInv, Shapes, Current, SyncType
  <1>6. Seen'
    BY <1>0, <1>1 DEF SyncInv, Seen
  <1>7. Ordered'
    BY <1>2, <1>3 DEF SyncInv, Ordered, Kinds
  <1>8. RefsResolve'
    <2>1. \A n \in Kinds : api'[n].managed => api[n].managed
      BY <1>1
    <2>2. QED
      BY <1>3, <2>1 DEF SyncInv, RefsResolve, Was, Kinds
  <1>9. QED
    BY <1>4, <1>5, <1>6, <1>7, <1>8 DEF SyncInv

\* Nobody else breaks the invariant.
LEMMA OthersInv == ASSUME SyncInv, Others PROVE SyncInv'
  <1>0. /\ api \in [Kinds -> Object] /\ deleted \subseteq Kinds /\ Absent \in Object
        /\ ~Absent.there /\ ~Absent.managed /\ Absent.netboot = "none"
    BY ObjectTypes DEF SyncInv, Shapes, Absent
  <1>1. ASSUME NEW k \in Kinds, CreateForeign(k) PROVE SyncInv'
    <2>1. PICK n \in {"none", "allow", "deny"}, m \in Observations :
            /\ n = "none" <=> m = NoMAC
            /\ Write(k, [Absent EXCEPT !.there = TRUE, !.mac = m, !.netboot = n])
      BY <1>1, SyncerAssumption DEF CreateForeign, Observations
    <2> DEFINE o == [Absent EXCEPT !.there = TRUE, !.mac = m, !.netboot = n]
    <2>2. o \in Object /\ o.there /\ ~o.managed
      BY <1>0, <2>1 DEF Object
    <2>3. Write(k, o) /\ deleted' = deleted
      BY <1>1, <2>1 DEF CreateForeign
    <2> HIDE DEF o
    <2>4. QED
      BY <1>0, <2>2, <2>3, ForeignWriteInv
  <1>2. ASSUME NEW k \in Kinds, Touch(k) PROVE SyncInv'
    <2>1. PICK m \in BOOLEAN : Write(k, [api[k] EXCEPT !.managed = @ /\ m])
      BY <1>2 DEF Touch
    <2> DEFINE o == [api[k] EXCEPT !.managed = @ /\ m]
    <2>2. o \in Object /\ (o.there <=> api[k].there) /\ (o.managed => api[k].managed)
      BY <1>0 DEF Object
    <2>3. Write(k, o) /\ deleted' = deleted /\ api[k].there
      BY <1>2, <2>1 DEF Touch
    <2> HIDE DEF o
    <2>4. QED
      BY <1>0, <2>2, <2>3, ForeignWriteInv
  <1>3. ASSUME NEW k \in Kinds, Delete(k) PROVE SyncInv'
    <2>1. Write(k, Absent) /\ deleted' = deleted \cup {k}
      BY <1>3 DEF Delete
    <2>2. QED
      BY <1>0, <2>1, ForeignWriteInv
  <1>4. CASE SetNetboot
    <2> DEFINE h == api["hardware"]
    <2>1. PICK n \in {"allow", "deny"} : Write("hardware", [h EXCEPT !.netboot = n])
      BY <1>4 DEF SetNetboot
    <2> DEFINE o == [h EXCEPT !.netboot = n]
    <2>2. h \in Object /\ h.there /\ h.netboot # "none"
      BY <1>0, <1>4 DEF SetNetboot, Kinds
    <2>3. o \in Object /\ o.there /\ o.managed = h.managed
      BY <2>2 DEF Object
    <2>4. Write("hardware", o) /\ deleted' = deleted
      BY <1>4, <2>1 DEF SetNetboot
    <2> HIDE DEF o
    <2>5. QED
      BY <1>0, <2>3, <2>4, ForeignWriteInv DEF Kinds
  <1>5. CASE Rewire
    <2>1. device' \in MACs /\ UNCHANGED <<api, cache, fresh, sync, deleted>>
      BY <1>5 DEF Rewire
    <2>2. QED
      BY <2>1 DEF SyncInv, Shapes, Current, Seen, Ordered, Was, RefsResolve
  <1>6. QED
    BY <1>1, <1>2, <1>3, <1>4, <1>5 DEF Others

\* Nor does a watch event.
LEMMA CacheInv == ASSUME SyncInv, NEW k \in Kinds, CacheSync(k) PROVE SyncInv'
  <1>1. /\ api' = api /\ sync' = sync /\ deleted' = deleted /\ device' = device
        /\ fresh' = fresh \cup {k} /\ cache' = [cache EXCEPT ![k] = api[k]]
        /\ api \in [Kinds -> Object] /\ cache \in [Kinds -> Object]
    BY DEF SyncInv, Shapes, CacheSync
  <1>2. cache'[k] = api[k] /\ \A n \in Kinds \ {k} : cache'[n] = cache[n]
    BY <1>1
  <1>3. Shapes'
    BY <1>1 DEF SyncInv, Shapes
  <1>4. Current' /\ Seen'
    BY <1>1, <1>2 DEF SyncInv, Shapes, Current, Seen
  <1>5. Ordered' /\ RefsResolve'
    BY <1>1 DEF SyncInv, Ordered, Was, RefsResolve
  <1>6. QED
    BY <1>3, <1>4, <1>5 DEF SyncInv

\* The invariant holds in every reachable state.
LEMMA SyncInvariant == Spec => []SyncInv
  <1>1. Init => SyncInv
    <2> SUFFICES ASSUME Init PROVE SyncInv
      OBVIOUS
    <2>1. /\ Absent \in Object /\ Idle \in SyncType /\ Idle.pc = "idle"
          /\ ~Absent.there /\ ~Absent.managed /\ Absent.netboot = "none"
      BY ObjectTypes DEF Absent, Idle
    <2>2. Shapes
      BY <2>1 DEF Init, Shapes
    <2>3. Current /\ Seen /\ Ordered
      BY <2>1 DEF Init, Current, Seen, Ordered
    <2>4. RefsResolve
      BY <2>1 DEF Init, RefsResolve, Kinds
    <2>5. QED
      BY <2>2, <2>3, <2>4 DEF SyncInv
  <1>2. SyncInv /\ [Next]_vars => SyncInv'
    <2>1. SyncInv /\ UNCHANGED vars => SyncInv'
      BY DEF vars, SyncInv, Shapes, Current, Seen, Ordered, Was, RefsResolve
    <2>2. QED
      BY <2>1, ReadInv, CallInv, OthersInv, CacheInv DEF Next, Discovery
  <1>3. QED
    BY <1>1, <1>2, PTL DEF Spec

-----------------------------------------------------------------------------
(* The theorems *)

(* The variables that no argument depends on.                                *)
Counts == writes \in Nat /\ faults \in Nat
Rest == Counts /\ owners \subseteq Managers /\ queued \in BOOLEAN

\* Every object on the server and in the cache, and every object a Sync works
\* from, keeps its shape: no interface without netboot values.
THEOREM SyncerTypeCorrect == Spec => []TypeOK
  <1>1. Init => Rest
    <2>1. Init => Counts /\ owners \subseteq Managers
      BY DEF Init, Counts
    <2>2. Init => queued \in BOOLEAN
      BY DEF Init
    <2>3. QED
      BY <2>1, <2>2 DEF Rest
  <1>2. Rest /\ [Next]_vars => Rest'
    <2> SUFFICES ASSUME Rest, [Next]_vars PROVE Rest'
      OBVIOUS
    <2>1. Counts'
      <3>1. writes' = writes \/ writes' = writes + 1
        BY DEF Next, Discovery, StartSync, Get, Create, Apply, Requeue, Crash, CacheSync, Others,
               CreateForeign, Touch, Delete, SetNetboot, Rewire, Write, vars
      <3>2. faults' = faults \/ faults' = faults + 1
        BY DEF Next, Discovery, StartSync, Get, Create, Apply, Requeue, Crash, CacheSync, Others,
               CreateForeign, Touch, Delete, SetNetboot, Rewire, Write, Fault, vars
      <3>3. QED
        BY <3>1, <3>2 DEF Rest, Counts
    <2>2. owners' \subseteq Managers
      <3>1. owners \subseteq Managers
        BY DEF Rest
      <3>2. \A k, d, o : AppliedOwners(k, d, o) \subseteq Managers
        BY <3>1 DEF AppliedOwners, Managers
      <3>3. CASE Create \/ Apply
        <4>1. Create => owners' \in {owners, {"create"}}
          BY DEF Create
        <4>2. Apply => owners' = owners \/ \E k, d, o : owners' = AppliedOwners(k, d, o)
          BY DEF Apply
        <4>3. QED
          BY <3>1, <3>2, <3>3, <4>1, <4>2 DEF Managers
      <3>4. CASE Others
        BY <3>1, <3>4 DEF Others, CreateForeign, Touch, Delete, SetNetboot, Rewire, Managers
      <3>5. CASE ~Create /\ ~Apply /\ ~Others
        BY <3>1, <3>5 DEF Next, Discovery, StartSync, Get, Requeue, Crash, CacheSync, vars
      <3>6. QED
        BY <3>3, <3>4, <3>5
    <2>3. queued' \in BOOLEAN
      <3>1. queued' = queued \/ queued' = TRUE \/ queued' = FALSE
        BY Zenon DEF Next, Discovery, StartSync, Get, Create, Apply, Fail, Requeue, Crash, CacheSync,
               Others, CreateForeign, Touch, Delete, SetNetboot, Rewire, Write, vars
      <3>2. QED
        BY <3>1 DEF Rest
    <2>4. QED
      BY <2>1, <2>2, <2>3 DEF Rest
  <1>3. SyncInv /\ Rest => TypeOK
    BY DEF SyncInv, Shapes, Rest, Counts, TypeOK
  <1>4. QED
    BY <1>1, <1>2, <1>3, SyncInvariant, PTL DEF Spec

\* A managed Machine has its Secret and a managed Hardware its Machine, in
\* whatever step a Sync failed, conflicted or died.
THEOREM ReferencesResolve == Spec => []RefsResolve
  <1>1. SyncInv => RefsResolve
    BY DEF SyncInv
  <1>2. QED
    BY <1>1, SyncInvariant, PTL

\* Sync never changes an object without the managed-by label, whatever its
\* cached copy showed.
THEOREM NeverAdopts == Spec => ForeignUntouched
  <1>1. ASSUME SyncInv, Discovery, NEW k \in Kinds, api[k].there, ~api[k].managed
        PROVE  api'[k] = api[k]
    <2>0. api \in [Kinds -> Object] /\ sync.kind \in Kinds
      BY <1>1 DEF SyncInv, Shapes, SyncType
    <2>1. CASE StartSync \/ Get
      BY <2>1 DEF StartSync, Get
    <2>2. CASE Create
      BY <1>1, <2>0, <2>2 DEF Create
    <2>3. CASE Apply
      <3>1. sync.fresh => api[sync.kind].managed
        BY <1>1, <2>3 DEF Apply, SyncInv, Current
      <3>2. QED
        BY <1>1, <2>0, <2>3, <3>1 DEF Apply
    <2>4. QED
      BY <1>1, <2>1, <2>2, <2>3 DEF Discovery
  <1>2. SyncInv /\ [Next]_vars
          => [Discovery => \A k \in Kinds :
                api[k].there /\ ~api[k].managed => api'[k] = api[k]]_vars
    BY <1>1
  <1>3. QED
    BY <1>2, SyncInvariant, PTL DEF Spec, ForeignUntouched

(* A Sync has a MAC when inventories are complete.                           *)
HasMAC == sync.pc # "idle" => sync.obs # NoMAC

\* While inventories are complete, Sync never changes the netboot values of an
\* interface the Hardware has.
THEOREM NetbootNeverChanges ==
  ASSUME ~Partial
  PROVE  Spec => NetbootKept
  <1>1. SyncInv /\ HasMAC /\ [Next]_vars => HasMAC'
    <2> SUFFICES ASSUME SyncInv, HasMAC, [Next]_vars PROVE HasMAC'
      OBVIOUS
    <2>0. sync \in SyncType /\ Idle \in SyncType /\ Idle.pc = "idle" /\ device # NoMAC
      BY ObjectTypes, SyncerAssumption DEF SyncInv, Shapes, Idle
    <2>1. CASE StartSync
      <3>1. sync' = [Idle EXCEPT !.pc = "get", !.obs = device]
        BY <2>1 DEF StartSync
      <3>2. QED
        BY <2>0, <3>1 DEF SyncType, HasMAC
    <2>2. ASSUME sync.pc # "idle", Continue \/ Fail PROVE HasMAC'
      BY <2>0, <2>2, NextKind DEF HasMAC, Advances
    <2>3. CASE Get
      <3>1. CASE Continue \/ Fail
        BY <2>2, <2>3, <3>1 DEF Get
      <3>2. CASE ~Continue /\ ~Fail
        <4>1. sync'.obs = sync.obs /\ sync.pc = "get"
          BY <2>0, <2>3, <3>2 DEF Get, SyncType
        <4>2. QED
          BY <4>1 DEF HasMAC
      <3>3. QED
        BY <3>1, <3>2
    <2>4. CASE Create \/ Apply
      BY <2>2, <2>4 DEF Create, Apply
    <2>5. CASE Crash
      BY <2>0, <2>5 DEF Crash, HasMAC
    <2>6. CASE Others
      <3>1. sync' = sync \/ sync' = [sync EXCEPT !.fresh = FALSE]
        BY <2>6 DEF Others, CreateForeign, Touch, Delete, SetNetboot, Rewire, Write
      <3>2. sync'.pc = sync.pc /\ sync'.obs = sync.obs
        BY <2>0, <3>1 DEF SyncType
      <3>3. QED
        BY <3>2 DEF HasMAC
    <2>7. CASE Requeue \/ (\E k \in Kinds : CacheSync(k)) \/ UNCHANGED vars
      BY <2>7 DEF Requeue, CacheSync, vars, HasMAC
    <2>8. QED
      BY <2>1, <2>3, <2>4, <2>5, <2>6, <2>7 DEF Next, Discovery
  <1>2. ASSUME SyncInv, HasMAC, Discovery, api["hardware"].netboot # "none"
        PROVE  api'["hardware"].netboot = api["hardware"].netboot
    <2>0. /\ api \in [Kinds -> Object] /\ sync.kind \in Kinds /\ sync.live \in Object
          /\ sync.obs \in Observations /\ "hardware" \in Kinds
          /\ api["hardware"] \in Object
      BY <1>2 DEF SyncInv, Shapes, SyncType, Kinds
    <2>1. CASE StartSync \/ Get
      BY <2>1 DEF StartSync, Get
    <2>2. CASE Create
      <3>1. api["hardware"].there
        BY <1>2, <2>0 DEF SyncInv, Seen
      <3>2. QED
        BY <2>0, <2>2, <3>1 DEF Create
    <2>3. CASE Apply /\ sync.kind # "hardware"
      BY <2>0, <2>3 DEF Apply
    <2>4. CASE Apply /\ sync.kind = "hardware"
      <3> DEFINE o == Applied("hardware", Desired("hardware", sync.obs, sync.live), api["hardware"])
      <3>1. sync.fresh => sync.live = api["hardware"]
        BY <1>2, <2>4 DEF Apply, SyncInv, Current
      <3>2. sync.obs # NoMAC
        BY <1>2, <2>4 DEF HasMAC, Apply
      <3>3. o.netboot = NetbootFor(sync.live)
        BY <2>0, <3>2, Written
      <3>4. api' = api \/ (sync.fresh /\ api' = [api EXCEPT !["hardware"] = o])
        BY <2>4 DEF Apply
      <3> HIDE DEF o
      <3>5. QED
        BY <1>2, <2>0, <3>1, <3>3, <3>4 DEF NetbootFor
    <2>5. QED
      BY <1>2, <2>1, <2>2, <2>3, <2>4 DEF Discovery
  <1>3. SyncInv /\ HasMAC /\ [Next]_vars
          => [Discovery /\ api["hardware"].netboot # "none" =>
                api'["hardware"].netboot = api["hardware"].netboot]_vars
    BY <1>2
  <1>4. Init => HasMAC
    BY DEF Init, HasMAC, Idle
  <1>5. QED
    BY <1>1, <1>3, <1>4, SyncInvariant, PTL DEF Spec, NetbootKept

=============================================================================
