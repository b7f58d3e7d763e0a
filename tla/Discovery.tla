----------------------------- MODULE Discovery -----------------------------
(***************************************************************************)
(* The discovery controller up to the syncer: the mDNS browser             *)
(* (internal/mdns), the worker with its map of known endpoints and its     *)
(* workqueue (internal/controller), and the inventory collector            *)
(* (internal/inventory).  One run of the three applies of Sync is the      *)
(* action Sync here; Syncer.tla opens it up.                               *)
(*                                                                         *)
(* Abstractions: an endpoint is a BMC and one of the service types it      *)
(* advertises; the host name, the same for all of them, is the BMC itself; *)
(* a port goes with the address; a BMC accepts one password, the site's or *)
(* the factory's; the default credentials do not depend on the service; a  *)
(* credentials Secret without the two keys is as good as none.  The worker *)
(* reads the Secret without cache lag.                                     *)
(***************************************************************************)
EXTENDS Integers, Sequences

CONSTANTS
  BMCs, Addresses,
  Endpoints,       \* the <<BMC, service type>> pairs that are advertised
  NoAddr, NoBMC,   \* nothing
  Site,            \* the BMCs that accept the site's password only
  Defaults,        \* --default-credentials
  Buffer,          \* capacity of the event channel
  MaxMishaps       \* bound on changes outside, failed calls and restarts together

ASSUME DiscoveryAssumption ==
  /\ \A e \in Endpoints : e[1] \in BMCs
  /\ Site \subseteq BMCs /\ Defaults \subseteq {"site", "factory"}
  /\ NoAddr \notin Addresses /\ NoBMC \notin BMCs
  /\ Buffer \in Nat \ {0} /\ MaxMishaps \in Nat

VARIABLES
  addr,      \* the BMC's IPv4 address, NoAddr while it is off the network
  quiet,     \* BMCs that answer Redfish and are not heard over mDNS
  link,      \* a configured --mdns-interfaces interface exists
  secret,    \* the shared credentials Secret: absent (or malformed) or good
  window,    \* a browse cycle is running
  events,    \* the channel between the browser and the worker
  known,     \* the address in the worker's map of known endpoints, NoAddr without one
  queue,     \* keys in the workqueue, rate-limited ones included
  handle,    \* the handle call
  res,       \* auth Secret, Machine host and Hardware device under a resource name
  mishaps    \* changes outside, failed calls and restarts so far

network == <<addr, quiet, link, secret>>
browser == <<window, events>>
vars == <<network, browser, known, queue, handle, res, mishaps>>

Host == Addresses \cup {NoAddr}
Credentials == {"site", "factory"}
Idle == [pc |-> "idle", key |-> <<>>, ip |-> NoAddr, creds |-> {}, dev |-> NoBMC]

\* ResourceName: the first label of the host name, whatever the service type.
ResourceName(e) == e[1]
NoResources == [auth |-> "none", host |-> NoAddr, dev |-> NoBMC]

Password(b) == IF b \in Site THEN "site" ELSE "factory"
Mishap == mishaps < MaxMishaps /\ mishaps' = mishaps + 1

-----------------------------------------------------------------------------
(* The browser *)

\* clientOptions: names are resolved every cycle, one interface is enough.
ClientOptions == link

\* browseOnce starts a cycle; without client options it returns at once.
OpenWindow ==
  /\ ~window /\ ClientOptions
  /\ window' = TRUE
  /\ UNCHANGED <<network, events, known, queue, handle, res, mishaps>>

\* EntryToEndpoint: no endpoint without an IPv4 address.
EntryToEndpoint(e) == {[key |-> e, ip |-> a] : a \in {addr[e[1]]} \ {NoAddr}}

\* zeroconf reports a service it hears and forward sends the endpoint on.  The send
\* blocks while the channel is full: such an entry is one this action did not
\* take yet.
Forward(e) ==
  /\ window /\ Len(events) < Buffer
  /\ e[1] \notin quiet
  /\ \E ep \in EntryToEndpoint(e) : events' = Append(events, ep)
  /\ UNCHANGED <<network, window, known, queue, handle, res, mishaps>>

\* The window's context is done: a blocked send is given up.
CloseWindow ==
  /\ window
  /\ window' = FALSE
  /\ UNCHANGED <<network, events, known, queue, handle, res, mishaps>>

-----------------------------------------------------------------------------
(* The worker *)

\* Faulty variant: an endpoint that is known is not stored again.
ReceiveKeepsFirst ==
  /\ events # <<>>
  /\ LET ep == Head(events) IN
       /\ known' = [known EXCEPT ![ep.key] = IF @ = NoAddr THEN ep.ip ELSE @]
       /\ queue' = queue \cup {ep.key}
  /\ events' = Tail(events)
  /\ UNCHANGED <<network, window, handle, res, mishaps>>

\* Faulty variant: a key that is being handled is not queued again.
ReceiveSkipsBusy ==
  /\ events # <<>>
  /\ LET ep == Head(events) IN
       /\ known' = [known EXCEPT ![ep.key] = ep.ip]
       /\ queue' = IF handle.key = ep.key THEN queue ELSE queue \cup {ep.key}
  /\ events' = Tail(events)
  /\ UNCHANGED <<network, window, handle, res, mishaps>>

\* Start's loop takes an event: the map holds the latest endpoint, the key is
\* queued, once more if it is being handled.
Receive ==
  /\ events # <<>>
  /\ LET ep == Head(events) IN
       /\ known' = [known EXCEPT ![ep.key] = ep.ip]
       /\ queue' = queue \cup {ep.key}
  /\ events' = Tail(events)
  /\ UNCHANGED <<network, window, handle, res, mishaps>>

\* Faulty variant: what was written once is not looked at again.
ResyncUnwritten ==
  /\ queue' = queue \cup {e \in Endpoints : known[e] # NoAddr /\ res[ResourceName(e)].dev = NoBMC}
  /\ UNCHANGED <<network, browser, known, handle, res, mishaps>>

\* Start's ticker.
Resync ==
  /\ queue' = queue \cup {e \in Endpoints : known[e] # NoAddr}
  /\ UNCHANGED <<network, browser, known, handle, res, mishaps>>

\* credentialCandidates: the Secret when it is well formed, then the defaults.
CredentialCandidates == (IF secret = "good" THEN {"site"} ELSE {}) \cup Defaults

\* handle copies the endpoint out of the map and reads the candidates; when the
\* read of the Secret fails only the defaults are left.  A queued key is always
\* in the map.
HandleStart(e) ==
  /\ handle.pc = "idle" /\ e \in queue
  /\ queue' = queue \ {e}
  /\ \E creds \in {CredentialCandidates, Defaults} :
       /\ handle' = [pc |-> "collect", key |-> e, ip |-> known[e],
                     creds |-> creds, dev |-> NoBMC]
       /\ Mishap \/ (creds = CredentialCandidates /\ UNCHANGED mishaps)
  /\ UNCHANGED <<network, browser, known, res>>

\* processQueue: an error adds the key again with backoff.
Retry == handle' = Idle /\ queue' = queue \cup {handle.key}

\* The collector logs in to whatever answers at the copied address with one of
\* the candidates.
Answering == {b \in BMCs : addr[b] = handle.ip /\ Password(b) \in handle.creds}

\* Faulty variant: the key of a failed handle is forgotten.
CollectForgets ==
  /\ handle.pc = "collect"
  /\ \/ /\ \E b \in Answering : handle' = [handle EXCEPT !.pc = "sync", !.dev = b]
        /\ UNCHANGED <<queue, mishaps>>
     \/ /\ Answering = {}
        /\ handle' = Idle
        /\ UNCHANGED <<queue, mishaps>>
  /\ UNCHANGED <<network, browser, known, res>>

\* The candidates are tried one after the other; without one that authenticates,
\* nothing is written.
Collect ==
  /\ handle.pc = "collect"
  /\ \/ /\ \E b \in Answering : handle' = [handle EXCEPT !.pc = "sync", !.dev = b]
        /\ UNCHANGED <<queue, mishaps>>
     \/ /\ Answering = {}
        /\ Retry
        /\ UNCHANGED mishaps
     \/ Retry /\ Mishap
  /\ UNCHANGED <<network, browser, known, res>>

\* Sync writes Secret, Machine and Hardware in that order; `done' of them are
\* written when it stops.
Sync(done) ==
  LET n == ResourceName(handle.key) IN
  /\ handle.pc = "sync"
  /\ res' = [res EXCEPT ![n] =
       [auth |-> IF done >= 1 THEN Password(handle.dev) ELSE @.auth,
        host |-> IF done >= 2 THEN handle.ip ELSE @.host,
        dev  |-> IF done >= 3 THEN handle.dev ELSE @.dev]]
  /\ IF done = 3 THEN handle' = Idle /\ UNCHANGED <<queue, mishaps>>
                 ELSE Retry /\ Mishap
  /\ UNCHANGED <<network, browser, known>>

\* The process is replaced: map, queue and channel start empty.
Crash ==
  /\ Mishap
  /\ window' = FALSE /\ events' = <<>>
  /\ known' = [e \in Endpoints |-> NoAddr] /\ queue' = {} /\ handle' = Idle
  /\ UNCHANGED <<network, res>>

Worker ==
  \/ Collect
  \/ \E done \in 0..3 : Sync(done)
  \/ \E e \in Endpoints : HandleStart(e)

-----------------------------------------------------------------------------
(* External: the network and the operator *)

\* A BMC leaves the network, comes up, or gets another lease; an address may
\* pass to another BMC.
Readdress(b) ==
  /\ Mishap
  /\ \E a \in Host \ {addr[b]} :
       /\ \A c \in BMCs : addr[c] = a => a = NoAddr
       /\ addr' = [addr EXCEPT ![b] = a]
  /\ UNCHANGED <<quiet, link, secret, browser, known, queue, handle, res>>

\* mDNS presence is flaky: a BMC with services is not heard any more.
GoQuiet(b) ==
  /\ Mishap /\ b \notin quiet /\ \E e \in Endpoints : e[1] = b
  /\ quiet' = quiet \cup {b}
  /\ UNCHANGED <<addr, link, secret, browser, known, queue, handle, res>>

\* The Multus attachment appears or disappears.
LinkChanges ==
  /\ Mishap
  /\ link' = ~link
  /\ UNCHANGED <<addr, quiet, secret, browser, known, queue, handle, res>>

\* The credentials Secret is created or filled in, or becomes useless.
SecretChanges ==
  /\ Mishap
  /\ secret' = IF secret = "good" THEN "absent" ELSE "good"
  /\ UNCHANGED <<addr, quiet, link, browser, known, queue, handle, res>>

Init ==
  /\ addr \in [BMCs -> Host]
  /\ \A b, c \in BMCs : addr[b] = addr[c] => b = c \/ addr[b] = NoAddr
  /\ quiet = {} /\ link = TRUE /\ secret = "absent"
  /\ window = FALSE /\ events = <<>>
  /\ known = [e \in Endpoints |-> NoAddr] /\ queue = {} /\ handle = Idle
  /\ res = [b \in BMCs |-> NoResources]
  /\ mishaps = 0

Next ==
  \/ OpenWindow \/ CloseWindow \/ Receive \/ Resync \/ Worker \/ Crash
  \/ \E e \in Endpoints : Forward(e)
  \/ \E b \in BMCs : Readdress(b) \/ GoQuiet(b)
  \/ LinkChanges \/ SecretChanges

Spec == Init /\ [][Next]_vars

\* Browse cycles start again and every service that can be heard gets an entry
\* through in some of them; the worker's loop and its queue are served.  Nothing
\* is assumed of the ticker.
FairSpec ==
  /\ Spec
  /\ WF_vars(OpenWindow) /\ WF_vars(Receive)
  /\ WF_vars(Collect \/ \E done \in 0..3 : Sync(done))
  /\ \A e \in Endpoints : SF_vars(Forward(e)) /\ SF_vars(HandleStart(e))

-----------------------------------------------------------------------------
(* Properties *)

\* Once the network is stable the worker knows the current address of every
\* BMC it can hear, whatever a closing window or a full channel dropped and
\* whatever address it had before (forward, Start).
AddressLearned ==
  <>[](\A e \in Endpoints :
         link /\ addr[e[1]] # NoAddr /\ e[1] \notin quiet => known[e] = addr[e[1]])

\* The newest address the process holds for e: of its last event in the channel,
\* or else of the map.
Latest(e) ==
  LET mine == {i \in 1..Len(events) : events[i].key = e}
  IN  IF mine = {} THEN known[e]
      ELSE events[CHOOSE i \in mine : \A j \in mine : j <= i].ip
HeardAt(b, a) == \E e \in Endpoints : e[1] = b /\ Latest(e) = a

\* One of the candidates opens the BMC at address a.
LoginAt(a) ==
  a # NoAddr /\ \E b \in BMCs : addr[b] = a /\ Password(b) \in CredentialCandidates

\* b can be logged in to and was heard where it is; other addresses its services
\* were heard at lead to nobody.
Settled(b) ==
  /\ LoginAt(addr[b]) /\ HeardAt(b, addr[b])
  /\ \A a \in Addresses \ {addr[b]} : HeardAt(b, a) => ~LoginAt(a)

\* The current address of b is in the queue or on its way there.
Pending(b) ==
  \E e \in Endpoints :
    /\ e[1] = b /\ Latest(e) = addr[b]
    /\ e \in queue \/ \E i \in 1..Len(events) : events[i].key = e

\* The resources of b say what b is, where, and which password opens it.
Synced(b) == res[b] = [auth |-> Password(b), host |-> addr[b], dev |-> b]

\* A BMC heard or queued at its current address gets right and complete
\* resources, or moves again, without waiting for the hourly resync: failures,
\* late credentials and an address that arrives while the old one is being
\* handled are made up for by the queue (processQueue, handle).
QueuedIsSynced ==
  \A b \in {e[1] : e \in Endpoints} :
    Pending(b) /\ Settled(b) ~> Synced(b) \/ ~Settled(b)

\* With the resync the resources of a known BMC end up right even when nothing is
\* heard or queued any more, although its address passed to another BMC and back
\* in between and that BMC was written under its name; the service types of one
\* BMC, one perhaps with an older address, agree (Start's ticker, ResourceName).
Ticking == WF_vars(Resync)
HeardIsSynced ==
  Ticking => <>[](\A b \in BMCs : Settled(b) => Synced(b))

\* The last-seen annotation of a BMC that left the network for good stops
\* advancing: syncs under its name end.
LastSeenStops ==
  \A e \in Endpoints :
    <>[](addr[e[1]] = NoAddr) => <>[][~(handle.key = e /\ Sync(3))]_vars
=============================================================================
