# Verification of fab-dns

fab-dns gives services of several Kubernetes clusters one name. A *host* cluster
runs `service-hub` in server mode; each *member* cluster runs it in client mode
and reports its services to the host. What the clusters report is merged into
`GlobalService` resources of the host, which the members copy. In each cluster
`fabdns`, a plugin of CoreDNS, answers queries for `*.global` from them.

This directory holds TLA+ models of the parts of fab-dns where clusters,
goroutines and failures meet, the TLC runs that check them on small instances,
and TLAPS proofs for every instance. `PROJECT.json` lists, for each definition,
the lines of `src/` it is translated from, and all runs, theorems and hazards.

## Inventory

| Component | Source (`src/pkg/...`) | State | Operations | Correct if |
|---|---|---|---|---|
| globalServiceManager | `service-hub/types/global_service_manager.go`, `util/namespace` | one lock; the GlobalService objects in the API server | merge a cluster's endpoints, revoke them | it behaves as an atomic registry: nobody's endpoints are lost, an acknowledged call has had its effect, every call returns |
| apiserver | `service-hub/apiserver` | none of its own | heartbeat, download, upload, delete | what is recorded of a member is forgotten only when the member asks for it |
| ClusterStore | `service-hub/types/cluster.go` | per cluster an expire time and a set of keys | renew, add/remove key, list expired | as above, together with apiserver and recorder |
| clusterCleaner | `service-hub/cleaner` | a ticker, two loops | revoke what expired clusters reported | members that are gone lose everything that is recorded of them, members that are there and the host lose nothing |
| recorder | `service-hub/options.go` | none | refill the store after a start | the store is complete again |
| fabdns plugin | `fabdns/fabdns.go`, `fabdns/parse.go` | none; reads GlobalServices | answer a query | the nearest endpoints answer; each query is replied to once |
| serviceExporter | `service-hub/exporter/service_exporter.go` | set of exported keys | reconcile a service: export or revoke | the global service follows the service |
| lostServiceRevoker | `service-hub/exporter/lost_service_revoker.go` | none | revoke what has no service any more | nothing is left of a service removed while service-hub was down |
| globalServiceImporter | `service-hub/importer` | a ticker, goroutines of its rounds | copy the host's global services | members converge to the host's list |
| client | `service-hub/client` | none | heartbeat, upload, download, delete over HTTPS | errors are reported as such |
| options, commands, setup, about, types | rest | configuration | run once | - |

**How they interact.** In the host one process runs the HTTP handlers, the cleaner,
the recorder and the host's exporter. They share the manager (calls under its lock)
and the store (methods under its own locks; the two locks are never held together).
The manager talks to the API server through the client of the controller manager:
reads come from an informer cache that the watch feeds, writes go to the API server.
Handlers and cleaner call it with a timeout; the host's exporter and its revoker
pass on their controller's context, which has no deadline. Members talk to the host
by HTTP requests with a timeout. The importer's copy in a member triggers the
lostServiceRevoker there. `Heartbeat` is sent once, when a member starts
(`options.go:231`); afterwards its lease is renewed by the middleware, in practice
by the importer's downloads.

**What is hard.** Read-modify-write under a lock over a cache that lags behind
(the lock does not help: the cache may lag behind the previous holder's write);
requests and answers that are lost; a store in memory that must be rebuilt while
requests come in; check-then-act in the cleaner; two structures (objects and
store) that are updated one after the other; everything that must eventually be
cleaned although errors are only logged; the tiers and families of DNS answers;
requests that are carried out after their sender has given up on them; an
exporter that knows only in memory what it has to revoke, and a revoker beside it
that acts on what it has read before; goroutines of the importer that outlive
their round.

## Modules

| Module | Models | Used by |
|---|---|---|
| `GlobalService` | GlobalServices as data, merge and revoke as functions | all below |
| `GlobalServiceRegistry` | what the manager's interface promises: an atomic object | `GlobalServiceManager` (refinement) |
| `GlobalServiceManager` | the manager, its client and the API server | `ServiceHub` |
| `ServiceHub` | server mode: handlers, store, cleaner, recorder, host exporter on top of the manager | - |
| `ServiceExporter` | the two reconcilers of a cluster, serviceExporter and lostServiceRevoker, and the client they use | - |
| `Replica` | what importing promises a member | `Importer` (refinement) |
| `Importer` | the importer's rounds and goroutines | - |
| `FabDNS` | the DNS plugin | `HeadlessService` |
| `HeadlessEndpoints` | the endpoints of a headless service, from its EndpointSlices | `HeadlessService` |
| `HeadlessService` | exporters of several clusters, the merge and the plugin together | - |
| `MC...` | instances for TLC | the runs |
| `...Proofs`, `GlobalServiceRefinement` | theorems | - |

### GlobalServiceManager

A goroutine `p` is `idle`, `waiting` for the lock, `holding` it, or has
`returned`. `Invoke` is the call; `LockAndRead` is `Lock()`, `nsutil.Ensure` and
`client.Get`; then one of `Skip` (nothing to write), `Commit`, `Reject` (the API
server's conflict, already-exists or not-found), `LoseRequest`, `LoseReply` ends
the call and releases the lock, as the deferred `Unlock` does; `ReadFails` is the
error return of `Ensure` and `Get`. `Requests` says which request a call ends
with, translated from `CreateOrUpdate` and from the branches of
`RevokeGlobalService`. `live` is what the API server stores, with a resource
version; `cache` and `backlog` are the informer cache and what the watch has not
delivered yet, per key (the watch is ordered per object; different keys may be
delivered in any order). `Restart` ends all goroutines and refills the cache.

Abstractions: endpoints are a set. In the code their order decides whether
`CreateOrUpdate` finds the object changed; where it could (`MayReorder`) the
model allows both outcomes: `MayReorder` leaves out only a reorder among the
endpoints of the caller's own export. A failed `Get` of a revocation other than NotFound
is not returned at once in the code (`global_service_manager.go:92-99`): it goes
on with the empty object and tries to delete it, which the API server refuses
for want of a name; the caller sees an error and nothing changes, which is
`ReadFails`. A request that is lost is carried out before the call returns or
never; one carried out after the client has given up on it is not modelled.
`Accepts`, `Written`, `Store`, `Deliver` model Kubernetes and controller-runtime
from how the code uses them. The cluster named in an upload's body and the one
in its header are the same (the client sets both from one field).

`CachedReads` chooses the client: `TRUE` is the program (`options.go:178`),
`FALSE` is the direct client the unit tests use. Both are modelled because the
lock is there to make the calls atomic, and does so with a direct client only.
That the versions of cache, watch and calls never run ahead of the stored object
(`VersionsAgree`, in the proofs) is Kubernetes' doing; it is a lemma there and not
a property of fab-dns.

### ServiceHub

`Invoke`, the manager's steps and `Return` are reused; each handler adds what it
does around them. `UploadGlobalService` is middleware, validation and call;
`UploadDone` the return and the deferred `AddServiceKey`, which runs whatever
the call returned. `deleteEndpoints`/`DeleteDone` likewise, where the key goes
only after success. Heartbeats, downloads and refused requests only renew the
lease (`Heartbeat`). The cleaner's loops are `Tick`, `NextCluster`, `CleanKey`,
`BreakInner`, `CleanDone`, `RoundDone`; the recorder's are `RecordList`,
`RecordOne` (one global service), `RecordDone`, or `RecordFails`. `lease` stands
for the expire time: ahead (`live`), past (`expired`), or no such cluster in the
store (`absent`). `Expire` lets time pass; `Leave` ends a member for good.
`Overlap` says whether a member may send a request while one of its own is still
being served: its exporter and its revoker of lost services are two workers, and
each may send again after a timeout. In server mode the
host's exporter and its revoker of lost services (`HostWorkers`) call the manager
directly (`options.go:179`), with exports the API server would refuse. It refuses
a service without endpoints or without ports (`IsValid`); a definition in
`Portless` stands for one without ports. `RecordOne` takes a cluster's `Get`, `New`,
`SetExpireTime` and `AddServiceKey` in one step: `New` returns the cluster that is
there, so a heartbeat or an upload in between comes to the same as one after it,
and a deletion in between leaves one key more for the cleaner.

### FabDNS

One step serves one query against an arbitrary set of services, since the plugin
keeps no state. A name is a sequence of labels, an endpoint a record of cluster,
zone, region, hostname and addresses. `Serve` follows `ServeDNS` from the zone
check to the reply, `by` tells who wrote it. `ServerReplies` is the contract of
CoreDNS: the server itself replies if a plugin returns SERVFAIL, REFUSED,
FORMERR or NOTIMP.

### ServiceExporter

`svc` is what the informer cache shows of the Services, each with the endpoints of
its EndpointSlices; `hub` and `local` are this cluster's endpoints in the global
service of the host and in the local copy. `queue` and `lost` are the work queues of
the two controllers, `exporter` and `revoker` their single workers
(controller-runtime's default). `Reconcile` takes a key and decides on the request
as the code does from `shouldSkipService` and `serviceKeySet`; `ExporterSucceeds`,
`ExporterRefused` (status 400: a headless service of a member without endpoints or
without ports) and `ExporterFails` end it, and an error puts the key back.
`ReconcileLost` reads global service and service; `RevokerSucceeds` and
`RevokerFails` are one call of its loop, whose error is only logged. The copy shows
other clusters' endpoints as well (`Foreign`), which `Expired` leaves out. A request
that failed for the client has had no effect, has had its effect, or is `late` and
will have it (`ArriveLate`), also after a restart of the member. `LeaseLost` is the
host's cleaner, `Import` the importer or, in the host, the watch. `serverMode`
selects the wiring of `options.go:179` (direct calls, nothing refused, nothing late
but at a restart) or that of the HTTP client.

Abstractions: the host handles a request in one step, as proved of the manager with
a direct client, so that what another cluster's revocation may take along
(manager_delete) is not part of this model; endpoints are a set; a failed read of
the cache is the same as not having taken the key.

### Importer and Replica

Each object is the log of its versions; a resource version is a position in it.
`Download` is `GetGlobalServices` and the goroutines it starts, `ListLocal` the
list of local services and the deletions it starts. A goroutine of
`createOrUpdateGlobalService` is `ReadLocal` (namespace and `Get`), then
`SaveSkips`, `SaveWrites` or `SaveRejected`; that of `deleteService` is `Delete`.
`RequestLost` ends either with an error. The host's list (`served`) and the
member's cache (`seen`) may lag behind. A failed download ends the round
(`DownloadFails`): `DownloadAllGlobalServices` overwrites the error of
`handleResponse`, but the empty body it leaves does not parse either.

By default the interval (1 minute) is longer than the timeout of a goroutine
(5 seconds), so a round starts when those of the previous one are over; both are
flags, and nothing compares them. The configuration `slow` is the other case.

`Replica` is the abstract specification: every copy of the member is a version
the host had; unless `loose`, the member never goes back to an older one and
loses its copy only after the host has deleted the service. A request carried out
after its goroutine has given up is not modelled. A copy edited by hand keeps its
label and is not repaired before the host's next change; nobody but the importer
writes copies in the model.

### HeadlessEndpoints and HeadlessService

`GetEndpointsOfHeadlessService` yields the set of results the code may return: the
slices in any order that is sorted by address type (`sort.Sort` is not stable), the
two loops as functions of the number of rounds made (`AddedEndpoints`,
`endpointByName`), the map sorted by pod name (`ByName`). Pods are numbered in that
order. `HeadlessService`
lets clusters export such endpoints and revoke them. A call of the manager is one
step, as it holds the lock from its read to its write, but what it reads (`Read`)
is the version that the informer cache shows, which `Deliver` moves on and which
may be behind. `Merged` is computed from it; `MayWrite` is the API server's
verdict, which refuses an Update of an old version and a Create of what exists;
the Delete of a revocation that reads no other cluster's endpoints is not refused
and takes along what others have exported since. `versions` keeps all versions of
the global service, and beside each, as history, the slices of the last export of
each cluster that is in it and has not been removed. A member's copy is one of the
versions (that is what `Replica` is about), so that the plugin, an instance of
`FabDNS` per cluster, is asked for every pod name in each version.

## Runs

Passing runs:

| Run | Shows | States | Bounds |
|---|---|---|---|
| manager_direct | `LockKeepsFresh`, `ImplementsRegistry`, `DeleteLosesNobody`, `CallsReturn` | 207 000 | 2 goroutines, 2 clusters, 2 keys, one in a namespace that does not exist, 2 merges, 1 fault, 1 restart |
| hub_production | `CleanerSparesHost`, `RecorderKnowsMembers`, `NoResurrection`, `MergeIsolation`, `ForgottenOnRequest` | 1 980 000 | caching client, 2 overlapping handlers of 1 member, host, 1 key, 2 merges, 1 restart |
| hub_cleaning | `EmptyOnlyByHost`, `KnownRemainsCleaned` | 215 000 | caching client, 1 member with 1 handler, 1 key, 1 merge of 3 kinds of service, namespaces created on demand, 1 fault, 1 restart |
| exporter | `KeySetSettled`, `ExportConverges`, `RevokeConverges` | 409 000 | both modes, 1 key, 6 kinds of service, 1 endpoint of another cluster, 3 changes, 2 faults, 1 restart |
| importer | `ImplementsReplica`, `CopyConverges` | 398 000 | fast and slow, 1 key, 2 goroutines of it at a time, 4 versions, 1 fault, 1 restart |
| headless | `PodsExportedOnce`, `PodNamesResolve` | 21 000 | 2 clusters, 8 lists of up to 3 slices over 3 pods, 3 writes |
| fabdns | `NearestAnswer`, `PodNameDenotesPod`, `SpellingsAgree`, `RepliedOnce` | 7 000 | all services of up to 5 endpoints in 4 distances, both families and an invalid address, 23 names |

Revocations are not bounded; merges are, because each may add a resource version.
Two merges, with any number of revocations, are enough for a stale read to meet a
newer object and for a third call to act on the outcome; one fault is enough for an
effect whose caller saw an error; two goroutines for every race about one lock. The
manager treats keys independently but for the lock and the namespaces; manager_direct
and hub_recorder have two. In manager_direct the watch feeds a cache that nobody
reads. The host's revoker of lost services is a second goroutine in the theorems;
the runs have the host's exporter alone, which makes the same calls. In
hub_cleaning one merge is enough: an upload that comes in after its member is gone,
or that the cache does not show yet, is what the cleaner has to cope with. The
exporter's workers share nothing between keys but their turn. Three changes of a
service let it become global, change and cease; two faults let a late request meet a
lost lease. Four versions let a service be created, changed, deleted and created
again under a goroutine that still has the first. Three writes of a global service
let a stale merge or revocation meet an export of the other cluster. Three slices
are one more than the families, so that one family is split over two. The theorems
below carry the safety properties over to all bounds and numbers of handlers.

Runs that show a disagreement (each finds the violation it names):

- **manager_delete**: a revocation that reads the service before another
  cluster's merge deletes it with that cluster's endpoints: `Delete` has no
  version precondition. With a direct client the same property holds
  (manager_direct).
- **hub_cleaner_race**: the cleaner checks the lease, then waits for the lock. A
  member that is back and has uploaded meanwhile loses its endpoints.
- **hub_recorder**: after a restart only one global service per member is
  recorded, or none if the member's heartbeat came first. What does hold is that
  the member itself is not missed (`RecorderKnowsMembers`, hub_production).
- **exporter_stale**: a member's headless service that loses its last pod is
  refused by the API server at every retry; the host keeps the endpoint.
- **fabdns_design**: the design document answers a global name from the endpoints
  of the zone, then of the region, then from all
  (`multi-cluster-service-discovery-design.md:135-137`). The code first takes those
  of its own cluster alone, which is what `NearestAnswer` states. The example in
  `how-to-create-globalservice.md:84` differs from both: from shijiazhuang it
  expects beijing or shanghai, where both take the region north alone.

Further behaviours of the code that the models have and that the properties are
stated around:

- With the program's caching client a call of the manager may return nil without
  effect: a cluster merges, the watch is late, the cluster revokes; the revocation
  reads NotFound from the cache and succeeds, the endpoints stay. This is why
  `ImplementsRegistry` is about the direct client.
- A deletion removes the key from the store after the manager's lock is released
  (`apiserver.go:145`) and may so remove the key of a later upload whose request
  overlaps; and a deletion that read an old cache removes the key of endpoints that
  stay. So it is not true that the store knows all endpoints of a member, and the
  cleaner may leave some for good. What holds, and is checked with the program's
  wiring, is that nothing else makes the store forget but a restart
  (`ForgottenOnRequest`), and that what it knows is cleaned (`KnownRemainsCleaned`).
- The design document (`multi-cluster-service-discovery-design.md:121`) says a
  differently defined service is not taken as an endpoint; the code lets the last
  writer redefine the global service and keeps all endpoints
  (`global_service_manager.go:71`, a todo).
- A service that becomes a NodePort service while service-hub is down, or after an
  export whose answer was lost, is revoked by nobody: the new exporter does not
  have its key, and the revoker looks only at the label. `RevokeConverges` is
  therefore about services that are gone or not labelled.
- A revoker that has read the service before it became global again removes the
  fresh export; a lost lease does the same. Both are repaired by the next event or
  resync of the service, not earlier, which is what `ExportConverges` rests on.
- An address that two slices of one family list for one pod is exported twice,
  which `+listType=set` (`global_service_types.go:47`) forbids; `PodsExportedOnce`
  asks for distinct addresses only if the slices have none twice.

Two paths of the plugin are outside `RepliedOnce`. For a malformed name
(`fabdns.go:92`) it returns NXDOMAIN and writes nothing, a code the server does
not reply for. For another query type without fallthrough (`fabdns.go:81`) it
writes NOTIMP and returns it, for which the server replies as well.

### Fairness

`sync.RWMutex` hands the lock to the longest waiting writer once it starves, so
`LockAndRead` is strongly fair. A call that holds the lock ends: weak fairness of
`Conclude` and `Return`. Handlers (`apiserver.go:122,138`) and cleaner
(`cluster_cleaner.go:65`) work under a timeout. The host's exporter and revoker
(`service_exporter.go:143,166`, `lost_service_revoker.go:78`) do not: for them it
rests on the API server, or the transport, ending each request. The watch delivers
(weak fairness of `Deliver`). In the server the ticker and the cleaner's loops go on
(`Clean`), and the time of a member that is gone runs out. Nothing is assumed of
members, of the recorder or of the host's services; faults may happen at any time up
to their bound. The bound on faults stands for "the API server is not unreachable
forever", without which no cleaning can be promised.

In a member the workers run and each queued key gets its turn (strong fairness of
`Reconcile(k)`: the queue is served in order); requests that are neither lost nor
refused end; the importer's ticker fires and its goroutines are bounded by their
timeout; both watches deliver; and the informers resync, which controller-runtime
does every ten hours unless told otherwise (no `SyncPeriod` is set). Without the
resync `ExportConverges` fails after a lost lease, and `RevokeConverges` after an
export whose answer was lost: the service stops being global before the retry, the
exporter does not have its key, and the revoker had seen it while it was global.

## Proofs

All theorems hold for every value of the constants that satisfies the named
assumptions (`GlobalServiceAssumption`, `ManagerAssumption`, `HubAssumption`,
`FabDNSAssumption`, `ExporterAssumption`, `ImporterAssumption`,
`HeadlessAssumption`): any number of clusters, keys, goroutines, faults, merges,
versions, restarts, slices and endpoints.

- `GlobalServiceManagerProofs`: `TypeCorrect`, `LockAlwaysKeepsFresh`,
  `MergesAreIsolated`, `DirectDeletesLoseNobody`. The inductive invariant is
  `IInv == TypeOK /\ LockHeld /\ VersionsAgree /\ LockKeepsFresh`. Versions agree
  only because a write increases the version of what is stored and no other
  holder can have that version yet; the holder's snapshot stays fresh (uncached)
  only because nobody else is between read and write, which is `LockHeld`.
  `MergesAreIsolated` then follows: an accepted Update carries the stored
  version, so what it was computed from is the stored object. A Delete carries no
  version; `DirectDeletesLoseNobody` therefore assumes `~CachedReads` and rests on
  `LockKeepsFresh`.
- `GlobalServiceRefinement`: `DirectImplementsRegistry`, under `~CachedReads`.
  Each step of the manager maps to a step of the registry or to a stutter;
  `LockKeepsFresh` is what makes `Commit` the registry's `Effect` and `Skip` an
  effect that changes nothing. The run manager_delete shows that the assumption
  cannot be dropped.
- `ServiceHubProofs`: `HubImplementsManager` carries everything proved of the
  manager over to the server; `HubTypeCorrect`; `CleanerAlwaysSparesHost`, from
  the invariant that the host is never in the store, in a sweep or in a call of a
  handler; `NeverResurrected` and `EmptiedOnlyByHost`, for both clients and
  overlapping requests, from `Callers` (which goroutine makes which calls) and
  `WriteFromStored`: a global service that a write leaves was computed from the
  stored one, since an accepted Update carries its version and an accepted Create
  found nothing in the cache either. `RecorderAlwaysKnowsMembers` needs an
  invariant that relates the recorder to the past: a member without a lease has
  sent nothing since the restart (`Leased`), so whatever it has in a global service
  was there when the cache was filled, is in every version the cache may show
  (`InEveryVersion`), and so in the list the recorder works off (`ListHolds`), until
  the recorder enters the member (`RecordInv`). It holds for both clients.
  `ForgottenOnlyOnRequest`, for both clients as well, goes through the steps that
  may change the store (`KeysChange`) or bring endpoints in (`UploadEntersKey`): an
  upload enters its key however it ends, a key leaves only in `DeleteDone`, and the
  recorder adds only to clusters the store does not have. `HubMergesAreIsolated` is
  what the manager's `MergesAreIsolated` comes to in the whole server.
- `ServiceExporterProofs`: `ExporterTypeCorrect` and `KeySetAlwaysSettled`. The
  inductive invariant adds to `KeySetSettled` that the request the worker is making
  is the right one for the service unless the key is queued again (`WorkCurrent`):
  an event during a call must put the key back.
- `ImporterProofs`: `ImporterTypeCorrect` and `ImporterImplementsReplica`. The
  invariant says that what goroutines hold, the round has listed and the member has
  stored are versions of the host (`JobsGenuine`, `RoundGenuine`, `CopiesGenuine`),
  and, unless slow, that there is one goroutine per key (`OneJob`), that it is not
  behind the member's copies (`JobsAhead`), and that these are in order
  (`CopiesOrdered`). The order needs both: the member's cache alone may be old, but
  then the API server refuses the write.
- `FabDNSProofs`: `NearestAlways`: the switch over three lists of records
  computes the records of the endpoints at minimal distance. `AlwaysRepliedOnce`,
  `PodNameAlwaysDenotesPod`, `FabDNSTypeCorrect` follow from the invariant that the
  answer kept is the one of the query kept; `SpellingsAlwaysAgree` is a fact about
  the operators.
- `HeadlessServiceProofs`: `HeadlessTypeCorrect`, `PodsAlwaysExportedOnce`,
  `PodNamesAlwaysResolve`. The loops are proved about for lists of any length:
  `SetInduction` states induction over a set of numbers, from the well-foundedness
  of `<`, and is applied to the set of round numbers after which the loop invariant
  `Joined` holds (the map has one entry per pod met so far, with exactly the
  addresses of its endpoints, IPv4 first). The state invariant `HeadlessInv` says
  that in every version each cluster's part of the global service is what a run of
  the loops over the slices beside it made (`GoodVersion`). A merge or revocation
  that read an old version keeps this because the API server takes no Update of one
  (`Replaced`), a Delete because it leaves nothing. `PodNamesAlwaysResolve` composes
  this with the plugin's lookup of a pod name (`PodNameServed`).
  `ExportIsDetermined` is about the operators alone: if no pod is listed twice in
  one family (`OncePerFamily`), there is exactly one result, the same for every
  order of the slices; without that hypothesis the unstable sort may exchange the
  addresses of one pod.

Model-checked only: liveness (`CallsReturn`, `KnownRemainsCleaned`,
`ExportConverges`, `RevokeConverges`, `CopyConverges`), which the proof system does
not cover. Every safety property of a passing run is also proved.

## Not modelled

Flags, certificates, wiring, Corefile parsing, version display: configuration,
read once. Generated code; the e2e tests. `ClusterStore.Remove` and
`RemoveClusters`, which nothing calls. A panic of `GetEndpointsOfHeadlessService`
on an endpoint without a target reference (`service_exporter.go:200`). A request to
a Kubernetes API server that is carried out after its caller's timeout (late
requests of members to the host are modelled).

## Plan

1. `GlobalService`, `GlobalServiceRegistry`, `GlobalServiceManager`, `ServiceHub`,
   `FabDNS`: done, all safety properties proved.
2. `ServiceExporter` with the revoker of lost services, `Importer` and `Replica`,
   `HeadlessEndpoints` and `HeadlessService`: done, all safety properties proved.
3. Left: `MultiCluster`, exporter, hub and importer of several clusters in one
   model, where the lease that `ServiceExporter` takes away at will is that of
   `ServiceHub`; what is left of a member that uploads again after a restart.
