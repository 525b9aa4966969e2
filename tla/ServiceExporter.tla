-------------------------- MODULE ServiceExporter --------------------------
(***************************************************************************)
(* The two controllers of service-hub that report the services of their    *)
(* cluster (src/pkg/service-hub/exporter): serviceExporter, which follows  *)
(* Services and their EndpointSlices, and lostServiceRevoker, which        *)
(* follows GlobalServices.  Each has one worker and a work queue of keys.  *)
(* In client mode they call the API server of the host through the HTTP    *)
(* client (client/client.go), in server mode the manager itself.           *)
(*                                                                         *)
(* Of the host's global service only the endpoints of this cluster matter  *)
(* here; its copy in this cluster also shows those of others.  The host    *)
(* handles a request in one step, as GlobalServiceManager with an uncached *)
(* client does.  A client that gives up on a request leaves it on its way: *)
(* it may still arrive.  Services are as the informer cache shows          *)
(* them; a change of the cache is an event, which adds the key to the      *)
(* queue.                                                                  *)
(***************************************************************************)
EXTENDS Naturals, FiniteSets

CONSTANTS Keys,        \* namespace/name of services
          Services,    \* the services a key may have in the course of time
          Endpoints,   \* endpoints of this cluster: a service or a pod each
          Foreign,     \* endpoints of other clusters
          None,        \* no service, no work
          MaxChanges,  \* bound on changes of services
          MaxFaults,   \* bound on failed, lost or late requests and lost leases
          MaxRestarts  \* bound on restarts of service-hub

ServiceType ==
  [global : BOOLEAN, type : {"ClusterIP", "NodePort"}, ports : BOOLEAN,
   eps : SUBSET Endpoints]

Requests == [op : {"export"}, key : Keys, ports : BOOLEAN, eps : SUBSET Endpoints]
              \union [op : {"revoke"}, key : Keys]

ASSUME ExporterAssumption ==
  /\ Services \subseteq ServiceType
  /\ None \notin ServiceType \union Requests \union Keys
  /\ Foreign \intersect Endpoints = {}
  /\ MaxChanges \in Nat /\ MaxFaults \in Nat /\ MaxRestarts \in Nat

VARIABLES
  svc,           \* per key, the Service with the endpoints of its EndpointSlices
  hub,           \* per key, this cluster's endpoints in the host's global service
  local,         \* per key, all endpoints in the global service of this cluster
  serviceKeySet, \* serviceExporter.serviceKeySet
  queue, lost,   \* the work queues of serviceExporter and lostServiceRevoker
  exporter,      \* the worker of serviceExporter: its key and the request it makes
  revoker,       \* the worker of lostServiceRevoker: its key, the endpoints to go through
  late,          \* requests on their way that the client has given up
  serverMode,    \* configuration: the host itself, without HTTP and validation
  nchanges, nfaults, nrestarts

counters == <<nchanges, nfaults, nrestarts>>
rest     == <<serverMode, counters>>
vars == <<svc, hub, local, serviceKeySet, queue, lost, exporter, revoker, late,
          serverMode, nchanges, nfaults, nrestarts>>

Revoke(k) == [op |-> "revoke", key |-> k]
Export(k) == [op |-> "export", key |-> k, ports |-> svc[k].ports, eps |-> svc[k].eps]

NoWork == [key |-> None, todo |-> {}]

Init ==
  /\ svc = [k \in Keys |-> None]
  /\ hub = [k \in Keys |-> {}]
  /\ local = [k \in Keys |-> {}]
  /\ serviceKeySet = {}
  /\ queue = {} /\ lost = {}
  /\ exporter = None
  /\ revoker = NoWork
  /\ late = {}
  /\ serverMode \in BOOLEAN
  /\ nchanges = 0 /\ nfaults = 0 /\ nrestarts = 0

Fault == nfaults < MaxFaults /\ nfaults' = nfaults + 1

----------------------------------------------------------------------------
(* The host. *)

\* UploadGlobalService of the API server refuses a service without ports or
\* without endpoints, both of which a headless Service may lack.  (Name and
\* namespace are those of a Service and never empty.)
Valid(r) == (~serverMode /\ r.op = "export") => r.ports /\ r.eps # {}

\* What the host makes of a request that it takes.
Handle(r) == hub' = [hub EXCEPT ![r.key] = IF r.op = "export" THEN r.eps ELSE {}]

\* A request the client has given up arrives after all.
ArriveLate(r) ==
  /\ r \in late
  /\ IF Valid(r) THEN Handle(r) ELSE UNCHANGED hub
  /\ late' = late \ {r}
  /\ UNCHANGED <<svc, local, serviceKeySet, queue, lost, exporter, revoker, rest>>

\* The cluster was cut off for longer than its lease and the host's cleaner
\* has revoked its endpoints.
LeaseLost(k) ==
  /\ ~serverMode
  /\ hub[k] # {}
  /\ Fault
  /\ hub' = [hub EXCEPT ![k] = {}]
  /\ UNCHANGED <<svc, local, serviceKeySet, queue, lost, exporter, revoker, late,
                 serverMode, nchanges, nrestarts>>

\* The global service of this cluster follows the host's (the importer, or in
\* server mode the watch), which has any endpoints of other clusters: an event
\* for lostServiceRevoker.
Import(k) ==
  /\ \E others \in SUBSET Foreign :
       /\ local[k] # hub[k] \union others
       /\ local' = [local EXCEPT ![k] = hub[k] \union others]
  /\ lost' = lost \union {k}
  /\ UNCHANGED <<svc, hub, serviceKeySet, queue, exporter, revoker, late, rest>>

----------------------------------------------------------------------------
(* Services and events. *)

Change(k, s) ==
  /\ nchanges < MaxChanges /\ nchanges' = nchanges + 1
  /\ svc[k] # s
  /\ svc' = [svc EXCEPT ![k] = s]
  /\ queue' = queue \union {k}
  /\ UNCHANGED <<hub, local, serviceKeySet, lost, exporter, revoker, late, serverMode,
                 nfaults, nrestarts>>

Existing == {k \in Keys : svc[k] # None}
Known    == {k \in Keys : local[k] # {}}

\* The informers resync: every object is an event again.
Resync ==
  /\ queue' = queue \union Existing
  /\ lost' = lost \union Known
  /\ UNCHANGED <<svc, hub, local, serviceKeySet, exporter, revoker, late, rest>>

----------------------------------------------------------------------------
(* serviceExporter *)

isGlobalService(s) == s.global

shouldSkipService(s) == ~isGlobalService(s) \/ s.type # "ClusterIP"

Skipped(k) == svc[k] = None \/ shouldSkipService(svc[k])

\* MUTANT of Request: what has been exported before is left alone.
RequestOnce(k) ==
  IF Skipped(k)
  THEN IF k \in serviceKeySet THEN Revoke(k) ELSE None
  ELSE IF k \in serviceKeySet THEN None ELSE Export(k)

\* The request Reconcile ends with, or none.
Request(k) ==
  IF Skipped(k)
  THEN IF k \in serviceKeySet THEN Revoke(k) ELSE None
  ELSE Export(k)

\* The worker takes a key and reads the service.  (A failed read puts the key
\* back, as if it had not been taken.)
Reconcile(k) ==
  /\ exporter = None
  /\ k \in queue
  /\ queue' = queue \ {k}
  /\ exporter' = Request(k)
  /\ UNCHANGED <<svc, hub, local, serviceKeySet, lost, revoker, late, rest>>

\* MUTANT of Remember: a revoked key stays in the set.
RememberForever(r) == serviceKeySet' = serviceKeySet \union {r.key}

\* The end of Reconcile and of revokeGlobalService after success.
Remember(r) ==
  serviceKeySet' = IF r.op = "export" THEN serviceKeySet \union {r.key}
                                      ELSE serviceKeySet \ {r.key}

ExporterSucceeds ==
  /\ exporter # None
  /\ Valid(exporter)
  /\ Handle(exporter)
  /\ Remember(exporter)
  /\ exporter' = None
  /\ UNCHANGED <<svc, local, queue, lost, revoker, late, rest>>

\* An error makes the controller put the key back.
Retry == queue' = queue \union {exporter.key} /\ exporter' = None

\* Status 400.
ExporterRefused ==
  /\ exporter # None
  /\ ~Valid(exporter)
  /\ Retry
  /\ UNCHANGED <<svc, hub, local, serviceKeySet, lost, revoker, late, rest>>

\* Status 500, a lost answer, or a timeout: the request has no effect, has had
\* its effect, or will have it.
ExporterFails ==
  /\ exporter # None
  /\ Fault
  /\ \/ UNCHANGED <<hub, late>>
     \/ Valid(exporter) /\ Handle(exporter) /\ UNCHANGED late
     \/ ~serverMode /\ late' = late \union {exporter} /\ UNCHANGED hub
  /\ Retry
  /\ UNCHANGED <<svc, local, serviceKeySet, lost, revoker, serverMode, nchanges, nrestarts>>

----------------------------------------------------------------------------
(* lostServiceRevoker *)

\* MUTANT of IsLost: only deleted services are looked for.
IsLostDeleted(k) == svc[k] = None

\* No such service, or one that is not global any more.
IsLost(k) == svc[k] = None \/ ~isGlobalService(svc[k])

\* MUTANT of Expired: the cluster of an endpoint is not looked at.
ExpiredOfAll(k) == local[k]

\* The endpoints of this cluster that a lost service has left behind.
Expired(k) == local[k] \intersect Endpoints

\* The worker takes a key and reads the global service and the service.
ReconcileLost(k) ==
  /\ revoker = NoWork
  /\ k \in lost
  /\ lost' = lost \ {k}
  /\ revoker' = IF IsLost(k) /\ Expired(k) # {} THEN [key |-> k, todo |-> Expired(k)]
                                               ELSE NoWork
  /\ UNCHANGED <<svc, hub, local, serviceKeySet, queue, exporter, late, rest>>

\* The loop goes on with the next endpoint, or is over.
NextEndpoint ==
  \E e \in revoker.todo :
    revoker' = IF revoker.todo = {e} THEN NoWork ELSE [revoker EXCEPT !.todo = @ \ {e}]

\* One call for each endpoint of this cluster.
RevokerSucceeds ==
  /\ revoker # NoWork
  /\ Handle(Revoke(revoker.key))
  /\ NextEndpoint
  /\ UNCHANGED <<svc, local, serviceKeySet, queue, lost, exporter, late, rest>>

\* An error is logged, nothing is put back.
RevokerFails ==
  /\ revoker # NoWork
  /\ Fault
  /\ \/ UNCHANGED <<hub, late>>
     \/ ~serverMode /\ late' = late \union {Revoke(revoker.key)} /\ UNCHANGED hub
  /\ NextEndpoint
  /\ UNCHANGED <<svc, local, serviceKeySet, queue, lost, exporter, serverMode, nchanges, nrestarts>>

----------------------------------------------------------------------------
\* The requests the workers are making.
InFlight ==
  ({exporter} \ {None})
    \union (IF revoker = NoWork THEN {} ELSE {Revoke(revoker.key)})

\* A restart: the set and the work are gone, all existing objects are events.
\* The requests of the workers may have been sent.
Restart ==
  /\ nrestarts < MaxRestarts /\ nrestarts' = nrestarts + 1
  /\ serviceKeySet' = {}
  /\ queue' = Existing
  /\ lost' = Known
  /\ exporter' = None
  /\ revoker' = NoWork
  /\ \E sent \in SUBSET InFlight : late' = late \union sent
  /\ UNCHANGED <<svc, hub, local, serverMode, nchanges, nfaults>>

ExporterStep == ExporterSucceeds \/ ExporterRefused

Next ==
  \/ \E k \in Keys :
       \/ \E s \in Services \union {None} : Change(k, s)
       \/ LeaseLost(k) \/ Import(k)
       \/ Reconcile(k) \/ ReconcileLost(k)
  \/ \E r \in late : ArriveLate(r)
  \/ ExporterStep \/ ExporterFails
  \/ RevokerSucceeds \/ RevokerFails
  \/ Resync
  \/ Restart

Spec == Init /\ [][Next]_vars

(***************************************************************************)
(* Fairness: the workers run; each key of a queue gets its turn; requests  *)
(* that are not lost arrive; the importer's rounds go on; the informers of *)
(* controller-runtime resync every ten hours.                              *)
(***************************************************************************)
Fairness ==
  /\ WF_vars(ExporterStep)
  /\ WF_vars(RevokerSucceeds)
  /\ WF_vars(\E r \in late : ArriveLate(r))
  /\ WF_vars(Resync)
  /\ \A k \in Keys :
       /\ WF_vars(Import(k))
       /\ SF_vars(Reconcile(k))
       /\ SF_vars(ReconcileLost(k))

FairSpec == Spec /\ Fairness

----------------------------------------------------------------------------
(* Properties. *)

ExporterTypeOK ==
  /\ svc \in [Keys -> Services \union {None}]
  /\ hub \in [Keys -> SUBSET Endpoints]
  /\ local \in [Keys -> SUBSET (Endpoints \union Foreign)]
  /\ serviceKeySet \subseteq Keys
  /\ queue \subseteq Keys /\ lost \subseteq Keys
  /\ exporter \in Requests \union {None}
  /\ revoker \in [key : Keys, todo : SUBSET Endpoints] \union {NoWork}
  /\ late \subseteq Requests
  /\ serverMode \in BOOLEAN
  /\ nchanges \in 0 .. MaxChanges
  /\ nfaults \in 0 .. MaxFaults
  /\ nrestarts \in 0 .. MaxRestarts

\* The exporter has nothing to do for a key.
Settled(k) == k \notin queue /\ (exporter = None \/ exporter.key # k)

\* Whenever the exporter is done with a key, it remembers the key exactly if
\* the service is one to be exported: no event during a call, no failed call
\* and no restart makes it forget a service it has to revoke one day, or
\* remember one that it has not exported.
KeySetSettled ==
  \A k \in Keys : Settled(k) => (k \in serviceKeySet <=> ~Skipped(k))

\* Once services are quiet, the host has the endpoints of every service to be
\* exported, in spite of lost, late and repeated requests, of lostServiceRevoker
\* acting on an older state of the service, of a lost lease and of restarts.
\* Excepted is an export of a member without ports or without endpoints, which
\* the API server refuses at each retry: then the host keeps what it had.
ExportConverges ==
  \A k \in Keys :
    <>[]((~Skipped(k) /\ Valid(Export(k))) => hub[k] = svc[k].eps)

\* Once services are quiet, the host has no endpoint of a service that is gone
\* or not global any more, whatever the exporter has forgotten.
RevokeConverges ==
  \A k \in Keys : <>[]((svc[k] # None => ~svc[k].global) => hub[k] = {})

\* Once services are quiet, the host has exactly the endpoints of the services
\* to be exported.
HubFollowsServices ==
  \A k \in Keys : <>[](hub[k] = IF Skipped(k) THEN {} ELSE svc[k].eps)

=============================================================================
