----------------------------- MODULE ServiceHub -----------------------------
(***************************************************************************)
(* service-hub in server mode: the parts that share the globalServiceManager *)
(* and the ClusterStore in the process of the host cluster.                *)
(*                                                                         *)
(*   - the handlers of the API server, which members call                  *)
(*     (src/pkg/service-hub/apiserver/apiserver.go);                       *)
(*   - the cluster store, a lease and the set of reported keys per member  *)
(*     (types/cluster.go);                                                 *)
(*   - the cleaner, which revokes what expired members reported            *)
(*     (cleaner/cluster_cleaner.go);                                       *)
(*   - the recorder, which refills the store after a restart               *)
(*     (options.go, recordGlobalServicesByCluster);                        *)
(*   - the host's own exporter and its revoker of lost services, which     *)
(*     call the manager directly.                                          *)
(*                                                                         *)
(* Members are environment: they send requests while they are up and may   *)
(* go for good.  Time is abstract: a lease that is not renewed expires at  *)
(* some moment.                                                            *)
(***************************************************************************)
EXTENDS GlobalServiceManager

CONSTANTS Host,         \* the cluster service-hub runs in as server
          Members,      \* the clusters that use the API server
          Handlers,     \* goroutines of the HTTP server
          Cleaner,      \* the goroutine of the cluster cleaner
          HostExporter, \* the worker of the host's service exporter
          HostWorkers,  \* that worker and the one of the host's lostServiceRevoker
          Portless,     \* service definitions without ports
          Overlap       \* a member may send a request before the one it has
                        \* under way is answered: its exporter and its revoker of
                        \* lost services do, and each after a client timeout

ASSUME HubAssumption ==
  /\ Host \notin Members
  /\ None \notin Members \union {Host}
  /\ Clusters = Members \union {Host}
  /\ Procs = Handlers \union {Cleaner} \union HostWorkers
  /\ Cleaner \notin Handlers /\ Cleaner \notin HostWorkers
  /\ HostWorkers \intersect Handlers = {} /\ HostExporter \in HostWorkers
  /\ Portless \subseteq Defs
  /\ Overlap \in BOOLEAN

VARIABLES
  lease,    \* per cluster: not in the store, or its expire time is ahead, or past
  keys,     \* per cluster: Cluster.serviceKeySet
  up,       \* per member: it still sends requests
  sweep,    \* the cleaner's loops: clusters to visit, the current one, its keys
  recorder  \* the recorder: not yet listed, or the services still to go through

storeVars == <<lease, keys>>
hubVars   == <<lease, keys, up, sweep, recorder>>
vars      == <<managerVars, hubVars>>

NoSweep      == [clusters |-> {}, cluster |-> None, todo |-> {}]
NotRecording == [pc |-> "starting", todo |-> {}]
Listed       == [key : Keys, clusters : SUBSET Clusters]

HubInit ==
  /\ Init
  /\ lease = [c \in Clusters |-> "absent"]
  /\ keys = [c \in Clusters |-> {}]
  /\ up = [m \in Members |-> TRUE]
  /\ sweep = NoSweep
  /\ recorder = NotRecording

----------------------------------------------------------------------------
(* The API server. *)

\* Middleware updateClusterExpireTime: create the cluster in the store if
\* need be, set its expire time ahead.
Renew(m) == lease' = [lease EXCEPT ![m] = "live"]

\* Heartbeat, GetAllGlobalServices and every request refused with status 400
\* change nothing but the lease.
Heartbeat(m) ==
  /\ up[m]
  /\ Renew(m)
  /\ UNCHANGED <<managerVars, keys, up, sweep, recorder>>

Serving(m, p) == p \in Handlers /\ pc[p] # "idle" /\ call[p].cluster = m

\* A member sends a request while it is up; serially, unless Overlap.
MaySend(m) == up[m] /\ (~Overlap => \A h \in Handlers : ~Serving(m, h))

\* MUTANT of IsValid: an upload without endpoints is let through.
IsValidAnyway(export) == export.def \notin Portless

\* The validation of an upload: ports and endpoints.  (Name and namespace are
\* those of a Service and never empty.)
IsValid(export) == export.def \notin Portless /\ export.addrs # {}

UploadGlobalService(h, m, k, export) ==
  /\ MaySend(m)
  /\ IsValid(export)
  /\ Renew(m)
  /\ Invoke(h, [op |-> "merge", cluster |-> m, key |-> k, export |-> export])
  /\ UNCHANGED <<keys, up, sweep, recorder>>

\* MUTANT of AddServiceKey: the key is recorded only if the merge succeeded.
AddServiceKeyIfOk(h) ==
  keys' = IF reply[h] = "ok"
          THEN [keys EXCEPT ![call[h].cluster] = @ \union {call[h].key}]
          ELSE keys

\* The deferred function of UploadGlobalService runs whatever the merge
\* returned.  The middleware has put the cluster into the store already.
AddServiceKey(h) ==
  keys' = [keys EXCEPT ![call[h].cluster] = @ \union {call[h].key}]

UploadDone(h) ==
  /\ call[h] # None /\ call[h].op = "merge"
  /\ Return(h)
  /\ AddServiceKey(h)
  /\ UNCHANGED <<lease, up, sweep, recorder>>

deleteEndpoints(h, m, k) ==
  /\ MaySend(m)
  /\ Renew(m)
  /\ Invoke(h, [op |-> "revoke", cluster |-> m, key |-> k])
  /\ UNCHANGED <<keys, up, sweep, recorder>>

\* MUTANT of RemoveServiceKey: the cluster leaves the store with its key.
RemoveServiceKeySet(h) == keys' = [c \in Clusters \ {call[h].cluster} |-> keys[c]]

\* The key leaves the store only if the revocation returned nil.
RemoveServiceKey(h) ==
  keys' = IF reply[h] = "ok"
          THEN [keys EXCEPT ![call[h].cluster] = @ \ {call[h].key}]
          ELSE keys

DeleteDone(h) ==
  /\ call[h] # None /\ call[h].op = "revoke"
  /\ Return(h)
  /\ RemoveServiceKey(h)
  /\ UNCHANGED <<lease, up, sweep, recorder>>

----------------------------------------------------------------------------
(* The host's exporter and revoker: the manager's functions without the    *)
(* API server, so that neither the validation nor the store is involved.   *)

HostExport(k, export) ==
  /\ Invoke(HostExporter, [op |-> "merge", cluster |-> Host, key |-> k, export |-> export])
  /\ UNCHANGED hubVars

HostRevoke(w, k) ==
  /\ Invoke(w, [op |-> "revoke", cluster |-> Host, key |-> k])
  /\ UNCHANGED hubVars

HostDone(w) == Return(w) /\ UNCHANGED hubVars

----------------------------------------------------------------------------
(* The environment: time passes, members go. *)

Expire(c) ==
  /\ lease[c] = "live"
  /\ lease' = [lease EXCEPT ![c] = "expired"]
  /\ UNCHANGED <<managerVars, keys, up, sweep, recorder>>

Leave(m) ==
  /\ up[m]
  /\ up' = [up EXCEPT ![m] = FALSE]
  /\ UNCHANGED <<managerVars, lease, keys, sweep, recorder>>

----------------------------------------------------------------------------
(* The cluster cleaner. *)

IsExpired(c) == lease[c] = "expired"

\* The ticker fires: GetExpiredClusters.  Without an expired cluster the
\* round is over at once.
Tick ==
  /\ sweep = NoSweep
  /\ \E c \in Clusters : IsExpired(c)
  /\ sweep' = [NoSweep EXCEPT !.clusters = {c \in Clusters : IsExpired(c)}]
  /\ UNCHANGED <<managerVars, storeVars, up, recorder>>

\* The outer loop takes a cluster: GetAllServiceKeys.
NextCluster ==
  /\ sweep.todo = {} /\ pc[Cleaner] = "idle"
  /\ \E c \in sweep.clusters :
       sweep' = [clusters |-> sweep.clusters \ {c}, cluster |-> c, todo |-> keys[c]]
  /\ UNCHANGED <<managerVars, storeVars, up, recorder>>

\* The inner loop takes a key and revokes it if the cluster is still expired.
\* The endpoints are removed only once the lock is taken.
CleanKey(k) ==
  /\ k \in sweep.todo
  /\ IsExpired(sweep.cluster)
  /\ Invoke(Cleaner, [op |-> "revoke", cluster |-> sweep.cluster, key |-> k])
  /\ UNCHANGED hubVars

\* break inner: the cluster is back.
BreakInner ==
  /\ sweep.todo # {} /\ pc[Cleaner] = "idle"
  /\ ~IsExpired(sweep.cluster)
  /\ sweep' = [sweep EXCEPT !.todo = {}]
  /\ UNCHANGED <<managerVars, storeVars, up, recorder>>

\* An error is logged only.  The keys of the cluster stay in the store, and
\* the next round revokes them all again.
CleanDone ==
  /\ Return(Cleaner)
  /\ sweep' = [sweep EXCEPT !.todo = @ \ {call[Cleaner].key}]
  /\ UNCHANGED <<storeVars, up, recorder>>

\* MUTANT of RoundDone: the loop is left after one round.
RoundDoneForGood ==
  /\ sweep # NoSweep
  /\ sweep.clusters = {} /\ sweep.todo = {} /\ pc[Cleaner] = "idle"
  /\ UNCHANGED vars

\* The round is over; the loop waits for the next tick.
RoundDone ==
  /\ sweep # NoSweep
  /\ sweep.clusters = {} /\ sweep.todo = {} /\ pc[Cleaner] = "idle"
  /\ sweep' = NoSweep
  /\ UNCHANGED <<managerVars, storeVars, up, recorder>>

----------------------------------------------------------------------------
(* The recorder, one goroutine per start of the process. *)

ClustersOf(spec) == {e.cluster : e \in EndpointsOf(spec)}

RecordList ==
  /\ recorder.pc = "starting"
  /\ recorder' = [pc |-> "recording",
                  todo |-> {l \in Listed : /\ l.clusters = ClustersOf(Read(l.key).spec)
                                           /\ l.clusters # {}}]
  /\ UNCHANGED <<managerVars, storeVars, up, sweep>>

\* The List fails: logged, nothing is recorded.
RecordFails ==
  /\ recorder.pc = "starting"
  /\ recorder' = [recorder EXCEPT !.pc = "failed"]
  /\ UNCHANGED <<managerVars, storeVars, up, sweep>>

\* MUTANT of Recordable: the host's own endpoints are recorded as well.
RecordableWithHost(clusters) == {c \in clusters : lease[c] = "absent"}

\* MUTANT of Recordable: the loop over the endpoints ends at one of the host.
RecordableUntilHost(clusters) ==
  {c \in clusters : Host \notin clusters /\ lease[c] = "absent"}

\* The clusters of one global service that the recorder enters: not the host,
\* and none the store knows already, from a request or from another service.
Recordable(clusters) == {c \in clusters : c # Host /\ lease[c] = "absent"}

\* One global service of the list, all its endpoints.
RecordOne ==
  /\ recorder.pc = "recording"
  /\ \E l \in recorder.todo :
       /\ lease' = [c \in Clusters |->
                      IF c \in Recordable(l.clusters) THEN "live" ELSE lease[c]]
       /\ keys' = [c \in Clusters |->
                      IF c \in Recordable(l.clusters) THEN {l.key} ELSE keys[c]]
       /\ recorder' = [recorder EXCEPT !.todo = @ \ {l}]
  /\ UNCHANGED <<managerVars, up, sweep>>

RecordDone ==
  /\ recorder.pc = "recording" /\ recorder.todo = {}
  /\ recorder' = [recorder EXCEPT !.pc = "done"]
  /\ UNCHANGED <<managerVars, storeVars, up, sweep>>

\* The store lives in memory: a restart empties it.
HubRestart ==
  /\ Restart
  /\ lease' = [c \in Clusters |-> "absent"]
  /\ keys' = [c \in Clusters |-> {}]
  /\ sweep' = NoSweep
  /\ recorder' = NotRecording
  /\ UNCHANGED up

----------------------------------------------------------------------------
Request(m) ==
  \/ Heartbeat(m)
  \/ \E h \in Handlers, k \in Keys :
       \/ \E x \in Exports : UploadGlobalService(h, m, k, x)
       \/ deleteEndpoints(h, m, k)

Handle(h) == UploadDone(h) \/ DeleteDone(h)

HostStep ==
  \/ \E k \in Keys, x \in Exports : HostExport(k, x)
  \/ \E w \in HostWorkers : HostDone(w) \/ \E k \in Keys : HostRevoke(w, k)

Clean == Tick \/ NextCluster \/ BreakInner \/ RoundDone \/ \E k \in Keys : CleanKey(k)

Record == RecordList \/ RecordFails \/ RecordOne \/ RecordDone

ManagerStep == (\E p \in Procs : Step(p)) \/ (\E k \in Keys : Deliver(k))

HubNext ==
  \/ \E m \in Members : Request(m) \/ Leave(m)
  \/ \E c \in Clusters : Expire(c)
  \/ \E h \in Handlers : Handle(h)
  \/ HostStep
  \/ Clean
  \/ CleanDone
  \/ Record
  \/ ManagerStep /\ UNCHANGED hubVars
  \/ HubRestart

HubSpec == HubInit /\ [][HubNext]_vars

(***************************************************************************)
(* Fairness: of calls and the watch as in GlobalServiceManager; the ticker *)
(* and the loops of the cleaner run on; the time of a cluster that sends   *)
(* nothing any more runs out.  Nothing is assumed of members, of the       *)
(* host's services or of the recorder.                                     *)
(***************************************************************************)
HubFairness ==
  /\ CallFairness
  /\ WatchFairness
  /\ WF_vars(Clean)
  /\ \A m \in Members : WF_vars(~up[m] /\ Expire(m))

FairHubSpec == HubSpec /\ HubFairness

----------------------------------------------------------------------------
(* Properties. *)

HubTypeOK ==
  /\ TypeOK
  /\ lease \in [Clusters -> {"absent", "live", "expired"}]
  /\ keys \in [Clusters -> SUBSET Keys]
  /\ up \in [Members -> BOOLEAN]
  /\ sweep \in [clusters : SUBSET Clusters, cluster : Clusters \union {None},
                todo : SUBSET Keys]
  /\ recorder \in [pc : {"starting", "recording", "done", "failed"}, todo : SUBSET Listed]

Has(c, k) == \E e \in EndpointsOf(live[k].spec) : e.cluster = c

Uploading(m, k) ==
  \E h \in Handlers : Serving(m, h) /\ call[h].op = "merge" /\ call[h].key = k

\* What a member has in a global service is in the store under its name, or
\* an upload that will put it there is under way: the cleaner will find it.
Tracked(m, k) == Has(m, k) => k \in keys[m] \/ Uploading(m, k)

\* A deletion of the member itself is answered, with success.
Deleted(m, k) ==
  \E h \in Handlers :
    /\ Serving(m, h) /\ call[h].op = "revoke" /\ call[h].key = k
    /\ pc[h] = "returned" /\ reply[h] = "ok" /\ pc'[h] = "idle"

\* What the cleaner can find of a member stays in its sight, whatever uploads
\* fail after they took effect, whatever the cache shows, the recorder enters
\* and the cleaner is at: only a deletion that the member asked for and that
\* was answered with success, or a restart, lets the store forget it.
ForgottenOnRequest ==
  [][\A m \in Members, k \in Keys :
       (Tracked(m, k) /\ ~Tracked(m, k)') => Deleted(m, k) \/ nrestarts' # nrestarts]_vars

\* The cleaner never revokes the endpoints of the host, which sends no
\* heartbeat: the host is never entered into the store, not by the recorder
\* either.
CleanerSparesHost == pc[Cleaner] # "idle" => call[Cleaner].cluster # Host

\* A global service without endpoints is only ever written for the host,
\* whose exporter bypasses the validation of the API server; what is left
\* empty by a revocation is deleted.
EmptyOnlyByHost ==
  [][\A k \in Keys :
       (live'[k] # live[k] /\ live'[k].spec # Absent /\ EndpointsOf(live'[k].spec) = {})
         => pc[HostExporter] = "holding" /\ call[HostExporter].key = k]_vars

\* Endpoints of a member appear in a global service only by an upload of that
\* member: no write of another cluster that was read from a stale cache
\* brings back what the cleaner or a deletion has removed.
NoResurrection ==
  [][\A m \in Members, k \in Keys : (~Has(m, k) /\ Has(m, k)') => Uploading(m, k)]_vars

\* Of a member that is gone nothing is left in the end that the store knows of,
\* in spite of errors the cleaner only logs, of revocations that a stale cache
\* answers with nothing to do, and of uploads that come in late.
KnownRemainsCleaned ==
  \A m \in Members, k \in Keys : <>[]((~up[m] /\ k \in keys[m]) => ~Has(m, k))

\* The cleaner takes endpoints only from a cluster that is expired.
CleansOnlyExpired ==
  [][\A m \in Members, k \in Keys :
       (Has(m, k) /\ ~Has(m, k)' /\ pc[Cleaner] = "holding" /\ pc'[Cleaner] = "returned"
          /\ call[Cleaner].cluster = m) => IsExpired(m)]_vars

\* Once the recorder is through, the store knows what each member has in
\* global services.
RecorderComplete ==
  recorder.pc = "done" => \A m \in Members, k \in Keys : Tracked(m, k)

\* Once the recorder is through, no member with endpoints in some global
\* service is missing from the store, though the list came from a stale cache
\* and members and cleaner were at work meanwhile: its lease can run out, so
\* that the cleaner gets to know of every member that never comes back.
RecorderKnowsMembers ==
  recorder.pc = "done" =>
    \A m \in Members : (\E k \in Keys : Has(m, k)) => lease[m] # "absent"

=============================================================================
