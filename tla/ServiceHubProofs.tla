-------------------------- MODULE ServiceHubProofs --------------------------
(***************************************************************************)
(* Proofs about ServiceHub: it uses the manager as GlobalServiceManager    *)
(* says, so that what is proved there holds of the whole process; its      *)
(* cleaner never turns against the host; its recorder overlooks no member  *)
(* that has endpoints in a global service; and its store forgets what it   *)
(* knows of a member only when the member has it deleted.                  *)
(***************************************************************************)
EXTENDS ServiceHub, GlobalServiceManagerProofs

\* A call with a cluster and a key of the system is a call of the manager.
LEMMA CallForms ==
  ASSUME NEW c \in Clusters, NEW k \in Keys
  PROVE  /\ [op |-> "revoke", cluster |-> c, key |-> k] \in Calls
         /\ \A x \in Exports :
              [op |-> "merge", cluster |-> c, key |-> k, export |-> x] \in Calls
BY DEF Calls, MergeCalls, RevokeCalls

\* The processes of the hub are processes of the manager.
LEMMA HubProcs ==
  /\ Cleaner \in Procs /\ HostWorkers \subseteq Procs /\ HostExporter \in HostWorkers
  /\ Handlers \subseteq Procs /\ Members \subseteq Clusters /\ Host \in Clusters
BY HubAssumption

\* The type of the hub's own state; a sweep with keys left is of a cluster.
HubStateOK ==
  /\ up \in [Members -> BOOLEAN]
  /\ sweep \in [clusters : SUBSET Clusters, cluster : Clusters \union {None},
                todo : SUBSET Keys]
  /\ keys \in [Clusters -> SUBSET Keys]
  /\ lease \in [Clusters -> {"absent", "live", "expired"}]
  /\ sweep.todo # {} => sweep.cluster \in Clusters
  /\ recorder \in [pc : {"starting", "recording", "done", "failed"}, todo : SUBSET Listed]

\* A step of the hub keeps the type of its state.
LEMMA HubStateStep == HubStateOK /\ TypeOK /\ [HubNext]_vars => HubStateOK'
<1> SUFFICES ASSUME HubStateOK, TypeOK, [HubNext]_vars PROVE HubStateOK'
  OBVIOUS
<1> USE HubProcs DEF HubStateOK
<1>1. CASE UNCHANGED hubVars
  BY <1>1 DEF hubVars
<1>2. ASSUME NEW m \in Members, Request(m) \/ Leave(m) PROVE HubStateOK'
  BY <1>2 DEF Request, Leave, Heartbeat, UploadGlobalService, deleteEndpoints, Renew
<1>3. ASSUME NEW c \in Clusters, Expire(c) PROVE HubStateOK'
  BY <1>3 DEF Expire
<1>4. ASSUME NEW h \in Handlers, Handle(h) PROVE HubStateOK'
  <2>1. call[h] \in Calls
    BY <1>4 DEF Handle, UploadDone, DeleteDone, Return, TypeOK
  <2>2. call[h].key \in Keys /\ call[h].cluster \in Clusters
    BY <2>1 DEF Calls, MergeCalls, RevokeCalls
  <2>3. CASE UploadDone(h)
    BY <2>2, <2>3 DEF UploadDone, AddServiceKey
  <2>4. CASE DeleteDone(h)
    BY <2>2, <2>4 DEF DeleteDone, RemoveServiceKey
  <2> QED
    BY <1>4, <2>3, <2>4 DEF Handle
<1>5. CASE Tick
  BY <1>5, HubAssumption DEF Tick, NoSweep, storeVars
<1>6. CASE NextCluster
  <2>1. PICK c \in sweep.clusters :
          sweep' = [clusters |-> sweep.clusters \ {c}, cluster |-> c, todo |-> keys[c]]
    BY <1>6 DEF NextCluster
  <2> QED
    BY <1>6, <2>1 DEF NextCluster, storeVars
<1>7. CASE BreakInner \/ CleanDone \/ RoundDone
  BY <1>7 DEF BreakInner, CleanDone, RoundDone, NoSweep, storeVars
<1>8. CASE RecordList
  BY <1>8 DEF RecordList, storeVars
<1>9. CASE RecordFails \/ RecordDone
  BY <1>9 DEF RecordFails, RecordDone, storeVars
<1>10. CASE RecordOne
  <2>1. PICK l \in recorder.todo :
          /\ lease' = [c \in Clusters |->
                         IF c \in Recordable(l.clusters) THEN "live" ELSE lease[c]]
          /\ keys' = [c \in Clusters |->
                         IF c \in Recordable(l.clusters) THEN {l.key} ELSE keys[c]]
          /\ recorder' = [recorder EXCEPT !.todo = @ \ {l}]
    BY <1>10 DEF RecordOne
  <2>2. l.key \in Keys
    BY DEF Listed
  <2> QED
    BY <1>10, <2>1, <2>2 DEF RecordOne
<1>11. CASE HubRestart
  BY <1>11 DEF HubRestart, NoSweep, NotRecording
<1> QED
  BY <1>1, <1>2, <1>3, <1>4, <1>5, <1>6, <1>7, <1>8, <1>9, <1>10, <1>11
     DEF HubNext, HostStep, HostExport, HostRevoke, HostDone, Clean, CleanKey, Record, vars,
         hubVars

\* Every step of the hub is a step of the manager or leaves it alone.
LEMMA HubStepIsManagerStep ==
  ASSUME HubStateOK, [HubNext]_vars
  PROVE  [Next]_managerVars
<1> USE HubProcs
<1>1. ASSUME NEW m \in Members, Request(m) \/ Leave(m) PROVE [Next]_managerVars
  <2>1. ASSUME NEW h \in Handlers, NEW k \in Keys, NEW x \in Exports,
               UploadGlobalService(h, m, k, x)
        PROVE  Next
    BY <2>1, CallForms DEF UploadGlobalService, Next
  <2>2. ASSUME NEW h \in Handlers, NEW k \in Keys, deleteEndpoints(h, m, k) PROVE Next
    BY <2>2, CallForms DEF deleteEndpoints, Next
  <2> QED
    BY <1>1, <2>1, <2>2 DEF Request, Heartbeat, Leave
<1>2. ASSUME NEW c \in Clusters, Expire(c) PROVE [Next]_managerVars
  BY <1>2 DEF Expire
<1>3. ASSUME NEW h \in Handlers, Handle(h) PROVE [Next]_managerVars
  BY <1>3 DEF Handle, UploadDone, DeleteDone, Next
<1>4. CASE HostStep
  <2>1. ASSUME NEW k \in Keys, NEW x \in Exports, HostExport(k, x) PROVE Next
    BY <2>1, CallForms DEF HostExport, Next
  <2>2. ASSUME NEW w \in HostWorkers, NEW k \in Keys, HostRevoke(w, k) PROVE Next
    BY <2>2, CallForms DEF HostRevoke, Next
  <2>3. ASSUME NEW w \in HostWorkers, HostDone(w) PROVE Next
    BY <2>3 DEF HostDone, Next
  <2> QED
    BY <1>4, <2>1, <2>2, <2>3 DEF HostStep
<1>5. CASE Clean
  <2>1. ASSUME NEW k \in Keys, CleanKey(k) PROVE Next
    <3>1. sweep.cluster \in Clusters
      BY <2>1 DEF CleanKey, HubStateOK
    <3> QED
      BY <2>1, <3>1, CallForms DEF CleanKey, Next
  <2> QED
    BY <1>5, <2>1 DEF Clean, Tick, NextCluster, BreakInner, RoundDone
<1>6. CASE CleanDone
  BY <1>6 DEF CleanDone, Next
<1>7. CASE Record
  BY <1>7 DEF Record, RecordList, RecordFails, RecordOne, RecordDone
<1>8. CASE ManagerStep
  BY <1>8 DEF ManagerStep, Next
<1>9. CASE HubRestart
  BY <1>9 DEF HubRestart, Next
<1>10. CASE UNCHANGED vars
  BY <1>10 DEF vars
<1> QED
  BY <1>1, <1>2, <1>3, <1>4, <1>5, <1>6, <1>7, <1>8, <1>9, <1>10 DEF HubNext

\* The types hold of the whole process.
LEMMA HubTypes == HubSpec => [](TypeOK /\ HubStateOK)
<1>1. HubInit => TypeOK /\ HubStateOK
  BY MissingType, ManagerAssumption, HubProcs
     DEF HubInit, Init, TypeOK, HubStateOK, NoSweep, NotRecording
<1>2. (TypeOK /\ HubStateOK) /\ [HubNext]_vars => (TypeOK /\ HubStateOK)'
  BY HubStepIsManagerStep, HubStateStep, TypeStep
<1> QED
  BY <1>1, <1>2, PTL DEF HubSpec

\* The store, the cleaner's loops and the recorder keep their shape along with
\* the state of the manager.
THEOREM HubTypeCorrect == HubSpec => []HubTypeOK
<1>1. TypeOK /\ HubStateOK => HubTypeOK
  BY DEF HubStateOK, HubTypeOK
<1> QED
  BY <1>1, HubTypes, PTL

\* API server, cleaner, exporter, recorder and restarts together use the
\* manager as GlobalServiceManager describes: its theorems hold of the hub.
THEOREM HubImplementsManager == HubSpec => Spec
<1>1. HubInit => Init
  BY DEF HubInit
<1>2. HubStateOK /\ [HubNext]_vars => [Next]_managerVars
  BY HubStepIsManagerStep
<1> QED
  BY <1>1, <1>2, HubTypes, PTL DEF HubSpec, Spec

\* The manager's invariant holds in the hub.
LEMMA HubManagerInvariant == HubSpec => []IInv
BY HubImplementsManager, Invariant, PTL

----------------------------------------------------------------------------
(* The cleaner and the host. *)

\* The host is not in the store, and so not in the cleaner's hands either.
HostApart ==
  /\ lease[Host] = "absent"
  /\ Host \notin sweep.clusters
  /\ sweep.cluster # Host
  /\ pc[Cleaner] # "idle" => call[Cleaner].cluster # Host

\* The steps of a call do not change what the call is.
LEMMA StepKeepsCall ==
  ASSUME TypeOK, NEW p \in Procs, Step(p)
  PROVE  /\ call' = call
         /\ pc[p] # "idle"
         /\ \A q \in Procs : pc'[q] # "idle" <=> pc[q] # "idle"
BY DEF Step, LockAndRead, ReadFails, Skip, Commit, Reject, LoseRequest, LoseReply, Finish,
       TypeOK

\* Every step keeps the host apart.
LEMMA HostApartStep ==
  TypeOK /\ HubStateOK /\ HostApart /\ [HubNext]_vars => HostApart'
<1> SUFFICES ASSUME TypeOK, HubStateOK, HostApart, [HubNext]_vars PROVE HostApart'
  OBVIOUS
<1> USE HubProcs, HubAssumption DEF HostApart
<1>1. ASSUME NEW m \in Members, Request(m) \/ Leave(m) PROVE HostApart'
  <2>1. ASSUME NEW h \in Handlers, NEW c \in Calls, Invoke(h, c), Renew(m), UNCHANGED sweep
        PROVE  HostApart'
    BY <2>1 DEF Invoke, Renew, TypeOK, HubStateOK
  <2>2. CASE Heartbeat(m) \/ Leave(m)
    BY <2>2 DEF Heartbeat, Leave, Renew, managerVars, HubStateOK
  <2> QED
    BY <1>1, <2>1, <2>2, CallForms DEF Request, UploadGlobalService, deleteEndpoints
<1>2. ASSUME NEW c \in Clusters, Expire(c) PROVE HostApart'
  BY <1>2 DEF Expire, HubStateOK, managerVars
<1>3. ASSUME NEW h \in Handlers, Handle(h) PROVE HostApart'
  BY <1>3 DEF Handle, UploadDone, DeleteDone, Return, TypeOK
<1>4. CASE HostStep
  <2>1. ASSUME NEW w \in HostWorkers, NEW c \in Calls, Invoke(w, c), UNCHANGED hubVars
        PROVE  HostApart'
    BY <2>1 DEF Invoke, TypeOK, hubVars
  <2>2. ASSUME NEW w \in HostWorkers, HostDone(w) PROVE HostApart'
    BY <2>2 DEF HostDone, Return, TypeOK, hubVars
  <2> QED
    BY <1>4, <2>1, <2>2, CallForms DEF HostStep, HostExport, HostRevoke
<1>5. CASE Clean
  <2>1. ASSUME NEW k \in Keys, CleanKey(k) PROVE HostApart'
    <3>1. sweep.cluster \in Clusters /\ UNCHANGED hubVars
      BY <2>1 DEF CleanKey, HubStateOK
    <3>2. call'[Cleaner] = [op |-> "revoke", cluster |-> sweep.cluster, key |-> k]
      BY <2>1 DEF CleanKey, Invoke, TypeOK
    <3> QED
      BY <3>1, <3>2 DEF hubVars
  <2>2. CASE Tick
    BY <2>2 DEF Tick, IsExpired, NoSweep, storeVars, managerVars
  <2>3. CASE NextCluster
    BY <2>3 DEF NextCluster, storeVars, managerVars, HubStateOK
  <2>4. CASE BreakInner \/ RoundDone
    BY <2>4 DEF BreakInner, RoundDone, NoSweep, storeVars, managerVars, HubStateOK
  <2> QED
    BY <1>5, <2>1, <2>2, <2>3, <2>4 DEF Clean
<1>6. CASE CleanDone
  BY <1>6 DEF CleanDone, Return, storeVars, TypeOK, HubStateOK
<1>7. CASE Record
  <2>1. CASE RecordOne
    BY <2>1 DEF RecordOne, Recordable, managerVars, HubStateOK
  <2> QED
    BY <1>7, <2>1 DEF Record, RecordList, RecordFails, RecordDone, storeVars, managerVars
<1>8. CASE ManagerStep /\ UNCHANGED hubVars
  BY <1>8, StepKeepsCall DEF ManagerStep, Deliver, hubVars
<1>9. CASE HubRestart
  BY <1>9 DEF HubRestart, Restart, NoSweep
<1>10. CASE UNCHANGED vars
  BY <1>10 DEF vars, hubVars, managerVars
<1> QED
  BY <1>1, <1>2, <1>3, <1>4, <1>5, <1>6, <1>7, <1>8, <1>9, <1>10 DEF HubNext

\* Whatever the recorder finds after a restart and whoever expires, the cleaner
\* never revokes the endpoints of the host.
THEOREM CleanerAlwaysSparesHost == HubSpec => []CleanerSparesHost
<1>1. HubInit => HostApart
  BY HubProcs, HubAssumption DEF HubInit, Init, HostApart, NoSweep
<1>2. HostApart => CleanerSparesHost
  BY DEF HostApart, CleanerSparesHost
<1> QED
  BY <1>1, <1>2, HostApartStep, HubTypes, PTL DEF HubSpec

----------------------------------------------------------------------------
(* Who makes which calls, and what a write to a global service can be. *)

\* Handlers call for members and never merge nothing, the cleaner only revokes,
\* the host's workers call for the host, and only its exporter merges.
CallerOK(p, c) ==
  /\ p \in Handlers => c.cluster \in Members /\ (c.op = "merge" => c.export.addrs # {})
  /\ p = Cleaner => c.op = "revoke"
  /\ p \in HostWorkers => c.cluster = Host /\ (c.op = "merge" => p = HostExporter)

Callers == \A p \in Procs : pc[p] # "idle" => CallerOK(p, call[p])

\* Every step keeps the callers to their calls.
LEMMA CallersStep ==
  TypeOK /\ HubStateOK /\ Callers /\ [HubNext]_vars => Callers'
<1> SUFFICES ASSUME TypeOK, HubStateOK, Callers, [HubNext]_vars PROVE Callers'
  OBVIOUS
<1> USE HubProcs, HubAssumption
<1>1. ASSUME NEW p \in Procs, NEW c, Invoke(p, c), CallerOK(p, c) PROVE Callers'
  BY <1>1 DEF Invoke, Callers, TypeOK, CallerOK
<1>2. ASSUME NEW p \in Procs, Return(p) PROVE Callers'
  BY <1>2 DEF Return, Callers, TypeOK, CallerOK
<1>3. ASSUME UNCHANGED <<pc, call>> PROVE Callers'
  BY <1>3 DEF Callers, CallerOK
<1>4. ASSUME NEW m \in Members, Request(m) \/ Leave(m) PROVE Callers'
  <2>1. ASSUME NEW h \in Handlers, NEW k \in Keys, NEW x \in Exports,
               UploadGlobalService(h, m, k, x)
        PROVE  Callers'
    BY <1>1, <2>1 DEF UploadGlobalService, IsValid, CallerOK
  <2>2. ASSUME NEW h \in Handlers, NEW k \in Keys, deleteEndpoints(h, m, k) PROVE Callers'
    BY <1>1, <2>2 DEF deleteEndpoints, CallerOK
  <2> QED
    BY <1>3, <1>4, <2>1, <2>2 DEF Request, Heartbeat, Leave, managerVars
<1>5. ASSUME NEW h \in Handlers, Handle(h) PROVE Callers'
  BY <1>2, <1>5 DEF Handle, UploadDone, DeleteDone
<1>6. CASE HostStep
  <2>1. ASSUME NEW k \in Keys, NEW x \in Exports, HostExport(k, x) PROVE Callers'
    BY <1>1, <2>1 DEF HostExport, CallerOK
  <2>2. ASSUME NEW w \in HostWorkers, NEW k \in Keys, HostRevoke(w, k) PROVE Callers'
    BY <1>1, <2>2 DEF HostRevoke, CallerOK
  <2> QED
    BY <1>2, <1>6, <2>1, <2>2 DEF HostStep, HostDone
<1>7. CASE Clean
  <2>1. ASSUME NEW k \in Keys, CleanKey(k) PROVE Callers'
    BY <1>1, <2>1 DEF CleanKey, CallerOK
  <2> QED
    BY <1>3, <1>7, <2>1 DEF Clean, Tick, NextCluster, BreakInner, RoundDone, managerVars
<1>8. CASE CleanDone
  BY <1>2, <1>8 DEF CleanDone
<1>9. CASE Record
  BY <1>3, <1>9 DEF Record, RecordList, RecordFails, RecordOne, RecordDone, managerVars
<1>10. CASE ManagerStep
  <2>1. ASSUME NEW p \in Procs, Step(p) PROVE Callers'
    BY <2>1, StepKeepsCall DEF Callers, CallerOK
  <2> QED
    BY <1>3, <1>10, <2>1 DEF ManagerStep, Deliver
<1>11. CASE HubRestart
  BY <1>11 DEF HubRestart, Restart, Callers
<1>12. ASSUME NEW c \in Clusters, Expire(c) PROVE Callers'
  BY <1>3, <1>12 DEF Expire, managerVars
<1>13. CASE UNCHANGED vars
  BY <1>3, <1>13 DEF vars, managerVars
<1> QED
  BY <1>4, <1>5, <1>6, <1>7, <1>8, <1>9, <1>10, <1>11, <1>12, <1>13 DEF HubNext

\* The invariant of the two theorems below.
LEMMA CallersInvariant == HubSpec => [](IInv /\ HubStateOK /\ Callers)
<1>1. HubInit => Callers
  BY DEF HubInit, Init, Callers
<1> QED
  BY <1>1, CallersStep, HubTypes, HubManagerInvariant, PTL DEF HubSpec

\* A cluster has endpoints after a call only if it had them and the call is
\* another cluster's, or the call is its own merge.
LEMMA AppliedHas ==
  ASSUME NEW s \in MaybeSpec, NEW c \in Calls, NEW e \in EndpointsOf(Applied(s, c))
  PROVE  \/ e \in EndpointsOf(s) /\ e.cluster # c.cluster
         \/ c.op = "merge" /\ e.cluster = c.cluster
<1>1. CASE c.op = "merge"
  <2>1. Applied(s, c) # Absent
    BY <1>1, AppliedType, GlobalServiceAssumption
       DEF Applied, MergedSpec, Calls, MergeCalls, RevokeCalls, OwnEndpoints, removeEndpoints,
           EndpointsOf, MaybeSpec, Specs, Endpoints
  <2>2. EndpointsOf(Applied(s, c)) = removeEndpoints(EndpointsOf(s), c.cluster)
                                       \union OwnEndpoints(c.cluster, c.export.addrs)
    BY <1>1, <2>1 DEF Applied, MergedSpec, EndpointsOf
  <2> QED
    BY <1>1, <2>2 DEF removeEndpoints, OwnEndpoints
<1>2. CASE c.op # "merge"
  BY <1>2 DEF Applied, RevokedSpec, removeEndpoints, EndpointsOf, MaybeSpec, Specs
<1> QED
  BY <1>1, <1>2

\* A global service that is left by a write was computed from the stored one:
\* the request was an Update of the stored version, or a Create of nothing.
LEMMA WriteFromStored ==
  ASSUME IInv, [Next]_managerVars, NEW k \in Keys, live'[k] # live[k], live'[k].spec # Absent
  PROVE  \E p \in Procs :
           /\ pc[p] = "holding" /\ call[p].key = k /\ call[p] \in Calls
           /\ live'[k].spec = Applied(live[k].spec, call[p])
<1>1. PICK p \in Procs : Commit(p) \/ LoseReply(p)
  BY DEF Next, Step, Invoke, LockAndRead, ReadFails, Skip, Reject, LoseRequest, Return,
         Deliver, Restart, managerVars, apiVars
<1>2. pc[p] = "holding" /\ Store(call[p].key, Written(p))
  BY <1>1 DEF Commit, LoseReply
<1>3. PICK r \in Requests(p) \ {"none"} : Accepts(p, r)
  BY <1>1 DEF Commit, LoseReply
<1>4. call[p] \in Calls /\ call[p].key = k /\ live'[k] = Written(p)
  BY <1>2, WrittenVersion DEF IInv, TypeOK, Store
<1>5. live'[k].spec = Wanted(p)
  BY <1>4 DEF Written
<1>6. snap[p].spec = live[k].spec
  <2>1. CASE live[k].spec # Absent
    BY <1>2, <1>3, <1>4, <1>5, <2>1, UpdateStartsFromStored
  <2>2. CASE live[k].spec = Absent
    <3>1. r = "create"
      BY <1>3, <1>4, <2>2 DEF Requests, Accepts
    <3>2. snap[p].spec = Absent
      BY <3>1 DEF Requests
    <3> QED
      BY <2>2, <3>2
  <2> QED
    BY <2>1, <2>2
<1> QED
  BY <1>2, <1>4, <1>5, <1>6 DEF Wanted

\* Endpoints of a member appear in a step only while an upload of it is served.
LEMMA AppearsByUpload ==
  ASSUME IInv, HubStateOK, Callers, [HubNext]_vars,
         NEW m \in Members, NEW k \in Keys, ~Has(m, k), Has(m, k)'
  PROVE  Uploading(m, k)
<1>1. PICK e \in EndpointsOf(live'[k].spec) : e.cluster = m
  BY DEF Has, EndpointsOf
<1>2. live'[k] # live[k] /\ live'[k].spec # Absent
  BY <1>1 DEF Has, EndpointsOf
<1>3. PICK p \in Procs :
        /\ pc[p] = "holding" /\ call[p].key = k /\ call[p] \in Calls
        /\ live'[k].spec = Applied(live[k].spec, call[p])
  BY <1>2, HubStepIsManagerStep, WriteFromStored
<1>4. live[k].spec \in MaybeSpec
  BY DEF IInv, TypeOK, Versions
<1>5. call[p].op = "merge" /\ call[p].cluster = m
  BY <1>1, <1>3, <1>4, AppliedHas DEF Has
<1>6. p \in Handlers
  BY <1>3, <1>5, HubAssumption DEF Callers, CallerOK
<1> QED
  BY <1>3, <1>5, <1>6 DEF Uploading, Serving

\* Endpoints of a member come into a global service by an upload of that member
\* alone: neither a stale cache nor a restart lets another cluster's write bring
\* back what has been removed.
THEOREM NeverResurrected == HubSpec => NoResurrection
<1> DEFINE Fresh == \A m \in Members, k \in Keys : (~Has(m, k) /\ Has(m, k)') => Uploading(m, k)
<1>1. (IInv /\ HubStateOK /\ Callers) /\ [HubNext]_vars => Fresh
  BY AppearsByUpload
<1> QED
  BY <1>1, CallersInvariant, PTL DEF HubSpec, NoResurrection

\* A write leaves a global service without endpoints only if it is an export of
\* the host, which the API server does not validate.
THEOREM EmptiedOnlyByHost == HubSpec => EmptyOnlyByHost
<1> DEFINE ByHost ==
      \A k \in Keys :
        (live'[k] # live[k] /\ live'[k].spec # Absent /\ EndpointsOf(live'[k].spec) = {})
          => pc[HostExporter] = "holding" /\ call[HostExporter].key = k
<1>1. (IInv /\ HubStateOK /\ Callers) /\ [HubNext]_vars => ByHost
  <2> SUFFICES ASSUME IInv, HubStateOK, Callers, [HubNext]_vars, NEW k \in Keys,
                      live'[k] # live[k], live'[k].spec # Absent,
                      EndpointsOf(live'[k].spec) = {}
               PROVE  pc[HostExporter] = "holding" /\ call[HostExporter].key = k
    OBVIOUS
  <2>1. PICK p \in Procs :
          /\ pc[p] = "holding" /\ call[p].key = k /\ call[p] \in Calls
          /\ live'[k].spec = Applied(live[k].spec, call[p])
    BY HubStepIsManagerStep, WriteFromStored
  <2>2. live[k].spec \in MaybeSpec
    BY DEF IInv, TypeOK, Versions
  <2>3. call[p].op = "merge"
    <3> SUFFICES ASSUME call[p].op # "merge" PROVE FALSE
      OBVIOUS
    <3>1. live'[k].spec = RevokedSpec(live[k].spec, call[p].cluster)
      BY <2>1 DEF Applied
    <3>2. live[k].spec \in Specs
      BY <2>2, <3>1 DEF MaybeSpec, RevokedSpec, EndpointsOf, removeEndpoints
    <3> QED
      BY <3>1, <3>2 DEF RevokedSpec, EndpointsOf, Specs
  <2>4. call[p].export.addrs = {}
    <3>1. OwnEndpoints(call[p].cluster, call[p].export.addrs) = {}
      BY <2>1, <2>3 DEF Applied, MergedSpec, EndpointsOf
    <3> SUFFICES ASSUME NEW a \in call[p].export.addrs PROVE FALSE
      OBVIOUS
    <3>2. [cluster |-> call[p].cluster, addr |-> a]
            \in OwnEndpoints(call[p].cluster, call[p].export.addrs)
      BY DEF OwnEndpoints
    <3> QED
      BY <3>1, <3>2
  <2>5. p = HostExporter
    BY <2>1, <2>3, <2>4, HubAssumption DEF Callers, CallerOK
  <2> QED
    BY <2>1, <2>5
<1> QED
  BY <1>1, CallersInvariant, PTL DEF HubSpec, EmptyOnlyByHost

----------------------------------------------------------------------------
(***************************************************************************)
(* The recorder after a restart.  The list it goes through is taken from a *)
(* cache that may be behind, while members upload and delete.  A member    *)
(* without a lease has sent nothing since the restart, so nothing of it    *)
(* was added since: what it has is in every version that the cache held    *)
(* or will get, and so in the list, and stays there until it is recorded.  *)
(***************************************************************************)
Holds(c, v) == \E e \in EndpointsOf(v.spec) : e.cluster = c

InEveryVersion(m, k) ==
  /\ Holds(m, Read(k))
  /\ CachedReads => \A i \in 1 .. Len(backlog[k]) : Holds(m, backlog[k][i])

Unrecorded(m, k) ==
  /\ recorder.pc = "starting" => InEveryVersion(m, k)
  /\ recorder.pc = "recording" => \E l \in recorder.todo : l.key = k /\ m \in l.clusters
  /\ recorder.pc # "done"

RecordInv ==
  \A m \in Members, k \in Keys : (Has(m, k) /\ lease[m] = "absent") => Unrecorded(m, k)

\* A member has a lease while a request of it is served.
Leased == \A h \in Handlers : pc[h] # "idle" => lease[call[h].cluster] # "absent"

\* Nothing but a restart takes a cluster out of the store.
LEMMA LeaseStays ==
  ASSUME HubStateOK, [HubNext]_vars, ~HubRestart, NEW c \in Clusters, lease[c] # "absent"
  PROVE  lease'[c] # "absent"
BY HubProcs
   DEF HubStateOK, HubNext, Request, Leave, Heartbeat, UploadGlobalService, deleteEndpoints,
       Renew, Expire, Handle, UploadDone, DeleteDone, HostStep, HostExport, HostRevoke,
       HostDone, Clean, Tick, NextCluster, BreakInner, RoundDone, CleanKey, CleanDone, Record,
       RecordList, RecordFails, RecordOne, RecordDone, storeVars, hubVars, vars

\* Every step leaves the members that are served with a lease.
LEMMA LeasedStep ==
  TypeOK /\ HubStateOK /\ Callers /\ Leased /\ [HubNext]_vars => Leased'
<1> SUFFICES ASSUME TypeOK, HubStateOK, Callers, Leased, [HubNext]_vars,
                    NEW h \in Handlers, pc'[h] # "idle"
             PROVE  lease'[call'[h].cluster] # "absent"
  BY DEF Leased
<1> USE HubProcs
<1>1. ~HubRestart
  BY DEF HubRestart, Restart
<1>2. CASE pc[h] # "idle" /\ call'[h] = call[h]
  <2>1. call[h].cluster \in Clusters
    BY <1>2 DEF Callers, CallerOK
  <2> QED
    BY <1>1, <1>2, <2>1, LeaseStays DEF Leased
<1>3. ASSUME NEW m \in Members, NEW g \in Handlers, NEW c, c.cluster = m, Invoke(g, c), Renew(m)
      PROVE  lease'[call'[h].cluster] # "absent"
  <2>1. CASE g = h
    BY <1>3, <2>1 DEF Invoke, Renew, TypeOK, HubStateOK
  <2>2. CASE g # h
    BY <1>2, <1>3, <2>2 DEF Invoke, TypeOK
  <2> QED
    BY <2>1, <2>2
<1>4. ASSUME NEW m \in Members, Request(m) \/ Leave(m) PROVE lease'[call'[h].cluster] # "absent"
  <2>1. CASE Heartbeat(m) \/ Leave(m)
    BY <1>2, <2>1 DEF Heartbeat, Leave, managerVars
  <2>2. ASSUME NEW g \in Handlers, NEW k \in Keys, NEW x \in Exports,
               UploadGlobalService(g, m, k, x)
        PROVE  lease'[call'[h].cluster] # "absent"
    BY <1>3, <2>2 DEF UploadGlobalService
  <2>3. ASSUME NEW g \in Handlers, NEW k \in Keys, deleteEndpoints(g, m, k)
        PROVE  lease'[call'[h].cluster] # "absent"
    BY <1>3, <2>3 DEF deleteEndpoints
  <2> QED
    BY <1>4, <2>1, <2>2, <2>3 DEF Request
<1>5. ASSUME NEW p \in Procs, Return(p) PROVE lease'[call'[h].cluster] # "absent"
  BY <1>2, <1>5 DEF Return, TypeOK
<1>6. ASSUME NEW p \in Procs \ Handlers, NEW c, Invoke(p, c)
      PROVE  lease'[call'[h].cluster] # "absent"
  BY <1>2, <1>6 DEF Invoke, TypeOK
<1>7. CASE HostStep \/ Clean \/ CleanDone
  <2>1. /\ HostWorkers \subseteq Procs \ Handlers /\ HostExporter \in HostWorkers
        /\ Cleaner \in Procs \ Handlers
    BY HubAssumption
  <2>2. CASE HostStep
    BY <1>5, <1>6, <2>1, <2>2 DEF HostStep, HostExport, HostRevoke, HostDone
  <2>3. ASSUME NEW k \in Keys, CleanKey(k) PROVE lease'[call'[h].cluster] # "absent"
    BY <1>6, <2>1, <2>3 DEF CleanKey
  <2>4. CASE Tick \/ NextCluster \/ BreakInner \/ RoundDone
    BY <1>2, <2>4 DEF Tick, NextCluster, BreakInner, RoundDone, managerVars
  <2>5. CASE CleanDone
    BY <1>5, <2>5 DEF CleanDone
  <2> QED
    BY <1>7, <2>2, <2>3, <2>4, <2>5 DEF Clean
<1>8. CASE ManagerStep
  <2>1. ASSUME NEW p \in Procs, Step(p) PROVE lease'[call'[h].cluster] # "absent"
    BY <1>2, <2>1, StepKeepsCall
  <2> QED
    BY <1>2, <1>8, <2>1 DEF ManagerStep, Deliver
<1>9. ASSUME NEW g \in Handlers, Handle(g) PROVE lease'[call'[h].cluster] # "absent"
  BY <1>5, <1>9 DEF Handle, UploadDone, DeleteDone
<1>10. CASE UNCHANGED managerVars
  BY <1>2, <1>10 DEF managerVars
<1> QED
  BY <1>1, <1>4, <1>7, <1>8, <1>9, <1>10
     DEF HubNext, Expire, Record, RecordList, RecordFails, RecordOne, RecordDone, vars

\* As long as a cluster keeps its endpoints, the versions the cache gets to see
\* keep them too.
LEMMA EveryVersionStep ==
  ASSUME IInv, [Next]_managerVars, NEW m, NEW k \in Keys,
         InEveryVersion(m, k), Has(m, k)'
  PROVE  InEveryVersion(m, k)'
<1>1. CASE ~CachedReads
  BY <1>1 DEF InEveryVersion, Holds, Has, Read
<1>2. CASE CachedReads /\ cache' = cache /\ backlog' = backlog
  BY <1>2 DEF InEveryVersion, Holds, Read
<1>3. ASSUME CachedReads, NEW p \in Procs, Commit(p) \/ LoseReply(p) PROVE InEveryVersion(m, k)'
  <2>1. Store(call[p].key, Written(p)) /\ pc[p] # "idle"
    BY <1>3 DEF Commit, LoseReply
  <2>2. /\ backlog[k] \in Seq(Versions)
        /\ call[p].key \in Keys /\ Written(p) \in Versions
        /\ live \in [Keys -> Versions] /\ backlog \in [Keys -> Seq(Versions)]
    BY <2>1, WrittenVersion DEF IInv, TypeOK
  <2>3. cache' = cache
    BY <2>1 DEF Store
  <2>4. CASE backlog'[k] = backlog[k]
    BY <1>3, <2>3, <2>4 DEF InEveryVersion, Holds, Read
  <2>5. CASE backlog'[k] = Append(backlog[k], Written(p)) /\ live'[k] = Written(p)
    <3>1. Holds(m, Written(p))
      BY <2>5 DEF Has, Holds
    <3>2. ASSUME NEW i \in 1 .. Len(backlog'[k]) PROVE Holds(m, backlog'[k][i])
      BY <1>3, <2>2, <2>5, <3>1, <3>2 DEF InEveryVersion
    <3> QED
      BY <1>3, <2>3, <3>2 DEF InEveryVersion, Holds, Read
  <2> QED
    BY <2>1, <2>2, <2>4, <2>5 DEF Store
<1>4. ASSUME CachedReads, NEW j \in Keys, Deliver(j) PROVE InEveryVersion(m, k)'
  <2>1. backlog[k] \in Seq(Versions) /\ cache \in [Keys -> Versions]
        /\ backlog \in [Keys -> Seq(Versions)]
    BY DEF IInv, TypeOK
  <2>2. CASE j # k
    <3>1. cache'[k] = cache[k] /\ backlog'[k] = backlog[k]
      BY <1>4, <2>1, <2>2 DEF Deliver
    <3> QED
      BY <1>4, <3>1 DEF InEveryVersion, Holds, Read
  <2>3. CASE j = k
    <3>1. backlog[k] # <<>> /\ cache'[k] = backlog[k][1] /\ backlog'[k] = Tail(backlog[k])
      BY <1>4, <2>1, <2>3 DEF Deliver
    <3>2. Holds(m, cache'[k])
      BY <1>4, <2>1, <3>1 DEF InEveryVersion
    <3>3. ASSUME NEW i \in 1 .. Len(backlog'[k]) PROVE Holds(m, backlog'[k][i])
      <4>1. i + 1 \in 1 .. Len(backlog[k]) /\ backlog'[k][i] = backlog[k][i + 1]
        BY <2>1, <3>1, <3>3
      <4> QED
        BY <1>4, <4>1 DEF InEveryVersion
    <3> QED
      BY <1>4, <3>2, <3>3 DEF InEveryVersion, Holds, Read
  <2> QED
    BY <2>2, <2>3
<1>5. ASSUME CachedReads, Restart PROVE InEveryVersion(m, k)'
  <2>1. live' = live /\ cache' = live /\ Len(backlog'[k]) = 0
    BY <1>5 DEF Restart, apiVars
  <2> QED
    BY <1>5, <2>1 DEF InEveryVersion, Holds, Has, Read
<1> QED
  BY <1>1, <1>2, <1>3, <1>4, <1>5
     DEF Next, Step, Invoke, LockAndRead, ReadFails, Skip, Reject, LoseRequest, Return,
         managerVars, cacheVars

\* What every version of a global service shows is in the recorder's list.
LEMMA ListHolds ==
  ASSUME IInv, NEW m \in Members, NEW k \in Keys, Holds(m, Read(k)), RecordList
  PROVE  \E l \in recorder'.todo : l.key = k /\ m \in l.clusters
<1> DEFINE l == [key |-> k, clusters |-> ClustersOf(Read(k).spec)]
<1>1. Read(k).spec \in MaybeSpec
  BY DEF IInv, TypeOK, Read, Versions
<1>2. ClustersOf(Read(k).spec) \subseteq Clusters /\ m \in ClustersOf(Read(k).spec)
  BY <1>1 DEF ClustersOf, EndpointsOf, MaybeSpec, Specs, Endpoints, Holds
<1>3. l \in recorder'.todo
  BY <1>2 DEF RecordList, Listed
<1> QED
  BY <1>2, <1>3

\* Every step leaves the members that the recorder has still to enter in its
\* hands.
LEMMA RecordStep ==
  (IInv /\ HubStateOK /\ Callers) /\ Leased /\ RecordInv /\ [HubNext]_vars => RecordInv'
<1> SUFFICES ASSUME IInv, HubStateOK, Callers, Leased, RecordInv, [HubNext]_vars,
                    NEW m \in Members, NEW k \in Keys, Has(m, k)', lease'[m] = "absent"
             PROVE  Unrecorded(m, k)'
  BY DEF RecordInv
<1> USE HubProcs
<1>1. CASE HubRestart
  <2>1. live' = live /\ cache' = live /\ backlog'[k] = <<>> /\ recorder'.pc = "starting"
    BY <1>1 DEF HubRestart, Restart, NotRecording, apiVars
  <2>2. Len(backlog'[k]) = 0
    BY <2>1
  <2> QED
    BY <2>1, <2>2 DEF Unrecorded, InEveryVersion, Holds, Has, Read
<1>2. ASSUME ~HubRestart PROVE Unrecorded(m, k)'
  <2>1. lease[m] = "absent"
    BY <1>2, LeaseStays
  <2>2. Has(m, k)
    BY <2>1, AppearsByUpload DEF Uploading, Serving, Leased
  <2>3. Unrecorded(m, k)
    BY <2>1, <2>2 DEF RecordInv
  <2>4. [Next]_managerVars
    BY HubStepIsManagerStep
  <2>5. CASE UNCHANGED recorder
    <3>1. ASSUME recorder.pc = "starting" PROVE InEveryVersion(m, k)'
      BY <2>3, <2>4, <3>1, EveryVersionStep DEF Unrecorded
    <3> QED
      BY <2>3, <2>5, <3>1 DEF Unrecorded
  <2>6. CASE RecordList
    BY <2>3, <2>6, ListHolds DEF Unrecorded, InEveryVersion, RecordList
  <2>7. CASE RecordFails
    BY <2>7 DEF RecordFails, Unrecorded, HubStateOK
  <2>8. CASE RecordOne
    <3>1. PICK l \in recorder.todo :
            /\ lease' = [c \in Clusters |->
                           IF c \in Recordable(l.clusters) THEN "live" ELSE lease[c]]
            /\ recorder' = [recorder EXCEPT !.todo = @ \ {l}]
      BY <2>8 DEF RecordOne
    <3>2. m \notin l.clusters
      BY <2>1, <3>1, HubAssumption DEF Recordable
    <3>3. PICK x \in recorder.todo : x.key = k /\ m \in x.clusters
      BY <2>3, <2>8 DEF Unrecorded, RecordOne
    <3>4. recorder'.pc = "recording" /\ x \in recorder'.todo
      BY <2>8, <3>1, <3>2, <3>3 DEF RecordOne, HubStateOK
    <3> QED
      BY <3>3, <3>4 DEF Unrecorded
  <2>9. CASE RecordDone
    BY <2>3, <2>9 DEF RecordDone, Unrecorded
  <2> QED
    BY <1>2, <2>5, <2>6, <2>7, <2>8, <2>9
       DEF HubNext, Request, Leave, Heartbeat, UploadGlobalService, deleteEndpoints, Expire,
           Handle, UploadDone, DeleteDone, HostStep, HostExport, HostRevoke, HostDone, Clean,
           Tick, NextCluster, BreakInner, RoundDone, CleanKey, CleanDone, Record, hubVars, vars
<1> QED
  BY <1>1, <1>2

\* After any number of restarts, with a cache that lags behind and with requests
\* served while the recorder is at work: once it is through, the store knows
\* every member that has endpoints in some global service.
THEOREM RecorderAlwaysKnowsMembers == HubSpec => []RecorderKnowsMembers
<1>1. HubInit => Leased /\ RecordInv
  <2> SUFFICES ASSUME HubInit PROVE Leased /\ RecordInv
    OBVIOUS
  <2>1. Leased
    BY HubProcs DEF HubInit, Init, Leased
  <2>2. \A m \in Members, k \in Keys : ~Has(m, k)
    BY DEF HubInit, Init, Has, Missing, EndpointsOf
  <2> QED
    BY <2>1, <2>2 DEF RecordInv
<1>2. (IInv /\ HubStateOK /\ Callers) /\ Leased /\ [HubNext]_vars => Leased'
  BY LeasedStep DEF IInv
<1>3. RecordInv => RecorderKnowsMembers
  BY DEF RecordInv, Unrecorded, RecorderKnowsMembers
<1> QED
  BY <1>1, <1>2, <1>3, RecordStep, CallersInvariant, PTL DEF HubSpec

----------------------------------------------------------------------------
(***************************************************************************)
(* What the store forgets.  The recorder sets the keys of a cluster that   *)
(* has no lease, so that a cluster without a lease must have no keys to    *)
(* lose; an upload that is served has its lease, and enters its key when   *)
(* it is done.                                                             *)
(***************************************************************************)
KeysLeased == \A c \in Clusters : lease[c] = "absent" => keys[c] = {}

\* Who changes the keys of the store: a handler that is done, the recorder for
\* a cluster without a lease, a restart.
LEMMA KeysChange ==
  ASSUME HubStateOK, [HubNext]_vars, NEW c \in Clusters, keys'[c] # keys[c]
  PROVE  \/ \E h \in Handlers : Handle(h)
         \/ RecordOne /\ lease[c] = "absent" /\ lease'[c] = "live"
         \/ HubRestart
<1>1. CASE RecordOne
  <2>1. PICK l \in recorder.todo :
          /\ lease' = [d \in Clusters |->
                         IF d \in Recordable(l.clusters) THEN "live" ELSE lease[d]]
          /\ keys' = [d \in Clusters |->
                         IF d \in Recordable(l.clusters) THEN {l.key} ELSE keys[d]]
    BY <1>1 DEF RecordOne
  <2>2. c \in Recordable(l.clusters)
    BY <2>1
  <2> QED
    BY <1>1, <2>1, <2>2 DEF Recordable
<1> QED
  BY <1>1 DEF HubNext, Request, Leave, Heartbeat, UploadGlobalService, deleteEndpoints, Expire,
     HostStep, HostExport, HostRevoke, HostDone, Clean, Tick, NextCluster, BreakInner,
     RoundDone, CleanKey, CleanDone, Record, RecordList, RecordFails, RecordDone, storeVars,
     hubVars, vars

\* What a handler does to the keys when it is done.
LEMMA HandleKeys ==
  ASSUME TypeOK, HubStateOK, NEW h \in Handlers, Handle(h)
  PROVE  /\ pc[h] = "returned" /\ pc' = [pc EXCEPT ![h] = "idle"]
         /\ call' = [call EXCEPT ![h] = None]
         /\ call[h] \in Calls /\ call[h].cluster \in Clusters
         /\ \/ /\ call[h].op = "merge"
               /\ keys' = [keys EXCEPT ![call[h].cluster] = @ \union {call[h].key}]
            \/ /\ call[h].op = "revoke" /\ reply[h] = "ok"
               /\ keys' = [keys EXCEPT ![call[h].cluster] = @ \ {call[h].key}]
            \/ call[h].op = "revoke" /\ keys' = keys
<1>1. /\ pc[h] = "returned" /\ pc' = [pc EXCEPT ![h] = "idle"]
      /\ call' = [call EXCEPT ![h] = None]
  BY DEF Handle, UploadDone, DeleteDone, Return
<1>2. call[h] \in Calls
  BY <1>1, HubProcs DEF TypeOK
<1>3. call[h].cluster \in Clusters
  BY <1>2 DEF Calls, MergeCalls, RevokeCalls
<1> QED
  BY <1>1, <1>2, <1>3 DEF Handle, UploadDone, DeleteDone, AddServiceKey, RemoveServiceKey

\* Every step leaves a cluster without a lease without keys.
LEMMA KeysLeasedStep ==
  (IInv /\ HubStateOK /\ Callers) /\ Leased /\ KeysLeased /\ [HubNext]_vars => KeysLeased'
<1> SUFFICES ASSUME IInv, HubStateOK, Callers, Leased, KeysLeased, [HubNext]_vars,
                    NEW c \in Clusters, lease'[c] = "absent"
             PROVE  keys'[c] = {}
  BY DEF KeysLeased
<1>1. CASE HubRestart
  BY <1>1 DEF HubRestart
<1>2. CASE ~HubRestart
  <2>1. lease[c] = "absent" /\ keys[c] = {}
    BY <1>2, LeaseStays DEF KeysLeased
  <2>2. ASSUME NEW h \in Handlers, Handle(h) PROVE keys'[c] = keys[c]
    <3>1. TypeOK
      BY DEF IInv
    <3>2. lease[call[h].cluster] # "absent"
      BY <2>2, <3>1, HandleKeys DEF Leased
    <3> QED
      BY <2>1, <2>2, <3>1, <3>2, HandleKeys DEF HubStateOK
  <2> QED
    BY <1>2, <2>1, <2>2, KeysChange
<1> QED
  BY <1>1, <1>2

\* A goroutine that is serving keeps its call, unless it is done or the process
\* restarts.
LEMMA ServingStays ==
  ASSUME TypeOK, HubStateOK, [HubNext]_vars, ~HubRestart, NEW h \in Handlers, pc[h] # "idle",
         ~Handle(h)
  PROVE  pc'[h] # "idle" /\ call'[h] = call[h]
<1> USE HubProcs, HubAssumption
<1>1. ASSUME NEW p \in Procs, NEW c, Invoke(p, c) PROVE pc'[h] # "idle" /\ call'[h] = call[h]
  BY <1>1 DEF Invoke, TypeOK
<1>2. ASSUME NEW p \in Procs, p # h, Return(p) PROVE pc'[h] # "idle" /\ call'[h] = call[h]
  BY <1>2 DEF Return, TypeOK
<1>3. CASE UNCHANGED <<pc, call>>
  BY <1>3
<1>4. ASSUME NEW m \in Members, Request(m) \/ Leave(m)
      PROVE  pc'[h] # "idle" /\ call'[h] = call[h]
  BY <1>1, <1>3, <1>4
     DEF Request, Leave, Heartbeat, UploadGlobalService, deleteEndpoints, managerVars
<1>5. ASSUME NEW g \in Handlers, Handle(g) PROVE pc'[h] # "idle" /\ call'[h] = call[h]
  BY <1>2, <1>5 DEF Handle, UploadDone, DeleteDone
<1>6. CASE HostStep
  BY <1>1, <1>2, <1>6 DEF HostStep, HostExport, HostRevoke, HostDone
<1>7. CASE Clean
  BY <1>1, <1>3, <1>7
     DEF Clean, CleanKey, Tick, NextCluster, BreakInner, RoundDone, managerVars
<1>8. CASE CleanDone
  BY <1>2, <1>8 DEF CleanDone
<1>9. CASE ManagerStep
  BY <1>9, StepKeepsCall DEF ManagerStep, Deliver
<1> QED
  BY <1>3, <1>4, <1>5, <1>6, <1>7, <1>8, <1>9
     DEF HubNext, Expire, Record, RecordList, RecordFails, RecordOne, RecordDone, vars,
         managerVars

\* An upload that is served is served on, or has entered its key.
LEMMA UploadEntersKey ==
  ASSUME TypeOK, HubStateOK, [HubNext]_vars, ~HubRestart,
         NEW m \in Members, NEW k \in Keys, Uploading(m, k)
  PROVE  Uploading(m, k)' \/ k \in keys'[m]
<1>1. PICK h \in Handlers :
        pc[h] # "idle" /\ call[h].cluster = m /\ call[h].op = "merge" /\ call[h].key = k
  BY DEF Uploading, Serving
<1>2. CASE Handle(h)
  <2>1. keys' = [keys EXCEPT ![m] = @ \union {k}]
    BY <1>1, <1>2, HandleKeys
  <2> QED
    BY <2>1, HubProcs DEF HubStateOK
<1>3. CASE ~Handle(h)
  BY <1>1, <1>3, ServingStays DEF Uploading, Serving
<1> QED
  BY <1>2, <1>3

\* A key leaves the store by a successful deletion of the member alone.
LEMMA KeyStays ==
  ASSUME IInv, HubStateOK, KeysLeased, [HubNext]_vars, ~HubRestart,
         NEW m \in Members, NEW k \in Keys, k \in keys[m], k \notin keys'[m]
  PROVE  Deleted(m, k)
<1>0. TypeOK /\ m \in Clusters
  BY HubProcs DEF IInv
<1>1. lease[m] # "absent"
  BY <1>0 DEF KeysLeased
<1>2. PICK h \in Handlers : Handle(h)
  BY <1>0, <1>1, KeysChange
<1>3. call[h].op = "revoke" /\ reply[h] = "ok" /\ call[h].cluster = m /\ call[h].key = k
  BY <1>0, <1>2, HandleKeys DEF HubStateOK
<1>4. pc[h] = "returned" /\ pc'[h] = "idle"
  BY <1>0, <1>2, HandleKeys, HubProcs DEF TypeOK
<1> QED
  BY <1>3, <1>4 DEF Deleted, Serving

\* With the caching client of production, requests of one member that overlap,
\* failed requests, the recorder and the cleaner at work: what the store knows
\* of a member's endpoints, or an upload is about to enter, is forgotten only
\* when a deletion of that member is answered with success, or by a restart.
THEOREM ForgottenOnlyOnRequest == HubSpec => ForgottenOnRequest
<1> DEFINE Kept ==
      \A m \in Members, k \in Keys :
        (Tracked(m, k) /\ ~Tracked(m, k)') => Deleted(m, k) \/ nrestarts' # nrestarts
<1>1. HubInit => Leased /\ KeysLeased
  BY HubProcs DEF HubInit, Init, Leased, KeysLeased
<1>2. (IInv /\ HubStateOK /\ Callers) /\ Leased /\ [HubNext]_vars => Leased'
  BY LeasedStep DEF IInv
<1>3. (IInv /\ HubStateOK /\ Callers) /\ Leased /\ KeysLeased /\ [HubNext]_vars => Kept
  <2> SUFFICES ASSUME IInv, HubStateOK, Callers, KeysLeased, [HubNext]_vars,
                      NEW m \in Members, NEW k \in Keys,
                      Tracked(m, k), ~Tracked(m, k)', nrestarts' = nrestarts
               PROVE  Deleted(m, k)
    OBVIOUS
  <2>1. TypeOK
    BY DEF IInv
  <2>2. ~HubRestart
    BY <2>1 DEF HubRestart, Restart, TypeOK
  <2>3. Has(m, k)' /\ k \notin keys'[m] /\ ~Uploading(m, k)'
    BY DEF Tracked
  <2>4. ~Uploading(m, k)
    BY <2>1, <2>2, <2>3, UploadEntersKey
  <2>5. Has(m, k)
    BY <2>3, <2>4, AppearsByUpload
  <2>6. k \in keys[m]
    BY <2>4, <2>5 DEF Tracked
  <2> QED
    BY <2>2, <2>3, <2>6, KeyStays
<1> QED
  BY <1>1, <1>2, <1>3, KeysLeasedStep, CallersInvariant, PTL DEF HubSpec, ForgottenOnRequest

----------------------------------------------------------------------------
(* What the manager's guarantee comes to in the whole process. *)

\* Whatever handlers, cleaner, exporter and recorder do at the same time, with
\* the caching client of production and across restarts: a write that leaves a
\* global service in being changes no endpoint of another cluster than the one
\* it is made for.
THEOREM HubMergesAreIsolated == HubSpec => MergeIsolation
BY HubImplementsManager, MergesAreIsolated, PTL

=============================================================================
