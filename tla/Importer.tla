------------------------------ MODULE Importer ------------------------------
(***************************************************************************)
(* globalServiceImporter of service-hub in client mode                     *)
(* (src/pkg/service-hub/importer/global_service_importer.go): rounds that  *)
(* download the global services of the host and start a goroutine for each *)
(* service to save, and for each local one to delete.  A round does not    *)
(* wait for its goroutines.                                                *)
(*                                                                         *)
(* Each object is a log of its versions, in the host and in the member,    *)
(* and a resource version is a position in the log; a reader, the cache of *)
(* the host's API server or that of the member's client, is at a position  *)
(* that lags behind the end.                                               *)
(***************************************************************************)
EXTENDS Naturals, Sequences

CONSTANTS Keys,                 \* namespace/name of global services
          Specs,                \* contents of global services
          Absent,               \* no such global service
          None,                 \* no goroutine
          Slots,                \* bound on goroutines per key that are alive at once
          AllowCreateNamespace, \* the importer's field of that name
          MaxVersions,          \* bound on the versions of a service of the host
          MaxFaults,            \* bound on failed requests
          MaxRestarts           \* bound on restarts of service-hub

MaybeSpec == Specs \union {Absent}
Objects   == [origin : Nat, spec : MaybeSpec]
JobType   == [op : {"save", "delete"}, rv : Nat, spec : MaybeSpec, at : Nat]

ASSUME ImporterAssumption ==
  /\ Absent \notin Specs
  /\ AllowCreateNamespace \in BOOLEAN
  /\ MaxVersions \in Nat /\ MaxFaults \in Nat /\ MaxRestarts \in Nat
  /\ None \notin JobType

VARIABLES
  published,  \* per key, the host's global service: its versions so far
  served,     \* per key, the version the host's API server lists
  stored,     \* per key, the member's global service: its versions so far
  seen,       \* per key, the version the member's client reads
  namespaces, \* keys whose namespace exists in the member
  slow,       \* configuration: the request timeout lets a goroutine outlive its round
  round,      \* where importServices is, what it has downloaded
  job,        \* per key and slot, a goroutine
  nfaults, nrestarts

hostVars   == <<published, served>>
memberVars == <<stored, seen, namespaces>>
vars == <<published, served, stored, seen, namespaces, slow, round, job, nfaults, nrestarts>>

Gone == [origin |-> 0, spec |-> Absent]
Idle == [pc |-> "idle", listed |-> [k \in Keys |-> 0]]

Last(log) == log[Len(log)]

Init ==
  /\ published = [k \in Keys |-> <<Absent>>]
  /\ served = [k \in Keys |-> 1]
  /\ stored = [k \in Keys |-> <<Gone>>]
  /\ seen = [k \in Keys |-> 1]
  /\ namespaces = {}
  /\ slow \in BOOLEAN
  /\ round = Idle
  /\ job = [k \in Keys |-> [s \in Slots |-> None]]
  /\ nfaults = 0
  /\ nrestarts = 0

Fault == nfaults < MaxFaults /\ nfaults' = nfaults + 1

----------------------------------------------------------------------------
(* The host, as GlobalServiceManager leaves it: every write is a new       *)
(* version.  Its API server lists what its cache shows.                    *)

Publish(k, s) ==
  /\ Len(published[k]) < MaxVersions
  /\ Last(published[k]) # Absent \/ s # Absent
  /\ published' = [published EXCEPT ![k] = Append(@, s)]
  /\ UNCHANGED <<served, memberVars, slow, round, job, nfaults, nrestarts>>

Serve(k) ==
  /\ served[k] < Len(published[k])
  /\ served' = [served EXCEPT ![k] = @ + 1]
  /\ UNCHANGED <<published, memberVars, slow, round, job, nfaults, nrestarts>>

----------------------------------------------------------------------------
(* importServices *)

\* MUTANT of MayTick: the goroutines have no timeout.
MayTickAnytime == TRUE

\* The ticker fires.  Unless slow, the timeouts of the previous round are over.
MayTick == slow \/ \A k \in Keys, s \in Slots : job[k][s] = None

FreeSlots(k) == {s \in Slots : job[k][s] = None}

\* A goroutine for each of the keys; new[k] is what it is to do.
Start(keys, new) ==
  /\ \A k \in keys : FreeSlots(k) # {}
  /\ job' = [k \in Keys |->
               IF k \in keys
               THEN [job[k] EXCEPT ![CHOOSE s \in FreeSlots(k) : TRUE] = new[k]]
               ELSE job[k]]

\* GetGlobalServices succeeds, a goroutine saves each service of the list.
\* round.listed remembers which version the list showed (0: none of this key).
Download ==
  /\ round.pc = "idle"
  /\ MayTick
  /\ LET keys == {k \in Keys : published[k][served[k]] # Absent}
     IN  /\ Start(keys, [k \in Keys |-> [op |-> "save", rv |-> served[k],
                                         spec |-> published[k][served[k]], at |-> 0]])
         /\ round' = [pc |-> "listing", listed |-> served]
  /\ UNCHANGED <<hostVars, memberVars, slow, nfaults, nrestarts>>

\* The request fails or is answered with an error: the round is over.
DownloadFails ==
  /\ round.pc = "idle"
  /\ MayTick
  /\ Fault
  /\ UNCHANGED <<hostVars, memberVars, slow, round, job, nrestarts>>

\* importedKeySet.Has
Imported(k) == published[k][round.listed[k]] # Absent

\* The local services are listed from the cache; what the host does not have
\* is deleted by a goroutine each.
ListLocal ==
  /\ round.pc = "listing"
  /\ LET keys == {k \in Keys : stored[k][seen[k]].spec # Absent /\ ~Imported(k)}
     IN  Start(keys, [k \in Keys |-> [op |-> "delete", rv |-> round.listed[k],
                                      spec |-> Absent, at |-> 0]])
  /\ round' = Idle
  /\ UNCHANGED <<hostVars, memberVars, slow, nfaults, nrestarts>>

ListFails ==
  /\ round.pc = "listing"
  /\ Fault
  /\ round' = Idle
  /\ UNCHANGED <<hostVars, memberVars, slow, job, nrestarts>>

----------------------------------------------------------------------------
(* The goroutines.  A goroutine that ends, with or without an error, is    *)
(* gone: errors are logged only.                                           *)

End(k, s) == job' = [job EXCEPT ![k][s] = None]

Store(k, obj) ==
  /\ stored' = [stored EXCEPT ![k] = Append(@, obj)]
  /\ UNCHANGED <<seen, namespaces>>

IsSave(k, s)   == job[k][s] # None /\ job[k][s].op = "save"
IsDelete(k, s) == job[k][s] # None /\ job[k][s].op = "delete"

\* createOrUpdateGlobalService: Ensure the namespace, Get the object.
ReadLocal(k, s) ==
  /\ IsSave(k, s) /\ job[k][s].at = 0
  /\ namespaces' = IF AllowCreateNamespace THEN namespaces \union {k} ELSE namespaces
  /\ job' = [job EXCEPT ![k][s].at = seen[k]]
  /\ UNCHANGED <<hostVars, stored, seen, slow, round, nfaults, nrestarts>>

Read(k, s) == stored[k][job[k][s].at]

\* MUTANT of UpToDate: any copy that carries a version will do.
UpToDateAnyway(k, s) == Read(k, s).spec # Absent

\* The callback leaves an object alone whose label names the version at hand.
UpToDate(k, s) == Read(k, s).spec # Absent /\ Read(k, s).origin = job[k][s].rv

\* The API server takes an Update of the stored version, and a Create where
\* there is no object but a namespace.
Accepts(k, s) ==
  IF Read(k, s).spec # Absent
  THEN job[k][s].at = Len(stored[k])
  ELSE Last(stored[k]).spec = Absent /\ k \in namespaces

\* MUTANT of Saved: the label that names the version is forgotten.
SavedUnlabelled(k, s) == [spec |-> job[k][s].spec]

\* What is written: the content, and the label that names its version.
Saved(k, s) == [origin |-> job[k][s].rv, spec |-> job[k][s].spec]

SaveSkips(k, s) ==
  /\ IsSave(k, s) /\ job[k][s].at # 0
  /\ UpToDate(k, s)
  /\ End(k, s)
  /\ UNCHANGED <<hostVars, memberVars, slow, round, nfaults, nrestarts>>

SaveWrites(k, s) ==
  /\ IsSave(k, s) /\ job[k][s].at # 0
  /\ ~UpToDate(k, s)
  /\ Accepts(k, s)
  /\ Store(k, Saved(k, s))
  /\ End(k, s)
  /\ UNCHANGED <<hostVars, slow, round, nfaults, nrestarts>>

SaveRejected(k, s) ==
  /\ IsSave(k, s) /\ job[k][s].at # 0
  /\ ~UpToDate(k, s)
  /\ ~Accepts(k, s)
  /\ End(k, s)
  /\ UNCHANGED <<hostVars, memberVars, slow, round, nfaults, nrestarts>>

\* deleteService: by name, whatever version is there.
Delete(k, s) ==
  /\ IsDelete(k, s)
  /\ IF Last(stored[k]).spec # Absent THEN Store(k, Gone) ELSE UNCHANGED memberVars
  /\ End(k, s)
  /\ UNCHANGED <<hostVars, slow, round, nfaults, nrestarts>>

\* A request of the goroutine is lost.  (A lost answer is no different from
\* success: nobody looks at it.)
RequestLost(k, s) ==
  /\ job[k][s] # None
  /\ Fault
  /\ End(k, s)
  /\ UNCHANGED <<hostVars, memberVars, slow, round, nrestarts>>

----------------------------------------------------------------------------
\* The watch delivers the next version to the cache of the member's client.
Deliver(k) ==
  /\ seen[k] < Len(stored[k])
  /\ seen' = [seen EXCEPT ![k] = @ + 1]
  /\ UNCHANGED <<hostVars, stored, namespaces, slow, round, job, nfaults, nrestarts>>

\* service-hub restarts: goroutines are gone, the cache is filled anew.
Restart ==
  /\ nrestarts < MaxRestarts
  /\ nrestarts' = nrestarts + 1
  /\ round' = Idle
  /\ job' = [k \in Keys |-> [s \in Slots |-> None]]
  /\ seen' = [k \in Keys |-> Len(stored[k])]
  /\ UNCHANGED <<hostVars, stored, namespaces, slow, nfaults>>

SaveStep(k, s) ==
  \/ ReadLocal(k, s)
  \/ SaveSkips(k, s)
  \/ SaveWrites(k, s)
  \/ SaveRejected(k, s)

JobStep(k, s) == SaveStep(k, s) \/ Delete(k, s)

Next ==
  \/ Download \/ DownloadFails \/ ListLocal \/ ListFails
  \/ \E k \in Keys :
       \/ \E x \in MaybeSpec : Publish(k, x)
       \/ Serve(k)
       \/ Deliver(k)
       \/ \E s \in Slots : JobStep(k, s) \/ RequestLost(k, s)
  \/ Restart

Spec == Init /\ [][Next]_vars

(***************************************************************************)
(* Fairness: the ticker fires and goroutines run on, each bounded by its   *)
(* timeout; both watches deliver.  Nothing is assumed of the host's        *)
(* services.                                                               *)
(***************************************************************************)
Fairness ==
  /\ WF_vars(Download)
  /\ WF_vars(ListLocal)
  /\ \A k \in Keys :
       /\ WF_vars(Serve(k))
       /\ WF_vars(Deliver(k))
       /\ \A s \in Slots : WF_vars(JobStep(k, s))

FairSpec == Spec /\ Fairness

----------------------------------------------------------------------------
(* Properties. *)

ImporterTypeOK ==
  /\ published \in [Keys -> Seq(MaybeSpec)]
  /\ served \in [Keys -> Nat] /\ \A k \in Keys : served[k] \in 1 .. Len(published[k])
  /\ stored \in [Keys -> Seq(Objects)]
  /\ seen \in [Keys -> Nat] /\ \A k \in Keys : seen[k] \in 1 .. Len(stored[k])
  /\ namespaces \subseteq Keys
  /\ slow \in BOOLEAN
  /\ round \in [pc : {"idle", "listing"}, listed : [Keys -> Nat]]
  /\ job \in [Keys -> [Slots -> JobType \union {None}]]
  /\ nfaults \in 0 .. MaxFaults
  /\ nrestarts \in 0 .. MaxRestarts

\* Whatever the goroutines of one or several rounds do, and however late they
\* are, the member's services are what Replica promises: genuine versions of
\* the host's, and, if goroutines end with their round, never an older one
\* after a newer one and never a deletion of what the host still has.
AbstractReplica == INSTANCE Replica WITH history <- stored, loose <- slow

ImplementsReplica == AbstractReplica!Spec

\* Once the host's services are quiet, the member has what the host has, in
\* spite of lost requests, stale caches, restarts and goroutines of older
\* rounds.
CopyConverges ==
  \A k \in Keys : <>[](Last(stored[k]).spec = Last(published[k]))

=============================================================================
