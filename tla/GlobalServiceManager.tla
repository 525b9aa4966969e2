------------------------ MODULE GlobalServiceManager ------------------------
(***************************************************************************)
(* globalServiceManager of service-hub: goroutines that merge a cluster's  *)
(* endpoints into a global service or revoke them, one at a time under one *)
(* lock, through a Kubernetes client                                       *)
(* (src/pkg/service-hub/types/global_service_manager.go).                  *)
(*                                                                         *)
(* The client is the one options.go takes from the controller manager: it  *)
(* reads from an informer cache, which follows the API server through a    *)
(* watch and may lag behind it, and it writes to the API server, which     *)
(* checks the resource version of an Update, the absence of the object on  *)
(* a Create and its presence on a Delete.  CachedReads = FALSE is the      *)
(* uncached client that the tests of the manager are run with.             *)
(***************************************************************************)
EXTENDS GlobalService, Naturals, Sequences

CONSTANTS Procs,                \* goroutines that call the manager
          None,                 \* no process, no call, no reply
          Namespaces,           \* namespaces of the global services
          NamespaceOf,          \* the namespace of each key
          InitNamespaces,       \* the namespaces that exist at first
          AllowCreateNamespace, \* the manager's field of that name
          CachedReads,          \* reads are served by the informer cache
          MaxMerges,            \* bound on calls that may add a version
          MaxFaults,            \* bound on failed requests to the API server
          MaxRestarts           \* bound on restarts of service-hub

ASSUME ManagerAssumption ==
  /\ None \notin Procs /\ None \notin {"ok", "error"}
  /\ None \notin Calls
  /\ NamespaceOf \in [Keys -> Namespaces]
  /\ InitNamespaces \subseteq Namespaces
  /\ AllowCreateNamespace \in BOOLEAN
  /\ CachedReads \in BOOLEAN
  /\ MaxMerges \in Nat
  /\ MaxFaults \in Nat
  /\ MaxRestarts \in Nat

VARIABLES
  live,       \* per key, the object in the API server with its version
  cache,      \* per key, the object in the informer cache
  backlog,    \* per key, the versions the watch has still to deliver
  namespaces, \* the namespaces that exist
  lock,       \* globalServiceManager.lock: its holder, or None
  pc,         \* where each goroutine is in its call
  call,       \* the call each goroutine makes
  snap,       \* what the call read under the lock
  reply,      \* nil ("ok") or an error ("error")
  nmerges, nfaults, nrestarts

apiVars    == <<live, namespaces>>
cacheVars  == <<cache, backlog>>
countVars  == <<nmerges, nfaults, nrestarts>>
managerVars == <<live, cache, backlog, namespaces, lock, pc, call, snap, reply,
                 nmerges, nfaults, nrestarts>>

Versions == [rv : Nat, spec : MaybeSpec]
Missing  == [rv |-> 0, spec |-> Absent]

Init ==
  /\ live = [k \in Keys |-> Missing]
  /\ cache = live
  /\ backlog = [k \in Keys |-> <<>>]
  /\ namespaces = InitNamespaces
  /\ lock = None
  /\ pc = [p \in Procs |-> "idle"]
  /\ call = [p \in Procs |-> None]
  /\ snap = [p \in Procs |-> Missing]
  /\ reply = [p \in Procs |-> None]
  /\ nmerges = 0
  /\ nfaults = 0
  /\ nrestarts = 0

----------------------------------------------------------------------------
(* What a call that holds the lock asks of the API server. *)

\* client.Get of the delegating client, or of a direct one.
Read(k) == IF CachedReads THEN cache[k] ELSE live[k]

Wanted(p) == Applied(snap[p].spec, call[p])

\* removeEndpoints + append move the cluster's endpoints to the end of the
\* list, in the order of the call, so an unchanged set may still compare
\* unequal when the list had another order.
MayReorder(p) ==
  LET eps == EndpointsOf(snap[p].spec)
  IN  \E e, f \in eps : e # f /\ e.cluster = call[p].cluster

\* The request the call ends with; "none" when nothing is to be written:
\* a revoke that found no object, or a CreateOrUpdate whose callback left the
\* object as it was.
Requests(p) ==
  LET found  == snap[p].spec # Absent
      merge  == call[p].op = "merge"
      same   == Wanted(p) = snap[p].spec
  IN  CASE ~found /\ merge         -> {"create"}
        [] ~found /\ ~merge        -> {"none"}
        [] found /\ merge /\ ~same -> {"update"}
        [] found /\ merge /\ same  -> {"none"} \union {r \in {"update"} : MayReorder(p)}
        [] found /\ ~merge         -> IF Wanted(p) = Absent THEN {"delete"} ELSE {"update"}

\* MUTANT of Accepts: the Update is sent without the version that was read, so
\* that the API server takes it whatever is stored.
AcceptsAnyVersion(p, r) ==
  LET k == call[p].key
  IN  CASE r = "create" -> live[k].spec = Absent /\ NamespaceOf[k] \in namespaces
        [] r = "update" -> live[k].spec # Absent
        [] r = "delete" -> live[k].spec # Absent

\* The verdict of the API server on a create, an update or a delete.  Delete
\* carries no precondition: it removes whatever version is there.
Accepts(p, r) ==
  LET k == call[p].key
  IN  CASE r = "create" -> live[k].spec = Absent /\ NamespaceOf[k] \in namespaces
        [] r = "update" -> live[k].spec # Absent /\ live[k].rv = snap[p].rv
        [] r = "delete" -> live[k].spec # Absent

\* The object after an accepted write.  An Update with an equal object leaves
\* the stored version alone, which only a revoke can send: a merge that
\* reaches Update differs from what was read at least in the order.
Written(p) ==
  LET old == live[call[p].key]
  IN  IF call[p].op = "revoke" /\ Wanted(p) = old.spec
      THEN old
      ELSE [rv |-> old.rv + 1, spec |-> Wanted(p)]

\* Store a version and let the watch announce it, whichever client reads.
Store(k, v) ==
  /\ live' = [live EXCEPT ![k] = v]
  /\ backlog' = IF v # live[k] THEN [backlog EXCEPT ![k] = Append(@, v)] ELSE backlog
  /\ UNCHANGED <<cache, namespaces>>

----------------------------------------------------------------------------
(* The steps of a call. *)

\* The caller enters CreateOrMergeGlobalService or RevokeGlobalService and
\* waits for the lock.
Invoke(p, c) ==
  /\ pc[p] = "idle"
  /\ c.op = "merge" => nmerges < MaxMerges
  /\ nmerges' = IF c.op = "merge" THEN nmerges + 1 ELSE nmerges
  /\ pc' = [pc EXCEPT ![p] = "waiting"]
  /\ call' = [call EXCEPT ![p] = c]
  /\ UNCHANGED <<apiVars, cacheVars, lock, snap, reply, nfaults, nrestarts>>

\* nsutil.Ensure, which only a merge of a manager that may do so calls.
EnsuredNamespaces(p) ==
  IF call[p].op = "merge" /\ AllowCreateNamespace
  THEN namespaces \union {NamespaceOf[call[p].key]}
  ELSE namespaces

\* MUTANT of Lock: the critical section is entered without the lock.
LockIgnored(p) == lock' = p

Lock(p) ==
  /\ lock = None
  /\ lock' = p

\* Lock, ensure the namespace, Get the object.
LockAndRead(p) ==
  /\ pc[p] = "waiting"
  /\ Lock(p)
  /\ namespaces' = EnsuredNamespaces(p)
  /\ snap' = [snap EXCEPT ![p] = Read(call[p].key)]
  /\ pc' = [pc EXCEPT ![p] = "holding"]
  /\ UNCHANGED <<live, cacheVars, call, reply, countVars>>

\* MUTANT of Unlock: the deferred unlock is forgotten.
UnlockForgotten(p) == lock' = lock

Unlock(p) == lock' = None

\* The call returns r, which releases the lock.
Finish(p, r) ==
  /\ Unlock(p)
  /\ pc' = [pc EXCEPT ![p] = "returned"]
  /\ snap' = [snap EXCEPT ![p] = Missing]
  /\ reply' = [reply EXCEPT ![p] = r]
  /\ UNCHANGED <<call, nmerges, nrestarts>>

Fault == nfaults < MaxFaults /\ nfaults' = nfaults + 1

\* Ensure or Get fails.  A failed Get of a revoke other than NotFound is not
\* returned at once: the zero object is then deleted, which has no name and
\* is refused, so that the call returns an error without any effect as well.
ReadFails(p) ==
  /\ pc[p] = "waiting"
  /\ lock = None
  /\ Fault
  /\ namespaces' \in {namespaces, EnsuredNamespaces(p)}
  /\ Finish(p, "error")
  /\ UNCHANGED <<live, cacheVars>>

\* Nothing to write: the call returns nil.
Skip(p) ==
  /\ pc[p] = "holding"
  /\ "none" \in Requests(p)
  /\ Finish(p, "ok")
  /\ UNCHANGED <<apiVars, cacheVars, nfaults>>

\* The API server accepts the write.
Commit(p) ==
  /\ pc[p] = "holding"
  /\ \E r \in Requests(p) \ {"none"} : Accepts(p, r)
  /\ Store(call[p].key, Written(p))
  /\ Finish(p, "ok")
  /\ UNCHANGED nfaults

\* The API server refuses it: AlreadyExists, Conflict or NotFound.
Reject(p) ==
  /\ pc[p] = "holding"
  /\ \E r \in Requests(p) \ {"none"} : ~Accepts(p, r)
  /\ Finish(p, "error")
  /\ UNCHANGED <<apiVars, cacheVars, nfaults>>

\* MUTANT of LoseRequest: the error of the request is swallowed.
LoseRequestSilently(p) ==
  /\ pc[p] = "holding"
  /\ Requests(p) # {"none"}
  /\ Fault
  /\ Finish(p, "ok")
  /\ UNCHANGED <<apiVars, cacheVars>>

\* The request is lost before it reaches the API server.
LoseRequest(p) ==
  /\ pc[p] = "holding"
  /\ Requests(p) # {"none"}
  /\ Fault
  /\ Finish(p, "error")
  /\ UNCHANGED <<apiVars, cacheVars>>

\* The request is carried out, its answer is lost or comes after the timeout.
LoseReply(p) ==
  /\ pc[p] = "holding"
  /\ \E r \in Requests(p) \ {"none"} : Accepts(p, r)
  /\ Fault
  /\ Store(call[p].key, Written(p))
  /\ Finish(p, "error")

\* The caller goes on with the reply.
Return(p) ==
  /\ pc[p] = "returned"
  /\ pc' = [pc EXCEPT ![p] = "idle"]
  /\ call' = [call EXCEPT ![p] = None]
  /\ reply' = [reply EXCEPT ![p] = None]
  /\ UNCHANGED <<apiVars, cacheVars, lock, snap, countVars>>

\* The watch delivers the next version of an object to the cache.
Deliver(k) ==
  /\ backlog[k] # <<>>
  /\ cache' = [cache EXCEPT ![k] = Head(backlog[k])]
  /\ backlog' = [backlog EXCEPT ![k] = Tail(@)]
  /\ UNCHANGED <<apiVars, lock, pc, call, snap, reply, countVars>>

\* service-hub dies and is started again: every goroutine is gone and the
\* cache is filled anew before a call is served.
Restart ==
  /\ nrestarts < MaxRestarts
  /\ nrestarts' = nrestarts + 1
  /\ cache' = live
  /\ backlog' = [k \in Keys |-> <<>>]
  /\ lock' = None
  /\ pc' = [p \in Procs |-> "idle"]
  /\ call' = [p \in Procs |-> None]
  /\ snap' = [p \in Procs |-> Missing]
  /\ reply' = [p \in Procs |-> None]
  /\ UNCHANGED <<apiVars, nmerges, nfaults>>

----------------------------------------------------------------------------
(* The steps between invocation and return, which nobody else controls. *)
Step(p) ==
  \/ LockAndRead(p)
  \/ ReadFails(p)
  \/ Skip(p)
  \/ Commit(p)
  \/ Reject(p)
  \/ LoseRequest(p)
  \/ LoseReply(p)

Next ==
  \/ \E p \in Procs :
       \/ \E c \in Calls : Invoke(p, c)
       \/ Step(p)
       \/ Return(p)
  \/ \E k \in Keys : Deliver(k)
  \/ Restart

Spec == Init /\ [][Next]_managerVars

(***************************************************************************)
(* sync.RWMutex wakes its waiters in FIFO order once one of them starves,  *)
(* so a waiting call gets the lock if the lock is free again and again:    *)
(* strong fairness.  A call that holds the lock ends, and so does its      *)
(* return to the caller: weak fairness.  Handlers and cleaner give the     *)
(* request a timeout.  The host's exporter and revoker pass on the context *)
(* of their controller, which has no deadline: that their requests end     *)
(* rests on the API server, or the transport, answering each one.          *)
(***************************************************************************)
Conclude(p) == Skip(p) \/ Commit(p) \/ Reject(p)

CallFairness ==
  \A p \in Procs :
    /\ SF_managerVars(LockAndRead(p))
    /\ WF_managerVars(Conclude(p) \/ Return(p))

WatchFairness == \A k \in Keys : WF_managerVars(Deliver(k))

FairSpec == Spec /\ CallFairness /\ WatchFairness

----------------------------------------------------------------------------
(* Properties. *)

TypeOK ==
  /\ live \in [Keys -> Versions]
  /\ cache \in [Keys -> Versions]
  /\ backlog \in [Keys -> Seq(Versions)]
  /\ namespaces \subseteq Namespaces
  /\ lock \in Procs \union {None}
  /\ pc \in [Procs -> {"idle", "waiting", "holding", "returned"}]
  /\ call \in [Procs -> Calls \union {None}]
  /\ snap \in [Procs -> Versions]
  /\ reply \in [Procs -> {"ok", "error", None}]
  /\ nmerges \in 0 .. MaxMerges
  /\ nfaults \in 0 .. MaxFaults
  /\ nrestarts \in 0 .. MaxRestarts
  /\ \A p \in Procs : pc[p] # "idle" => call[p] \in Calls

\* With an uncached client, what a call read is still what is stored when it
\* writes: the lock makes read-modify-write atomic, also across failed calls.
LockKeepsFresh ==
  ~CachedReads =>
    \A p \in Procs : pc[p] = "holding" => snap[p] = live[call[p].key]

\* A write that finds a global service and leaves one changes only what the
\* writing cluster contributed: every endpoint of every other cluster stays
\* and none is invented, even if the object was read from a stale cache.
MergeIsolation ==
  [][\A k \in Keys :
       (live'[k] # live[k] /\ live[k].spec # Absent /\ live'[k].spec # Absent) =>
         \E p \in Procs :
           /\ pc[p] = "holding"
           /\ call[p].key = k
           /\ removeEndpoints(live'[k].spec.eps, call[p].cluster)
                = removeEndpoints(live[k].spec.eps, call[p].cluster)]_managerVars

\* Every call returns, or the process restarts: no error path keeps the lock.
CallsReturn ==
  \A p \in Procs : pc[p] = "waiting" ~> pc[p] \in {"returned", "idle"}

\* With an uncached client the manager is the atomic registry its interface
\* promises: each call takes effect at most once and in one step, an "ok"
\* means it did, an "error" leaves it open.
AbsPhase == [p \in Procs |->
  IF pc[p] \in {"waiting", "holding"} THEN "called" ELSE pc[p]]

Registry == INSTANCE GlobalServiceRegistry WITH
  services <- [k \in Keys |-> live[k].spec],
  phase    <- AbsPhase,
  pending  <- call,
  answer   <- reply

ImplementsRegistry == Registry!Spec

\* A global service is deleted only when no endpoint of another cluster is
\* left in it.
DeleteLosesNobody ==
  [][\A k \in Keys :
       (live[k].spec # Absent /\ live'[k].spec = Absent) =>
         \E p \in Procs :
           /\ pc[p] = "holding"
           /\ call[p].key = k
           /\ removeEndpoints(live[k].spec.eps, call[p].cluster) = {}]_managerVars

=============================================================================
